------------------------------ MODULE LfsRead ------------------------------
(***************************************************************************)
(* logfile/lfs_read.c: the lines of a log between two times.  A line       *)
(* starts with its time, which is later than that of the line before, as   *)
(* lfs_test.c writes it.  The position of a time is found by a binary      *)
(* search over the bytes of the file: seek, and take the next line that    *)
(* begins; then the lines are read in blocks.  Other processes append      *)
(* lines at any time.                                                      *)
(***************************************************************************)
EXTENDS Integers, Sequences

CONSTANTS DATA_SIZE,     (* bytes read to find a line *)
          BULK_BUF_SIZE, (* bytes of a block *)
          Sector,        (* 512 *)
          MAX_LOGLINE_SIZE, (* bytes of a line's text that are written *)
          Stamp,         (* 10: the bytes of a line around its text *)
          Beyond,        (* 0xFFFFFFFE, for a time after the last line *)
          Writes,        (* what is written: the length of the text, whether it is
                            looked for, the seconds since the line before *)
          Times, Offsets,  (* st and et, and t_offset, of the calls *)
          MaxLines, MaxSize  (* bounds of the log *)

\* The bytes that are read to find a line hold the end of one line and the time
\* of the next; a block holds a line and what is not read of a sector.
LfsReadAssumption ==
    /\ {DATA_SIZE, BULK_BUF_SIZE, Sector, MAX_LOGLINE_SIZE, Stamp} \subseteq Nat \ {0}
    /\ Writes \subseteq [len : Nat, match : BOOLEAN, gap : Nat \ {0}]
    /\ Times \cup Offsets \subseteq Nat
    /\ {MaxLines, MaxSize, Beyond} \subseteq Nat
    /\ 2 * MaxSize + BULK_BUF_SIZE < Beyond
    /\ \A w \in Writes : /\ w.len + 2 * Stamp <= DATA_SIZE
                         /\ w.len + Stamp + Sector < BULK_BUF_SIZE

\* In half of a range that is searched there is the end of a line.
ShortLines == \A w \in Writes : 2 * (w.len + Stamp) < DATA_SIZE

VARIABLES log,    (* the lines of the file *)
          lfs,    (* lfs_ctx, the arguments of the call and where it is *)
          range,  (* the arguments of _getSeqPosition *)
          block,  (* of filter2: where the file is read, off, and the next line *)
          out     (* the lines written out *)

vars == <<log, lfs, range, block, out>>

Before == -1   \* returned for a time before the first line

\* Where line n ends and where it begins, the line that is to be written among them.
End(n) == log[n].off + log[n].len
Start(n) == IF n \in DOMAIN log THEN log[n].off ELSE IF log = <<>> THEN 0 ELSE End(Len(log))
LogSize == Start(Len(log) + 1)

\* init_lfs reads the first and the last line and the size of the file; they
\* stay what they are for the lines that were known then.
ft == log[1].t
lt == log[lfs.known].t
FileSize == End(lfs.known)

Unread == [at |-> 0, off |-> 0, next |-> 1]
Closed == [pc |-> "closed", known |-> 0, from |-> 0, to |-> 0, t_offset |-> 0, all |-> FALSE,
           soff |-> 0, eoff |-> 0]
Whole(l) == [lo |-> 1, hi |-> l.known, count |-> 0]

Init ==
    /\ log = <<>> /\ out = <<>>
    /\ lfs = Closed
    /\ range = Whole(Closed)
    /\ block = Unread

-----------------------------------------------------------------------------
\* A line is appended, unless it is too long.
lfs_write_out(w) ==
    /\ Len(log) < MaxLines /\ LogSize + w.len + Stamp <= MaxSize
    /\ w.len < MAX_LOGLINE_SIZE
    /\ log' = Append(log, [t |-> (IF log = <<>> THEN 0 ELSE log[Len(log)].t) + w.gap,
                           off |-> LogSize, len |-> w.len + Stamp, match |-> w.match])
    /\ UNCHANGED <<lfs, range, block, out>>

lfs_read_open ==
    /\ lfs.pc = "closed" /\ log # <<>>
    /\ lfs' = [Closed EXCEPT !.pc = "open", !.known = Len(log)]
    /\ UNCHANGED <<log, range, block, out>>

lfs_read_close ==
    /\ lfs.pc \in {"open", "done"}
    /\ lfs' = Closed
    /\ UNCHANGED <<log, range, block, out>>

-----------------------------------------------------------------------------
(* filter1: where the lines between two times begin and where they end *)

\* What is searched: the first time, the last, and the one behind the last.
Searches == {"from", "to", "next"}
Sought == CASE lfs.pc = "from" -> lfs.from
            [] lfs.pc = "to" -> lfs.to
            [] lfs.pc = "next" -> lfs.to + 1

\* The beginning of the range is known.
WithStart(l, soff) ==
    CASE l.to > lt -> [l EXCEPT !.soff = soff, !.pc = "next"]
      [] l.to = lt -> [l EXCEPT !.soff = soff, !.pc = "range", !.eoff = FileSize]
      [] l.to < lt -> [l EXCEPT !.soff = soff, !.pc = "to"]

\* Mutation of WithEnd: the line of the last time itself is left out.
WithEndBefore(l, eoff, mt) ==
    [l EXCEPT !.pc = "range", !.eoff = IF mt = lt THEN FileSize ELSE eoff]

\* A line for the last time is found: the last, one with that time, or another.
WithEnd(l, eoff, mt) ==
    CASE mt = lt -> [l EXCEPT !.pc = "range", !.eoff = FileSize]
      [] mt # lt /\ mt = l.to -> [l EXCEPT !.pc = "next"]
      [] mt # lt /\ mt # l.to -> [l EXCEPT !.pc = "range", !.eoff = eoff]

\* getSeqPosition returns a position and the time found there, 0 if none is.
Returns(off, mt) ==
    /\ lfs' = CASE lfs.pc = "from" -> WithStart(lfs, off)
                [] lfs.pc = "to" -> WithEnd(lfs, off, mt)
                [] lfs.pc = "next" -> [lfs EXCEPT !.pc = "range", !.eoff = off]
    /\ range' = Whole(lfs)

\* lfs_read_in: from a local time to another, or the first or the last second
\* and the next, whatever the text; it calls filter1.
lfs_read_in(st, et, opt, t_offset) ==
    LET from == CASE opt = 1 -> ft [] opt = 2 -> lt [] opt = 0 -> st - t_offset
        l == [pc |-> "from", known |-> lfs.known, from |-> from,
              to |-> IF opt = 0 THEN et - t_offset ELSE from + 1,
              t_offset |-> IF opt = 0 THEN t_offset ELSE 0,
              all |-> opt # 0, soff |-> 0, eoff |-> 0]
    IN  /\ lfs.pc \in {"open", "done"}
        /\ t_offset <= st /\ t_offset <= et
        /\ lfs' = IF from < ft THEN WithStart(l, 0) ELSE l
        /\ range' = Whole(lfs)
        /\ block' = Unread /\ out' = <<>>
        /\ UNCHANGED log

\* Mutation of getNearSeq: the seek is to the byte itself, not to the one before.
getNearSeqBehind(n, off) ==
    n \in DOMAIN log /\ log[n].off > off /\ (n > 1 => log[n - 1].off <= off)

\* getNearSeq: n is the first line that begins at an offset or behind it.
getNearSeq(n, off) ==
    n \in DOMAIN log /\ log[n].off >= off /\ (n > 1 => log[n - 1].off < off)

\* getSeqPosition and _getSeqPosition: one read of the file for the time between
\* the lines lo and hi, line by line when they are near, else in the middle.
Seek ==
    LET lo == log[range.lo]
        hi == log[range.hi]
        near == hi.off - lo.off < DATA_SIZE - 1 \/ hi.t - lo.t <= 3
        narrowed(r) == range' = r /\ UNCHANGED lfs
    IN  /\ lfs.pc \in Searches
        /\ \/ Sought < lo.t /\ Returns(Before, 0)
           \/ Sought > hi.t /\ Returns(Beyond, 0)
           \/ Sought = lo.t /\ Returns(lo.off, lo.t)
           \/ Sought = hi.t /\ lo.t # hi.t /\ Returns(hi.off, hi.t)
           \/ /\ lo.t < Sought /\ Sought < hi.t /\ near
              /\ \E n \in DOMAIN log :
                    /\ getNearSeq(n, lo.off + 1)
                    /\ IF log[n].t = hi.t \/ log[n].t >= Sought
                       THEN Returns(log[n].off, log[n].t)
                       ELSE narrowed([range EXCEPT !.lo = n, !.count = @ + 1])
           \/ /\ lo.t < Sought /\ Sought < hi.t /\ ~ near
              /\ \E n \in DOMAIN log :
                    /\ getNearSeq(n, (lo.off + hi.off) \div 2)
                    /\ \/ Sought = log[n].t /\ Returns(log[n].off, log[n].t)
                       \/ Sought < log[n].t /\ narrowed([range EXCEPT !.hi = n, !.count = @ + 1])
                       \/ Sought > log[n].t /\ narrowed([range EXCEPT !.lo = n, !.count = @ + 1])
        /\ UNCHANGED <<log, block, out>>

-----------------------------------------------------------------------------
(* filter2: the lines of the range, block by block *)

filter2 ==
    /\ lfs.pc = "range"
    /\ lfs' = [lfs EXCEPT !.pc = IF lfs.soff < lfs.eoff THEN "blocks" ELSE "done"]
    /\ \E n \in 1 .. Len(log) + 1 :
          /\ Start(n) = lfs.soff \/ lfs.soff >= lfs.eoff
          /\ block' = [at |-> lfs.soff, off |-> lfs.soff, next |-> n]
    /\ UNCHANGED <<log, range, out>>

\* The next line is in the buffer with its end.
Buffered(n) == n \in DOMAIN log /\ End(n) <= block.at

\* outfilter: it is written out with its local time if it has the text.
outfilter ==
    /\ lfs.pc = "blocks" /\ Buffered(block.next)
    /\ out' = IF lfs.all \/ log[block.next].match
              THEN Append(out, [line |-> block.next, t |-> log[block.next].t + lfs.t_offset])
              ELSE out
    /\ block' = [block EXCEPT !.next = @ + 1]
    /\ UNCHANGED <<log, lfs, range>>

\* Mutation of ToRead: a block is read as far as the buffer goes.
ToReadAll(rest) == BULK_BUF_SIZE - rest - 1

\* Blocks end with a sector.
ToRead(rest) ==
    LET room == BULK_BUF_SIZE - rest - 1
        left == lfs.eoff - block.off
    IN  (IF room < left THEN room ELSE left)
        - IF block.off % Sector = 0 THEN 0 ELSE Sector - (block.off % Sector)

\* The rest of the block, a line without its end, is kept in front of the next
\* one.  With the last block lfs_read_in returns the lines, or nothing if the
\* caller has no room for them.
ReadBlock ==
    LET rest == block.at - Start(block.next)
        toRead == ToRead(rest)
        len == IF toRead < LogSize - block.at THEN toRead ELSE LogSize - block.at
    IN  /\ lfs.pc = "blocks" /\ ~ Buffered(block.next)
        /\ \/ /\ block.off < lfs.eoff /\ len > 0
              /\ block' = [block EXCEPT !.at = @ + len, !.off = @ + rest + len]
              /\ UNCHANGED <<lfs, out>>
           \/ /\ block.off >= lfs.eoff \/ len <= 0
              /\ lfs' = [lfs EXCEPT !.pc = "done"]
              /\ out' \in {out, <<>>}
              /\ UNCHANGED block
        /\ UNCHANGED <<log, range>>

Next ==
    \/ \E w \in Writes : lfs_write_out(w)
    \/ lfs_read_open
    \/ lfs_read_close
    \/ \E st, et \in Times, t_offset \in Offsets : lfs_read_in(st, et, 0, t_offset)
    \/ \E opt \in {1, 2} : lfs_read_in(0, 0, opt, 0)
    \/ Seek
    \/ filter2
    \/ outfilter
    \/ ReadBlock

Spec == Init /\ [][Next]_vars

-----------------------------------------------------------------------------
(* Properties *)

InRange(n) == lfs.soff <= log[n].off /\ log[n].off < lfs.eoff

\* The range holds the lines that were there when the log was opened and whose
\* time is in the range.  When none is between et and the last line, it holds
\* that too, and the lines appended since when et is later than the last.
RangeHolds ==
    lfs.pc \in {"range", "blocks", "done"} =>
        \A n \in DOMAIN log :
            /\ n <= lfs.known /\ lfs.from <= log[n].t /\ log[n].t <= lfs.to => InRange(n)
            /\ InRange(n) => /\ lfs.from <= log[n].t
                             /\ \/ log[n].t <= lfs.to
                                \/ n = lfs.known
                                \/ n > lfs.known /\ lfs.to > lt

\* A search reads the file less often than it has lines.
SearchIsShort == lfs.pc \in Searches => range.count < lfs.known

Wanted(n) == InRange(n) /\ (lfs.all \/ log[n].match)

\* What is written out are lines of the range with their local times, in order;
\* of those in front of the next line none is missing.
WrittenInOrder ==
    lfs.pc \in {"blocks", "done"} =>
        /\ \A k \in DOMAIN out :
               /\ out[k].line \in DOMAIN log /\ Wanted(out[k].line)
               /\ out[k].t = log[out[k].line].t + lfs.t_offset
               /\ \A m \in DOMAIN out : k < m => out[k].line < out[m].line
        /\ lfs.pc = "blocks" \/ out # <<>> =>
               \A n \in DOMAIN log :
                   Wanted(n) /\ n < block.next => \E k \in DOMAIN out : out[k].line = n

\* When et is later than the last line, all lines are read.
ReadToEnd ==
    lfs.pc = "done" /\ lfs.to > lt =>
        \A n \in 1 .. lfs.known : InRange(n) => n < block.next

RangesFound == RangeHolds /\ SearchIsShort
RangesInWholeLines == WrittenInOrder /\ ReadToEnd

=============================================================================
