------------------------------- MODULE OsTime -------------------------------
(***************************************************************************)
(* Time values of eloop/os.h and the arithmetic eloop/eloop.c does on      *)
(* them.  A time is a pair of seconds and microseconds; the loop compares  *)
(* two times lexicographically, which is the order of the instants only    *)
(* as long as every time is normalised.                                    *)
(***************************************************************************)
EXTENDS Integers

CONSTANT Usec    (* microseconds per second: 1000000 in the code *)

ASSUME UsecAssumption == Usec \in Nat \ {0}

\* struct os_time
Time == [sec : Int, usec : Int]

NormalTime == [sec : Int, usec : 0 .. Usec - 1]

\* The instant a time stands for, in microseconds.
Instant(t) == t.sec * Usec + t.usec

\* os_time_before
Before(a, b) == \/ a.sec < b.sec
                \/ a.sec = b.sec /\ a.usec < b.usec

\* Mutation of Sub: the borrow is not taken from the seconds.
SubWithoutBorrow(a, b) ==
    [sec  |-> a.sec - b.sec,
     usec |-> IF a.usec < b.usec THEN a.usec - b.usec + Usec ELSE a.usec - b.usec]

\* os_time_sub, and SubTime of eloop.c: one borrow, no more.
Sub(a, b) ==
    IF a.usec < b.usec
    THEN [sec |-> a.sec - b.sec - 1, usec |-> a.usec - b.usec + Usec]
    ELSE [sec |-> a.sec - b.sec, usec |-> a.usec - b.usec]

\* AddTime of eloop.c: one carry, no more.
Add(a, b) ==
    IF a.usec + b.usec >= Usec
    THEN [sec |-> a.sec + b.sec + 1, usec |-> a.usec + b.usec - Usec]
    ELSE [sec |-> a.sec + b.sec, usec |-> a.usec + b.usec]

\* Mutation of After: no carry loop.
AfterWithoutCarry(now, secs, usecs) ==
    [sec |-> now.sec + secs, usec |-> now.usec + usecs]

\* now + (secs, usecs), the carry loop of eloop_register_timeout0.
After(now, secs, usecs) ==
    [sec  |-> now.sec + secs + ((now.usec + usecs) \div Usec),
     usec |-> (now.usec + usecs) % Usec]

=============================================================================
