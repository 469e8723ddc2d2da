-------------------------- MODULE EloopTimeChange --------------------------
(***************************************************************************)
(* Clock changes in eloop/eloop.c (ELOOP_TIMECHANGE_AUTO).  Timeouts are   *)
(* kept in wall-clock time, which somebody may set.  Twice in each         *)
(* iteration the loop compares the time the wall clock shows with the time *)
(* it should show by the clock ticks of times(), and when they differ it   *)
(* shifts the timeouts by the difference (eloop_timeUpdate).               *)
(*                                                                         *)
(* True time is a variable of the model only; a timeout remembers the true *)
(* time it was registered for.  The loop does not see every change rightly:*)
(* a timeout that a handler registers after a change, and before the loop  *)
(* notices it, is shifted all the same; a change between two runs of       *)
(* eloop_run is not noticed at all.  Each timeout remembers what has been  *)
(* missed of it in that way.                                               *)
(***************************************************************************)
EXTENDS TimeoutList

CONSTANTS Hz,         (* MY_CLOCKS_PER_SEC *)
          Slack,      (* the change of the clock that is ignored: 900000 *)
          Era,        (* the second that ends prehistory: 1000000000 *)
          UInt,       (* 2^32, the modulus of unsigned int *)
          ULong,      (* the modulus of unsigned long, and twice the range
                         of clock_t: 2^32 or 2^64 *)
          Boot,       (* the value of times() when the model starts *)
          Start,      (* what the wall clock shows when the model starts *)
          Delay,      (* the <<secs, usecs>> timeouts are registered with *)
          Steps,      (* the amounts the wall clock may be changed by *)
          MaxSteps,   (* bound: changes of the wall clock *)
          MaxTimers,  (* bound: pending timeouts *)
          Horizon     (* bound: true time, in microseconds *)

EloopTimeChangeAssumption ==
    /\ {Hz, UInt, ULong} \subseteq Nat \ {0}
    /\ Usec % Hz = 0
    /\ Slack < Usec
    /\ {Slack, Era, Boot, Start, MaxSteps, MaxTimers, Horizon} \subseteq Nat
    /\ Delay \subseteq Nat \X Nat
    /\ Steps \subseteq Int

VARIABLES clock,   (* true time, microseconds since the model started *)
          offset,  (* how far the wall clock has been moved *)
          noticed, (* history: and had been when time0 was read *)
          timeout, (* eloop.timeout *)
          t0,      (* times() and the wall clock at the last comparison *)
          time0,
          wake,    (* the true time at which pselect gives up, Horizon if never *)
          pc,
          steps,   (* changes of the wall clock so far *)
          mixed    (* history: the list has held times of both eras *)

vars == <<clock, offset, noticed, timeout, t0, time0, wake, pc, steps, mixed>>

\* out: not in eloop_run; top: at the loop's condition; select: in pselect;
\* expire: back from it, handlers of signals; callback: handlers of timeouts
\* and sockets.
Places == {"out", "top", "select", "expire", "callback"}

-----------------------------------------------------------------------------
(* Clocks *)

\* os_get_time
WallClock == [sec  |-> (Start + clock + offset) \div Usec,
              usec |-> (Start + clock + offset) % Usec]

\* Microseconds in a clock tick.
Tick == Usec \div Hz

\* times(): a signed long that wraps around.
times == LET n == (Boot + (clock \div Tick)) % ULong
         IN  IF 2 * n < ULong THEN n ELSE n - ULong

-----------------------------------------------------------------------------
(* eloop_timeChangeAuto, eloop_timeChange0, eloop_timeUpdate *)

\* The ticks from t0 to t1, an unsigned long.  The constant 0xFFFFFFFF is an
\* unsigned int: on a 64-bit system it is not the maximum of the type.
ClockDiff(t1) == IF t1 > t0 THEN t1 - t0
                            ELSE ((UInt - 1) - t0 + t1 + 1) % ULong

\* The time the wall clock should show; a sum of exactly a second of
\* microseconds is not carried.
ExpectedTime(diff) ==
    LET usec == time0.usec + (((diff % Hz) * Usec) \div Hz)
        sec  == time0.sec + (diff \div Hz)
    IN  IF usec > Usec THEN [sec |-> sec + 1, usec |-> usec - Usec]
                       ELSE [sec |-> sec, usec |-> usec]

\* "less than 1900ms" says the comment; the test ignores up to 0.9 s.
Ignored(d) == d.sec <= 0 /\ d.usec <= Slack

\* Mutations of Moves: entries after prehistory only; prehistoric ones only; the
\* head only.
MovesModern(q, k) == \A j \in 1 .. k : q[j].time.sec > Era
MovesPrehistoric(q, k) == q[k].time.sec <= Era
MovesHead(q, k) == k = 1

\* The walk moves prehistoric entries, and entries in front of the first
\* prehistoric one.
Moves(q, k) == \/ q[k].time.sec <= Era
               \/ \A j \in 1 .. k : q[j].time.sec > Era

Shift(q, new, cur) ==
    LET forward == Before(cur, new)
        d == IF forward THEN Sub(new, cur) ELSE Sub(cur, new)
        Shifted(t) == IF forward THEN Add(t, d) ELSE Sub(t, d)
    IN  IF new = cur \/ Ignored(d) THEN q
        ELSE [k \in 1 .. Len(q) |->
                 IF Moves(q, k) THEN [q[k] EXCEPT !.time = Shifted(@)] ELSE q[k]]

Compared == Shift(timeout, WallClock, ExpectedTime(ClockDiff(times)))

eloop_timeChangeAuto ==
    /\ timeout' = Compared
    /\ t0' = times
    /\ time0' = WallClock
    /\ noticed' = offset

\* The list spans the end of prehistory: a part of it is not shifted.
OneEra(q) == \A j, k \in 1 .. Len(q) : q[j].time.sec <= Era => q[k].time.sec <= Era

\* The part of the clock's changes that the loop has yet to notice.
Unnoticed == offset - noticed

\* The loop will never notice a change by amount: the timeouts stay behind.
Missing(q, amount) == [k \in 1 .. Len(q) |-> [q[k] EXCEPT !.missed = @ - amount]]

-----------------------------------------------------------------------------
Init == /\ clock = 0
        /\ offset = 0
        /\ noticed = 0
        /\ timeout = <<>>
        /\ t0 = 0
        /\ time0 = [sec |-> 0, usec |-> 0]
        /\ wake = Horizon
        /\ pc = "out"
        /\ steps = 0
        /\ mixed = FALSE

eloop_register_timeout(secs, usecs) ==
    /\ pc \in {"out", "expire", "callback"}
    /\ Len(timeout) < MaxTimers
    /\ clock + secs * Usec + usecs <= Horizon
    /\ timeout' = Insert(timeout, [time   |-> After(WallClock, secs, usecs),
                                   due    |-> clock + secs * Usec + usecs,
                                   missed |-> IF pc = "out" THEN 0 ELSE Unnoticed])
    /\ UNCHANGED <<clock, offset, noticed, t0, time0, wake, pc, steps>>

\* The application may call it again after it has returned.
eloop_run == /\ pc = "out"
             /\ t0' = times
             /\ time0' = WallClock
             /\ noticed' = offset
             /\ pc' = "top"
             /\ UNCHANGED <<clock, offset, timeout, wake, steps>>

\* t0 and time0 are variables of eloop_run.
Returns == /\ pc' = "out"
           /\ t0' = 0
           /\ time0' = [sec |-> 0, usec |-> 0]
           /\ noticed' = 0
           /\ wake' = Horizon
           /\ UNCHANGED <<clock, offset, steps>>

\* The loop is told to end, or has nothing to wait for.
LoopEnds == /\ pc = "top"
            /\ timeout' = Missing(timeout, Unnoticed)
            /\ Returns

\* The first comparison of the iteration, then pselect with the time left of
\* the head of the list.
EnterSelect ==
    /\ pc = "top"
    /\ eloop_timeChangeAuto
    /\ wake' = IF timeout' = <<>> THEN Horizon
               ELSE IF Before(WallClock, timeout'[1].time)
                    THEN clock + Instant(Sub(timeout'[1].time, WallClock))
                    ELSE clock
    /\ pc' = "select"
    /\ UNCHANGED <<clock, offset, steps>>

\* pselect returns, at the latest when its timeout has elapsed; the second
\* comparison.
SelectReturns ==
    /\ pc = "select"
    /\ eloop_timeChangeAuto
    /\ wake' = Horizon
    /\ pc' = "expire"
    /\ UNCHANGED <<clock, offset, steps>>

\* It fails, and the loop ends after the comparison.
SelectFails ==
    /\ pc = "select"
    /\ timeout' = Compared
    /\ Returns

HeadDue == timeout # <<>> /\ ~ Before(WallClock, timeout[1].time)

ExpireHead ==
    /\ pc = "expire"
    /\ timeout' = IF HeadDue THEN Tail(timeout) ELSE timeout
    /\ pc' = "callback"
    /\ UNCHANGED <<clock, offset, noticed, t0, time0, wake, steps>>

CallbacksReturn ==
    /\ pc = "callback"
    /\ pc' = "top"
    /\ UNCHANGED <<clock, offset, noticed, timeout, t0, time0, wake, steps>>

\* True time passes; pselect does not sleep beyond its timeout.
TimePasses ==
    /\ clock < Horizon
    /\ pc = "select" => clock < wake
    /\ clock' = clock + 1
    /\ UNCHANGED <<offset, noticed, timeout, t0, time0, wake, pc, steps>>

\* Somebody sets the wall clock, wherever the thread is.
ClockIsSet(amount) ==
    /\ steps < MaxSteps
    /\ Start + clock + offset + amount >= 0
    /\ offset' = offset + amount
    /\ steps' = steps + 1
    /\ timeout' = IF pc = "out" THEN Missing(timeout, amount) ELSE timeout
    /\ UNCHANGED <<clock, noticed, t0, time0, wake, pc>>

Step == \/ \E d \in Delay : eloop_register_timeout(d[1], d[2])
        \/ eloop_run
        \/ LoopEnds
        \/ EnterSelect
        \/ SelectReturns
        \/ SelectFails
        \/ ExpireHead
        \/ CallbacksReturn
        \/ TimePasses
        \/ \E amount \in Steps : ClockIsSet(amount)

Next == /\ Step
        /\ mixed' = (mixed \/ ~ OneEra(timeout'))

Spec == Init /\ [][Next]_vars

-----------------------------------------------------------------------------
(* Properties *)

Types ==
    /\ clock \in 0 .. Horizon
    /\ offset \in Int
    /\ noticed \in Int
    /\ timeout \in Seq([time : NormalTime, due : 0 .. Horizon, missed : Int])
    /\ t0 \in Int
    /\ time0 \in NormalTime
    /\ wake \in Int
    /\ pc \in Places
    /\ steps \in 0 .. MaxSteps

\* Types; shifting leaves the times of the list normalised, as long as it is
\* shifted as a whole.
TypeOK == ~ mixed => Types

\* How wrong a timeout may become: a change that goes unnoticed, or the
\* rounding of one that is noticed to clock ticks, for each change of the clock.
\* A clock that nobody touches costs nothing.
Tolerance == steps * (Slack + Tick)

\* eloop.h: the handler is "called after given time".  The clock may be set at
\* any time: a timeout is early by what the loop has missed of the changes, and
\* by what has changed since it has last looked, but by no more.
NotBeforeGivenTime ==
    ~ mixed /\ pc = "expire" /\ HeadDue =>
        timeout[1].due + timeout[1].missed <= clock + Unnoticed + Tolerance

\* Nor does the loop sleep past the time given for any of the timeouts, but for
\* what it has missed.
NotSleptOver ==
    ~ mixed /\ pc = "select" /\ clock < wake =>
        \A k \in 1 .. Len(timeout) :
            wake <= timeout[k].due + timeout[k].missed + Tolerance

\* Shifting keeps the list sorted, on which the test of its head relies.
StaysSorted ==
    ~ mixed => \A j, k \in 1 .. Len(timeout) :
                   j < k => ~ Before(timeout[k].time, timeout[j].time)

=============================================================================
