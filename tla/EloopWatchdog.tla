--------------------------- MODULE EloopWatchdog ---------------------------
(***************************************************************************)
(* The watchdog timeouts of eloop/eloop.c (ELOOP_WATCHDOG_ADDON).  They    *)
(* are entries of the list of timeouts with a flag.  A watchdog outside    *)
(* the loop, which resets the system unless it is stopped or restarted in  *)
(* time, is kept running for the first of them: eloop.timeout_currentWDT   *)
(* points to the entry it runs for.  The pointer is changed when entries   *)
(* are registered and cancelled, and not when eloop_run pops one.          *)
(***************************************************************************)
EXTENDS TimeoutList

CONSTANTS Ptr,      (* the addresses os_malloc can return *)
          Handler,  (* timeout handlers of the application *)
          WDTHandler, (* eloop_timeout_handler_for_WDT *)
          Ctx,      (* values of eloop_data and of user_data *)
          Delay,    (* the <<secs, usecs>> timeouts are registered with *)
          NoEntry,  (* NULL, and a watchdog that is stopped *)
          Present,  (* what os_get_time returns when the model starts *)
          Horizon   (* bound: no clock value or timeout beyond this second *)

ASSUME EloopWatchdogAssumption ==
    /\ Delay \subseteq Nat \X Nat
    /\ Present \in NormalTime /\ Present.sec >= 1
    /\ Horizon \in Nat
    /\ WDTHandler \notin Handler
    /\ NoEntry \notin Ptr \cup Int

VARIABLES now,      (* what os_get_time returns *)
          timeout,  (* eloop.timeout *)
          timeout_currentWDT, (* eloop.timeout_currentWDT *)
          firing,   (* the block eloop_run frees when the handler returns *)
          expires,  (* the instant at which the watchdog resets the system *)
          fired     (* history: eloop_run has called a watchdog timeout *)

vars == <<now, timeout, timeout_currentWDT, firing, expires, fired>>

Entry == [ptr : Ptr, handler : Handler \cup {WDTHandler}, eloop_data : Ctx,
          user_data : Ctx, bIsWDTimeout : BOOLEAN, time : NormalTime]

\* The present is long after 1970, which GetTimeLeft relies on.
Init == /\ now = Present
        /\ timeout = <<>>
        /\ timeout_currentWDT = NoEntry
        /\ firing = NoEntry
        /\ expires = NoEntry
        /\ fired = FALSE

-----------------------------------------------------------------------------
(* The watchdog *)

\* eloop_startWDT, eloop_restartWDT: the given time from now.
StartWDT(secs, usecs) == expires' = Instant(now) + secs * Usec + usecs

\* eloop_stopWDT
StopWDT == expires' = NoEntry

\* Nothing when the second has passed; but the microseconds are compared only
\* for times in the first second of 1970, so that less than a second ago is
\* -1 seconds and some microseconds.
GetTimeLeft(t) ==
    IF t.sec < now.sec \/ (t.usec < now.usec /\ t.sec <= 0)
    THEN [sec |-> 0, usec |-> 0]
    ELSE Sub(t, now)

\* A walk over the list visits its positions in order: where it finds what it
\* looks for.
First(positions) == CHOOSE i \in positions : \A j \in positions : i <= j

Flagged(q) == {i \in 1 .. Len(q) : q[i].bIsWDTimeout}

RestartFor(e) == /\ timeout_currentWDT' = e.ptr
                 /\ StartWDT(GetTimeLeft(e.time).sec, GetTimeLeft(e.time).usec)

\* Mutation of TakesOver: the test that is compiled out, which is true of
\* times that differ.
TakesOverIfOther(e) ==
    \E f \in Entries(timeout) : f.ptr = timeout_currentWDT /\ f.time # e.time

\* An entry that was inserted in front of all watchdog timeouts.
TakesOver(e) == timeout'[First(Flagged(timeout'))] = e

\* Called when e is in the list, with the delay it was registered with.
OnRegisterWDT(e, secs, usecs) ==
    IF timeout_currentWDT = NoEntry
    THEN timeout_currentWDT' = e.ptr /\ StartWDT(secs, usecs)
    ELSE IF TakesOver(e)
         THEN RestartFor(e)
         ELSE UNCHANGED <<timeout_currentWDT, expires>>

\* Mutation of Successors: the walk begins at the head of the list, where the
\* entry to be removed still is.
SuccessorsFromHead(i, gone) == Flagged(timeout)

\* The watchdog timeouts behind position i that stay.
Successors(i, gone) == {k \in Flagged(timeout) \ gone : k > i}

\* The calls of OnUnregisterWDT for the positions gone, in one walk of a
\* cancellation.  When the current entry goes, the next watchdog timeout takes its
\* place, and when that one goes later in the walk, the one after it: in the
\* end the first behind it that stays.
OnUnregisterWDT(gone) ==
    LET current == {i \in gone : timeout[i].ptr = timeout_currentWDT}
        next == Successors(First(current), gone)
    IN  IF current = {} THEN UNCHANGED <<timeout_currentWDT, expires>>
        ELSE IF next = {} THEN timeout_currentWDT' = NoEntry /\ StopWDT
        ELSE RestartFor(timeout[First(next)])

-----------------------------------------------------------------------------
(* The functions of eloop.h.  Any handler may call them, and so may main. *)

Allocated == {e.ptr : e \in Entries(timeout)} \cup {firing}

eloop_register_timeout0(secs, usecs, h, data, user, bIsWDTimeout) ==
    /\ After(now, secs, usecs).sec <= Horizon
    /\ \E p \in Ptr \ Allocated :
           LET e == [ptr |-> p, handler |-> h, eloop_data |-> data,
                     user_data |-> user, bIsWDTimeout |-> bIsWDTimeout,
                     time |-> After(now, secs, usecs)]
           IN  /\ timeout' = Insert(timeout, e)
               /\ IF bIsWDTimeout
                  THEN OnRegisterWDT(e, secs, usecs)
                  ELSE UNCHANGED <<timeout_currentWDT, expires>>
    /\ UNCHANGED <<now, firing, fired>>

eloop_cancel_timeout0(h, data, user, bIsWDTimeout) ==
    /\ timeout' = Remaining(timeout, h, data, user)
    /\ OnUnregisterWDT({i \in 1 .. Len(timeout) :
                            /\ Matches(timeout[i], h, data, user)
                            /\ timeout[i].bIsWDTimeout \/ bIsWDTimeout})
    /\ UNCHANGED <<now, firing, fired>>

eloop_register_watchdog_timeout(secs, usecs, data, user) ==
    eloop_register_timeout0(secs, usecs, WDTHandler, data, user, TRUE)

eloop_cancel_watchdog_timeout(data, user) ==
    eloop_cancel_timeout0(WDTHandler, data, user, TRUE)

eloop_register_timeout(secs, usecs, h, data, user) ==
    eloop_register_timeout0(secs, usecs, h, data, user, FALSE)

eloop_cancel_timeout(h, data, user) ==
    eloop_cancel_timeout0(h, data, user, FALSE)

-----------------------------------------------------------------------------
(* The loop *)

\* eloop_run pops the head when it is due and calls it.
ExpireHead ==
    /\ firing = NoEntry
    /\ timeout # <<>>
    /\ ~ Before(now, timeout[1].time)
    /\ firing' = timeout[1].ptr
    /\ timeout' = Tail(timeout)
    /\ fired' = (fired \/ timeout[1].bIsWDTimeout)
    /\ UNCHANGED <<now, timeout_currentWDT, expires>>

\* The handler returns and the block is freed.
HandlerReturns == /\ firing # NoEntry
                  /\ firing' = NoEntry
                  /\ UNCHANGED <<now, timeout, timeout_currentWDT, expires, fired>>

ClockTick == /\ now' = After(now, 0, 1)
             /\ now'.sec <= Horizon
             /\ UNCHANGED <<timeout, timeout_currentWDT, firing, expires, fired>>

Next ==
    \/ \E d \in Delay, data, user \in Ctx :
           \/ eloop_register_watchdog_timeout(d[1], d[2], data, user)
           \/ \E h \in Handler : eloop_register_timeout(d[1], d[2], h, data, user)
    \/ \E data, user \in Ctx \cup {ALL} :
           \/ eloop_cancel_watchdog_timeout(data, user)
           \/ \E h \in Handler : eloop_cancel_timeout(h, data, user)
    \/ ExpireHead
    \/ HandlerReturns
    \/ ClockTick

Spec == Init /\ [][Next]_vars

-----------------------------------------------------------------------------
(* Properties *)

\* Types; the flag marks the entries of the watchdog's handler.
TypeOK ==
    /\ now \in NormalTime
    /\ timeout \in Seq(Entry)
    /\ \A e \in Entries(timeout) : e.bIsWDTimeout <=> e.handler = WDTHandler
    /\ timeout_currentWDT \in Ptr \cup {NoEntry}
    /\ firing \in Ptr \cup {NoEntry}
    /\ expires \in Int \cup {NoEntry}
    /\ fired \in BOOLEAN

Watchdogs == {e \in Entries(timeout) : e.bIsWDTimeout}

Nearest(e) == e \in Watchdogs /\ \A f \in Watchdogs : ~ Before(f.time, e.time)

\* As long as no watchdog timeout was allowed to fire, eloop.timeout_currentWDT
\* is NULL without watchdog timeouts and otherwise points to one of them that
\* no other precedes; above all it never points to a freed entry.
CurrentIsNearest ==
    ~ fired =>
        \/ Watchdogs = {} /\ timeout_currentWDT = NoEntry
        \/ \E e \in Watchdogs : Nearest(e) /\ timeout_currentWDT = e.ptr

\* And the watchdog runs for the nearest one: it resets the system at that
\* time, at once if the time had passed already, and does not run when there is
\* nothing to wait for.
WatchdogGuardsNearest ==
    ~ fired =>
        \/ Watchdogs = {} /\ expires = NoEntry
        \/ \E e \in Watchdogs :
               /\ Nearest(e)
               /\ \/ expires = Instant(e.time)
                  \/ /\ ~ Before(now, e.time)
                     /\ expires # NoEntry
                     /\ expires <= Instant(now)

=============================================================================
