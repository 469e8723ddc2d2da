------------------------------ MODULE NsTimers ------------------------------
(***************************************************************************)
(* The stand-alone timers of ns_support/ns_timer_support.c, as it is       *)
(* compiled (ELOOP_MULTIDATA_PATCH alone): a table of independent loops    *)
(* without sockets.  The program that owns a loop asks it how long its     *)
(* own poll may sleep (find_nearest_timeout_ms) and afterwards lets it     *)
(* call what is due (expire_timers).  Each loop belongs to one thread;     *)
(* signals interrupt any of them and are always noted in the first loop.   *)
(***************************************************************************)
EXTENDS TimeoutList

CONSTANTS Main,     (* p_eloopTbl[0] *)
          Server,   (* another entry of p_eloopTbl *)
          Ptr,      (* the addresses os_malloc can return *)
          Handler,  (* timeout handlers *)
          Delay,    (* the <<secs, usecs>> timeouts are registered with *)
          NoEntry,  (* no timeout *)
          Milli,    (* microseconds to the millisecond: 1000 in the code *)
          UInt,     (* the values of an unsigned int: 2^32 *)
          Far,      (* seconds that count as for ever: 0x7FFFFFF *)
          Sig,      (* the signals that are registered *)
          TermSig,  (* SIGINT and SIGTERM *)
          Horizon,  (* bound: no clock value or timeout beyond this second *)
          MaxSigs   (* bound: signals registered with one loop *)

Loops == {Main, Server}

\* struct eloop_timeout; ptr is its address.
Entry == [ptr : Ptr, handler : Handler, eloop_data : Loops, user_data : Loops,
          time : NormalTime]

\* The longest time an unsigned int holds in milliseconds, seven weeks, is
\* shorter than what counts as for ever, four years.
ASSUME NsTimersAssumption ==
    /\ Main # Server
    /\ {Milli, UInt, Far} \subseteq Nat \ {0}
    /\ Usec % Milli = 0
    /\ (UInt - 1) * Milli <= Far * Usec
    /\ Delay \subseteq Nat \X Nat
    /\ TermSig \subseteq Sig
    /\ NoEntry \notin Entry

VARIABLES now,      (* what os_get_time returns *)
          timeout,  (* the list of each loop *)
          firing,   (* tmp of expire_timers: popped, its handler called *)
          pc,       (* where the thread of each loop is *)
          until,    (* the instant find_nearest_timeout_ms lets it sleep to *)
          signals,  (* the table of signals of each loop *)
          signaled, (* loops whose field signaled is not 0 *)
          installed,  (* signals that eloop_handle_signal was installed for *)
          scan,     (* i of eloop_process_pending_signals *)
          pending_terminate,  (* of the first loop *)
          armed,    (* alarm(2) is running *)
          older     (* history: <<p, q>> when p was registered before q *)

timers == <<timeout, firing, older>>
noted == <<signals, signaled, installed, pending_terminate, armed>>
vars == <<now, timers, pc, until, scan, noted>>

Pending(l) == Entries(timeout[l])

\* unused: not initialized, or destroyed; host: in the program that owns the
\* loop; poll: in its poll; signals, timers: in expire_timers; handler,
\* callback: in a handler of a signal or a timeout; exited: the program ended.
Places == {"unused", "host", "poll", "signals", "handler", "timers", "callback", "exited"}

InApplication(l) == pc[l] \in {"host", "handler", "callback"}

OlderWithout(l, gone) ==
    {r \in older[l] : \A e \in gone : r[1] # e.ptr /\ r[2] # e.ptr}

Init == /\ now = [sec |-> 0, usec |-> 0]
        /\ timeout = [l \in Loops |-> <<>>]
        /\ firing = [l \in Loops |-> NoEntry]
        /\ pc = [l \in Loops |-> "unused"]
        /\ until = [l \in Loops |-> 0]
        /\ signals = [l \in Loops |-> <<>>]
        /\ signaled = {}
        /\ installed = {}
        /\ scan = [l \in Loops |-> 0]
        /\ pending_terminate = FALSE
        /\ armed = FALSE
        /\ older = [l \in Loops |-> {}]

-----------------------------------------------------------------------------
(* The life of a loop *)

\* All fields become 0, the table of signals included; the handlers of signals
\* stay installed.
init_timers(l) ==
    /\ pc[l] = "unused"
    /\ pc' = [pc EXCEPT ![l] = "host"]
    /\ signals' = [signals EXCEPT ![l] = <<>>]
    /\ signaled' = signaled \ {l}
    /\ pending_terminate' = (pending_terminate /\ l # Main)
    /\ UNCHANGED <<now, timers, until, scan, installed, armed>>

\* The timeouts are freed; the signals stay with the loop, and a signal is
\* still noted.  The loop is not used again before it is initialized.
destroy_timers(l) ==
    /\ pc[l] = "host"
    /\ pc' = [pc EXCEPT ![l] = "unused"]
    /\ timeout' = [timeout EXCEPT ![l] = <<>>]
    /\ older' = [older EXCEPT ![l] = {}]
    /\ UNCHANGED <<now, firing, until, scan, noted>>

-----------------------------------------------------------------------------
(* Timeouts *)

Allocated == UNION {{e.ptr : e \in Pending(l)} : l \in Loops}
             \cup {firing[l].ptr : l \in {k \in Loops : firing[k] # NoEntry}}

eloop_register_timeout(l, secs, usecs, h) ==
    /\ InApplication(l)
    /\ After(now, secs, usecs).sec <= Horizon
    /\ \E p \in Ptr \ Allocated :
           LET e == [ptr |-> p, handler |-> h, eloop_data |-> l, user_data |-> l,
                     time |-> After(now, secs, usecs)]
           IN  /\ timeout' = [timeout EXCEPT ![l] = Insert(@, e)]
               /\ older' = [older EXCEPT ![l] = @ \cup {<<f.ptr, p>> : f \in Pending(l)}]
    /\ UNCHANGED <<now, firing, pc, until, scan, noted>>

eloop_cancel_timeout(l, h) ==
    /\ InApplication(l)
    /\ timeout' = [timeout EXCEPT ![l] = Remaining(@, h, l, ALL)]
    /\ older' = [older EXCEPT ![l] =
                    OlderWithout(l, {e \in Pending(l) : Matches(e, h, l, ALL)})]
    /\ UNCHANGED <<now, firing, pc, until, scan, noted>>

\* get_eloop_timeval: the time left of the head.
TimeLeft(l) ==
    IF timeout[l] = <<>> THEN [sec |-> Far, usec |-> 0]
    ELSE IF Before(now, timeout[l][1].time) THEN Sub(timeout[l][1].time, now)
    ELSE [sec |-> 0, usec |-> 0]

\* Mutation of InMs: a part of a millisecond is a millisecond.
InMsRoundedUp(left) ==
    (left.sec * (Usec \div Milli) + (left.usec + Milli - 1) \div Milli) % UInt

\* The result is computed in a long and returned as an unsigned int.
InMs(left) == (left.sec * (Usec \div Milli) + left.usec \div Milli) % UInt

\* -1, for ever, when there is nothing to wait for.
find_nearest_timeout_ms(l) ==
    IF TimeLeft(l).sec >= Far THEN UInt - 1 ELSE InMs(TimeLeft(l))

\* The owner polls for that time, or until it finds an event.
Poll(l) ==
    /\ pc[l] = "host"
    /\ pc' = [pc EXCEPT ![l] = "poll"]
    /\ until' = [until EXCEPT ![l] =
                    Instant(now) + find_nearest_timeout_ms(l) * Milli]
    /\ UNCHANGED <<now, timers, scan, noted>>

\* expire_timers is called when the time has passed or the poll found an event;
\* without a signal it goes on to the timeouts.
expire_timers(l) ==
    /\ pc[l] \in {"poll", "host"}
    /\ until' = [until EXCEPT ![l] = 0]
    /\ IF l \in signaled
       THEN /\ pc' = [pc EXCEPT ![l] = "signals"]
            /\ scan' = [scan EXCEPT ![l] = 1]
            /\ signaled' = signaled \ {l}
            /\ pending_terminate' = (pending_terminate /\ l # Main)
            /\ armed' = (armed /\ ~ (l = Main /\ pending_terminate))
       ELSE /\ pc' = [pc EXCEPT ![l] = "timers"]
            /\ UNCHANGED <<scan, signaled, pending_terminate, armed>>
    /\ UNCHANGED <<now, timers, signals, installed>>

\* The head is called if it is due, and freed afterwards.
ExpireHead(l) ==
    /\ pc[l] = "timers"
    /\ IF timeout[l] # <<>> /\ ~ Before(now, timeout[l][1].time)
       THEN /\ firing' = [firing EXCEPT ![l] = timeout[l][1]]
            /\ timeout' = [timeout EXCEPT ![l] = Tail(@)]
            /\ older' = [older EXCEPT ![l] = OlderWithout(l, {timeout[l][1]})]
            /\ pc' = [pc EXCEPT ![l] = "callback"]
       ELSE /\ pc' = [pc EXCEPT ![l] = "host"]
            /\ UNCHANGED timers
    /\ UNCHANGED <<now, until, scan, noted>>

HandlerReturns(l) ==
    /\ pc[l] = "callback"
    /\ firing' = [firing EXCEPT ![l] = NoEntry]
    /\ pc' = [pc EXCEPT ![l] = "host"]
    /\ UNCHANGED <<now, timeout, older, until, scan, noted>>

-----------------------------------------------------------------------------
(* Signals *)

eloop_register_signal(l, s) ==
    /\ InApplication(l)
    /\ Len(signals[l]) < MaxSigs
    /\ signals' = [signals EXCEPT ![l] = Append(@, [sig |-> s, marked |-> FALSE])]
    /\ installed' = installed \cup {s}
    /\ UNCHANGED <<now, timers, pc, until, scan, signaled, pending_terminate, armed>>

\* The first entry of the signal in the first loop is marked, whichever loop
\* it was registered with.
Marked(s) ==
    LET at == {i \in DOMAIN signals[Main] : signals[Main][i].sig = s}
    IN  IF at = {} THEN signals
        ELSE [signals EXCEPT ![Main][CHOOSE i \in at : \A j \in at : i <= j].marked = TRUE]

eloop_handle_signal(s) ==
    /\ s \in installed
    /\ pc[Main] # "exited"
    /\ signals' = Marked(s)
    /\ signaled' = signaled \cup {Main}
    /\ pending_terminate' = (pending_terminate \/ s \in TermSig)
    /\ armed' = (armed \/ (s \in TermSig /\ ~ pending_terminate))
    /\ UNCHANGED <<now, timers, pc, until, scan, installed>>

\* Mutation of StopScan: the signals that came meanwhile are taken for done.
StopScanClears(l) == signaled \ {l}

\* What the end of the walk leaves of signaled, which was reset before it.
StopScan(l) == signaled

\* The walk of eloop_process_pending_signals: the next entry, marked or not.
ScanEntry(l) ==
    /\ pc[l] = "signals"
    /\ IF scan[l] > Len(signals[l])
       THEN /\ pc' = [pc EXCEPT ![l] = "timers"]
            /\ scan' = [scan EXCEPT ![l] = 0]
            /\ signaled' = StopScan(l)
            /\ UNCHANGED signals
       ELSE /\ IF signals[l][scan[l]].marked
               THEN /\ pc' = [pc EXCEPT ![l] = "handler"]
                    /\ signals' = [signals EXCEPT ![l][scan[l]].marked = FALSE]
               ELSE UNCHANGED <<pc, signals>>
            /\ scan' = [scan EXCEPT ![l] = @ + 1]
            /\ UNCHANGED signaled
    /\ UNCHANGED <<now, timers, until, installed, pending_terminate, armed>>

\* The alarm rings: exit(1).
eloop_handle_alarm ==
    /\ armed
    /\ pc[Main] # "exited"
    /\ pc' = [l \in Loops |-> "exited"]
    /\ UNCHANGED <<now, timers, until, scan, noted>>

SignalHandlerReturns(l) ==
    /\ pc[l] = "handler"
    /\ pc' = [pc EXCEPT ![l] = "signals"]
    /\ UNCHANGED <<now, timers, until, scan, noted>>

-----------------------------------------------------------------------------
ClockTick == /\ now' = After(now, 0, 1)
             /\ now'.sec <= Horizon
             /\ UNCHANGED <<timers, pc, until, scan, noted>>

Next ==
    \/ \E l \in Loops :
        \/ init_timers(l)
        \/ destroy_timers(l)
        \/ \E h \in Handler :
               \/ \E d \in Delay : eloop_register_timeout(l, d[1], d[2], h)
               \/ eloop_cancel_timeout(l, h)
        \/ Poll(l)
        \/ expire_timers(l)
        \/ ExpireHead(l)
        \/ HandlerReturns(l)
        \/ \E s \in Sig : eloop_register_signal(l, s)
        \/ ScanEntry(l)
        \/ SignalHandlerReturns(l)
    \/ \E s \in Sig : eloop_handle_signal(s)
    \/ eloop_handle_alarm
    \/ ClockTick

Spec == Init /\ [][Next]_vars

-----------------------------------------------------------------------------
(* Properties *)

\* Each loop of the table is a timer set of its own, whatever the others and
\* the signals do (eloop_register_timeout, eloop_cancel_timeout, expire_timers).
MainTimers == INSTANCE TimerSet
    WITH pending <- Pending(Main), firing <- firing[Main], older <- older[Main]
ServerTimers == INSTANCE TimerSet
    WITH pending <- Pending(Server), firing <- firing[Server], older <- older[Server]
ImplementsTimerSets == MainTimers!Spec /\ ServerTimers!Spec

\* No timeout comes due before the time find_nearest_timeout_ms gave to the
\* poll has passed, cut to milliseconds and to an unsigned int as it is.
SleepsInTime ==
    \A l \in Loops : pc[l] = "poll" /\ Instant(now) < until[l] =>
        \A e \in Pending(l) : until[l] <= Instant(e.time)

\* A signal that eloop_handle_signal marked in the first loop is called by this
\* walk of eloop_process_pending_signals, or there will be another.
MarkedIsNoticed ==
    \A i \in DOMAIN signals[Main] :
        signals[Main][i].marked =>
            \/ Main \in signaled
            \/ pc[Main] = "exited"
            \/ (pc[Main] \in {"signals", "handler"} /\ scan[Main] <= i)

=============================================================================
