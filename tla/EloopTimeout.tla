---------------------------- MODULE EloopTimeout ----------------------------
(***************************************************************************)
(* The timeouts of eloop/eloop.c: the list eloop.timeout, sorted when an   *)
(* entry is inserted, and the part of eloop_run that sleeps until the head *)
(* of the list is due and calls it.  Sockets and signals appear only as    *)
(* reasons for pselect to return early and as callbacks that register and  *)
(* cancel timeouts; the clock only moves forward here.                     *)
(***************************************************************************)
EXTENDS TimeoutList

CONSTANTS Ptr,      (* the addresses os_malloc can return *)
          Handler,  (* timeout handlers *)
          Ctx,      (* values of eloop_data and of user_data *)
          Delay,    (* the <<secs, usecs>> timeouts are registered with *)
          Data,     (* the <<eloop_data, user_data>> they are registered with *)
          NoEntry,  (* NULL *)
          Horizon   (* bound: no clock value or timeout beyond this second *)

ASSUME EloopTimeoutAssumption ==
    /\ Delay \subseteq Nat \X Nat
    /\ Data \subseteq Ctx \X Ctx
    /\ Horizon \in Nat

VARIABLES now,      (* what os_get_time returns *)
          timeout,  (* eloop.timeout *)
          firing,   (* tmp in eloop_run: popped, its handler called, not freed *)
          pc,       (* where the thread that runs the loop is *)
          deadline, (* the instant at which pselect gives up, NoEntry if never *)
          terminate, tmp_terminate, (* eloop.terminate, eloop.tmp_terminate *)
          older     (* history: <<p, q>> when p was registered before q *)

stops == <<terminate, tmp_terminate>>
vars == <<now, timeout, firing, pc, deadline, stops, older>>

Entry == [ptr : Ptr, handler : Handler, eloop_data : Ctx, user_data : Ctx,
          time : NormalTime]

ASSUME NoEntryAssumption == NoEntry \notin Entry \cup NormalTime

Pending == Entries(timeout)

\* out: not in eloop_run; top: at the loop's condition; select: in pselect;
\* signals: in eloop_process_pending_signals; callback: in a timeout handler;
\* dispatch: in the socket handlers of the iteration.
Places == {"out", "top", "select", "signals", "callback", "dispatch"}

\* Application code runs here, and may call the functions of eloop.h.
InApplication == pc \in {"out", "signals", "callback", "dispatch"}

OlderWithout(gone) ==
    {r \in older : \A e \in gone : r[1] # e.ptr /\ r[2] # e.ptr}

Init == /\ now = [sec |-> 0, usec |-> 0]
        /\ timeout = <<>>
        /\ firing = NoEntry
        /\ pc = "out"
        /\ deadline = NoEntry
        /\ terminate = FALSE
        /\ tmp_terminate = FALSE
        /\ older = {}

-----------------------------------------------------------------------------
(* The functions of eloop.h *)

\* Mutation of Allocated: an entry is freed before its handler is called.
AllocatedInList == {e.ptr : e \in Pending}

\* os_malloc returns any block that is in use neither by the list nor by the
\* entry whose handler is running.  When it returns NULL nothing changes.
Allocated == {e.ptr : e \in Pending}
             \cup (IF firing = NoEntry THEN {} ELSE {firing.ptr})

eloop_register_timeout(secs, usecs, h, data, user) ==
    /\ InApplication
    /\ After(now, secs, usecs).sec <= Horizon
    /\ \E p \in Ptr \ Allocated :
           LET e == [ptr |-> p, handler |-> h, eloop_data |-> data,
                     user_data |-> user, time |-> After(now, secs, usecs)]
           IN  /\ timeout' = Insert(timeout, e)
               /\ older' = older \cup {<<f.ptr, p>> : f \in Pending}
    /\ UNCHANGED <<now, firing, pc, deadline, stops>>

eloop_cancel_timeout(h, data, user) ==
    /\ InApplication
    /\ timeout' = Remaining(timeout, h, data, user)
    /\ older' = OlderWithout({e \in Pending : Matches(e, h, data, user)})
    /\ UNCHANGED <<now, firing, pc, deadline, stops>>

eloop_terminate ==
    /\ InApplication
    /\ terminate' = TRUE
    /\ UNCHANGED <<now, timeout, firing, pc, deadline, tmp_terminate, older>>

eloop_tmp_terminate(set) ==
    /\ InApplication
    /\ tmp_terminate' = set
    /\ UNCHANGED <<now, timeout, firing, pc, deadline, terminate, older>>

-----------------------------------------------------------------------------
(* eloop_run *)

\* main calls eloop_run, or calls it again after it has returned.
eloop_run == /\ pc = "out"
             /\ pc' = "top"
             /\ UNCHANGED <<now, timeout, firing, deadline, stops, older>>

\* The loop's condition: it was told to stop, or has nothing to wait for; with
\* an empty list sockets may keep it running.
LoopEnds == /\ pc = "top"
            /\ terminate \/ tmp_terminate \/ timeout = <<>>
            /\ pc' = "out"
            /\ UNCHANGED <<now, timeout, firing, deadline, stops, older>>

\* The iteration up to pselect.
EnterSelect ==
    /\ pc = "top"
    /\ ~ terminate /\ ~ tmp_terminate
    /\ pc' = "select"
    /\ deadline' = IF timeout = <<>>
                   THEN NoEntry
                   ELSE IF Before(now, timeout[1].time)
                        THEN Add(now, Sub(timeout[1].time, now))
                        ELSE now
    /\ UNCHANGED <<now, timeout, firing, stops, older>>

\* The timeout given to pselect has elapsed.
Elapsed == deadline # NoEntry /\ ~ Before(now, deadline)

ReturnFromSelect ==
    /\ pc = "select"
    /\ pc' = "signals"
    /\ deadline' = NoEntry
    /\ UNCHANGED <<now, timeout, firing, stops, older>>

\* pselect returns because its timeout has elapsed ...
SelectTimesOut == Elapsed /\ ReturnFromSelect

\* ... or earlier, for a ready socket or an interrupting signal.
SelectInterrupted == ~ Elapsed /\ ReturnFromSelect

\* pselect fails, for a descriptor that was closed: the loop ends.
SelectFails ==
    /\ pc = "select"
    /\ pc' = "out"
    /\ deadline' = NoEntry
    /\ UNCHANGED <<now, timeout, firing, stops, older>>

\* After the signal handlers the head of the list is called if it is due;
\* one entry per iteration, whatever else is due.
ExpireHead ==
    /\ pc = "signals"
    /\ IF timeout # <<>> /\ ~ Before(now, timeout[1].time)
       THEN /\ firing' = timeout[1]
            /\ timeout' = Tail(timeout)
            /\ older' = OlderWithout({timeout[1]})
            /\ pc' = "callback"
       ELSE /\ pc' = "dispatch"
            /\ UNCHANGED <<timeout, firing, older>>
    /\ UNCHANGED <<now, deadline, stops>>

\* The handler returns and its entry is freed.
HandlerReturns == /\ pc = "callback"
                  /\ firing' = NoEntry
                  /\ pc' = "dispatch"
                  /\ UNCHANGED <<now, timeout, deadline, stops, older>>

\* The socket handlers have run, or there were none to run.
Dispatched == /\ pc = "dispatch"
              /\ pc' = "top"
              /\ UNCHANGED <<now, timeout, firing, deadline, stops, older>>

ClockTick == /\ now' = After(now, 0, 1)
             /\ now'.sec <= Horizon
             /\ UNCHANGED <<timeout, firing, pc, deadline, stops, older>>

-----------------------------------------------------------------------------
Application ==
    \/ \E h \in Handler :
        \/ \E d \in Delay, a \in Data : eloop_register_timeout(d[1], d[2], h, a[1], a[2])
        \/ \E data, user \in Ctx \cup {ALL} : eloop_cancel_timeout(h, data, user)
    \/ eloop_terminate
    \/ \E set \in BOOLEAN : eloop_tmp_terminate(set)

Next == \/ Application
        \/ eloop_run
        \/ LoopEnds
        \/ EnterSelect
        \/ SelectTimesOut
        \/ SelectInterrupted
        \/ SelectFails
        \/ ExpireHead
        \/ HandlerReturns
        \/ Dispatched
        \/ ClockTick

Spec == Init /\ [][Next]_vars

\* The loop is one thread that the system schedules, a handler returns, a
\* timeout of pselect elapses, and the clock advances.  Nothing is assumed of
\* the application or of sockets and signals.
Fairness == /\ WF_vars(LoopEnds \/ EnterSelect)
            /\ WF_vars(SelectTimesOut)
            /\ WF_vars(ExpireHead)
            /\ WF_vars(HandlerReturns)
            /\ WF_vars(Dispatched)
            /\ WF_vars(ClockTick)

FairSpec == Spec /\ Fairness

-----------------------------------------------------------------------------
(* Properties *)

\* Types, and the few facts that tie the loop's place to its variables.
TypeOK ==
    /\ now \in NormalTime
    /\ timeout \in Seq(Entry)
    /\ firing \in Entry \cup {NoEntry}
    /\ pc \in Places
    /\ deadline \in NormalTime \cup {NoEntry}
    /\ {terminate, tmp_terminate} \subseteq BOOLEAN
    /\ older \in SUBSET (Ptr \X Ptr)
    /\ firing # NoEntry <=> pc = "callback"
    /\ pc # "select" => deadline = NoEntry

\* e is to be served before f.
Precedes(e, f) == \/ Before(e.time, f.time)
                  \/ e.time = f.time /\ <<e.ptr, f.ptr>> \in older

\* eloop_register_timeout0 keeps the list sorted by time and, among equal
\* times, in the order of registration; cancellations keep it so.
ServiceOrder ==
    \A i, j \in 1 .. Len(timeout) : i < j => Precedes(timeout[i], timeout[j])

\* No block is linked twice, and none that is linked is the one that eloop_run
\* frees when the handler returns.
NoDoubleUse ==
    /\ \A i, j \in 1 .. Len(timeout) : timeout[i].ptr = timeout[j].ptr => i = j
    /\ firing # NoEntry => \A e \in Pending : e.ptr # firing.ptr

\* While the loop sleeps no timeout comes due before it wakes up: the time
\* left of the head bounds the sleep for the whole list.
NoOversleep ==
    pc = "select" =>
        \A e \in Pending :
            /\ deadline # NoEntry
            /\ Before(now, deadline) => ~ Before(e.time, deadline)

\* An iteration that calls no timeout handler leaves none due: the test of the
\* head speaks for the whole list.
NoneDueWhenNoneFires ==
    [][ (pc = "signals" /\ pc' = "dispatch") =>
            \A e \in Pending : Before(now, e.time) ]_vars

\* The list and the loop implement the abstract timer set.
Timers == INSTANCE TimerSet WITH pending <- Pending
ImplementsTimerSet == Timers!Spec

\* Whatever the handlers register (a handler that registers itself again with
\* no delay included), a timeout that is pending while the loop runs is called
\* or cancelled eventually, unless the loop ends: when it is told to, or because
\* pselect fails.
NoStarvation ==
    \A p \in Ptr : (pc # "out" /\ \E e \in Pending : e.ptr = p)
                       ~> (pc = "out" \/ \A e \in Pending : e.ptr # p)

=============================================================================
