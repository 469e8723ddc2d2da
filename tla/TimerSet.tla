------------------------------ MODULE TimerSet ------------------------------
(***************************************************************************)
(* What the timeout service of the event loop promises, without its list:  *)
(* timers are a set; a timer fires no earlier than its time; of the timers *)
(* that are pending the one that fires is the earliest, and of those with  *)
(* the same time the one registered first; a timer that was cancelled does *)
(* not fire; one callback runs at a time.                                  *)
(***************************************************************************)
EXTENDS OsTime

CONSTANT NoEntry  (* "no timer" *)

VARIABLES now,     (* the clock *)
          pending, (* the set of timers waiting to fire *)
          older,   (* <<p, q>>: the pending timer p was registered before q *)
          firing   (* the timer whose callback is running *)

vars == <<now, pending, older, firing>>

Init == /\ now \in NormalTime
        /\ pending = {}
        /\ older = {}
        /\ firing = NoEntry

ClockAdvances == /\ now' \in NormalTime
                 /\ Before(now, now')
                 /\ UNCHANGED <<pending, older, firing>>

\* A new timer, due at or after the present.
Register ==
    /\ \E e \in pending' \ pending :
           /\ \A f \in pending : f.ptr # e.ptr
           /\ ~ Before(e.time, now)
           /\ pending' = pending \cup {e}
           /\ older' = older \cup {<<f.ptr, e.ptr>> : f \in pending}
    /\ UNCHANGED <<now, firing>>

\* The timers of older that are still pending afterwards.
OlderWithout(gone) ==
    {r \in older : \A e \in gone : r[1] # e.ptr /\ r[2] # e.ptr}

\* Any number of pending timers may be cancelled at once.
Cancel ==
    /\ pending' \subseteq pending
    /\ older' = OlderWithout(pending \ pending')
    /\ UNCHANGED <<now, firing>>

\* e is to be served before f.
Precedes(e, f) == \/ Before(e.time, f.time)
                  \/ e.time = f.time /\ <<e.ptr, f.ptr>> \in older

Fire ==
    /\ firing = NoEntry
    /\ \E e \in pending :
           /\ ~ Before(now, e.time)
           /\ \A f \in pending \ {e} : Precedes(e, f)
           /\ pending' = pending \ {e}
           /\ older' = OlderWithout({e})
           /\ firing' = e
    /\ UNCHANGED now

Done == /\ firing # NoEntry
        /\ firing' = NoEntry
        /\ UNCHANGED <<now, pending, older>>

Next == ClockAdvances \/ Register \/ Cancel \/ Fire \/ Done

Spec == Init /\ [][Next]_vars

=============================================================================
