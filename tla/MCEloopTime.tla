---------------------------- MODULE MCEloopTime ----------------------------
(* Instances of EloopWatchdog and EloopTimeChange for TLC.  They share       *)
(* nothing but the unit of time: a behaviour takes steps of one of them only. *)
EXTENDS EloopWatchdog, TLC

CONSTANTS Hz, Slack, Era, UInt, ULong, Boot, Start, Given, Steps, MaxSteps,
          MaxTimers, Latest

VARIABLES clock, offset, noticed, queue, t0, time0, wake, place, steps, mixed

clockVars == <<clock, offset, noticed, queue, t0, time0, wake, place, steps, mixed>>
allVars == <<vars, clockVars>>

Clock == INSTANCE EloopTimeChange WITH
             timeout <- queue, pc <- place, Delay <- Given, Horizon <- Latest

ASSUME ClockAssumption == Clock!EloopTimeChangeAssumption

\* The one that has not made a step yet.
WatchdogInit == Init /\ UNCHANGED vars
ChangesInit == Clock!Init /\ UNCHANGED clockVars

InitAll == Init /\ Clock!Init
NextAll == (ChangesInit /\ Next) \/ (WatchdogInit /\ Clock!Next)
SpecAll == InitAll /\ [][NextAll]_allVars

\* With four microseconds to the second: delays that carry from the present and
\* that need not later, for the watchdog; a quarter and a whole second, for the
\* clock.
Now == [sec |-> 1, usec |-> 3]
DelaySmall == {<<0, 1>>, <<0, 2>>}
Delays == {<<0, 1>>, <<1, 0>>}

\* A clock that starts in 1970 is set to the present; it is set back by two
\* seconds; it is changed by too little to notice.
BootBackSmall == {400, -8, 2}

Blocks == Permutations(Ptr)

-----------------------------------------------------------------------------
(* The properties of EloopTimeChange; those of EloopWatchdog are its own *)

\* A timeout is not called before the given time (eloop.h), but for what the loop
\* misses of the changes of the wall clock.
NotBeforeGivenTime == Clock!NotBeforeGivenTime

\* pselect does not sleep past the time given for any of the timeouts (eloop_run),
\* but for the same.
NotSleptOver == Clock!NotSleptOver

\* Shifting keeps the list sorted, on which the test of its head relies
\* (eloop_timeUpdate).
StaysSorted == Clock!StaysSorted
=============================================================================
