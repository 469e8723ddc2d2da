----------------------------- MODULE Coroutine -----------------------------
(***************************************************************************)
(* What the contexts of eloop/context.c promise: tasks are coroutines.  A  *)
(* task is made, runs, gives control back any number of times, ends and is *)
(* disposed of.  Of all tasks at most one runs, a task that ended never    *)
(* runs again, and none is disposed of while it runs, nor twice.  The      *)
(* promise may be broken by an application that has misused a task, over   *)
(* that task, when it runs or is over; after that nothing is promised.     *)
(***************************************************************************)
CONSTANT Tasks

VARIABLES state,
          misused, (* the tasks that the application has misused *)
          broken

Init == /\ state = [t \in Tasks |-> "none"]
        /\ misused = {}
        /\ broken = FALSE

NobodyRuns == \A t \in Tasks : state[t] # "running"

Create(t) == /\ state[t] = "none"
             /\ state' = [state EXCEPT ![t] = "suspended"]

Resume(t) == /\ state[t] = "suspended"
             /\ NobodyRuns
             /\ state' = [state EXCEPT ![t] = "running"]

Suspend(t) == /\ state[t] = "running"
              /\ state' = [state EXCEPT ![t] = "suspended"]

\* The task ends; it may be disposed of in the same step.
End(t) == /\ state[t] = "running"
          /\ \E s \in {"ended", "gone"} : state' = [state EXCEPT ![t] = s]

Dispose(t) == /\ state[t] \in {"suspended", "ended"}
              /\ state' = [state EXCEPT ![t] = "gone"]

Works == \E t \in Tasks : Create(t) \/ Resume(t) \/ Suspend(t) \/ End(t) \/ Dispose(t)

Break == /\ broken' = TRUE
         /\ UNCHANGED state
         /\ \E t \in misused' : state[t] \in {"running", "ended", "gone"}

Next == /\ ~ broken
        /\ misused \subseteq misused' /\ misused' \subseteq Tasks
        /\ \/ Works /\ UNCHANGED broken
           \/ UNCHANGED <<state, broken>>
           \/ Break

Spec == Init /\ [][Next]_<<state, misused, broken>>

=============================================================================
