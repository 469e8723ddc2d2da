-------------------------- MODULE CallbackRegistry --------------------------
(***************************************************************************)
(* What the callback interface promises: an object that registered a       *)
(* callback is called, and only while it is registered; a timeout is       *)
(* called once.                                                            *)
(***************************************************************************)
CONSTANTS Registration, (* [kind, key, obj] *)
          None          (* nothing was called yet *)

VARIABLES registered, (* the registrations that stand *)
          called      (* the last call *)

Init == registered = {} /\ called = None

Register(r) == /\ r \notin registered
               /\ registered' = registered \cup {r}
               /\ UNCHANGED called

Unregister(r) == /\ r \in registered
                 /\ registered' = registered \ {r}
                 /\ UNCHANGED called

Call(r) == /\ r \in registered
           /\ called' = r
           /\ registered' = IF r.kind = "timeout" THEN registered \ {r} ELSE registered

Next == \E r \in Registration : Register(r) \/ Unregister(r) \/ Call(r)

Spec == Init /\ [][Next]_<<registered, called>>

=============================================================================
