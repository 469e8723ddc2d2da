---------------------------- MODULE TimeoutList ----------------------------
(***************************************************************************)
(* The operations eloop/eloop.c performs on its linked list of timeouts,   *)
(* as operators on sequences.  Only the field time of an entry is looked   *)
(* at here; the modules that use the list add what else an entry carries.  *)
(***************************************************************************)
EXTENDS OsTime, Sequences, FiniteSets

CONSTANT ALL     (* ELOOP_ALL_CTX, the wildcard context of a cancellation *)

\* Mutations of InsertPos: the walk compares seconds only; the walk stops at
\* an entry of the same time.
InsertPosBySeconds(q, t) ==
    LET later == {i \in 1 .. Len(q) : t.sec < q[i].time.sec}
    IN  IF later = {} THEN Len(q) + 1
        ELSE CHOOSE i \in later : \A j \in later : i <= j
InsertPosBeforeEqual(q, t) ==
    LET later == {i \in 1 .. Len(q) : ~ Before(q[i].time, t)}
    IN  IF later = {} THEN Len(q) + 1
        ELSE CHOOSE i \in later : \A j \in later : i <= j

\* The position at which the insertion walk stops: before the first entry
\* that is strictly later, hence after every entry of the same time.
InsertPos(q, t) ==
    LET later == {i \in 1 .. Len(q) : Before(t, q[i].time)}
    IN  IF later = {} THEN Len(q) + 1
        ELSE CHOOSE i \in later : \A j \in later : i <= j

Insert(q, e) ==
    LET p == InsertPos(q, e.time)
    IN  SubSeq(q, 1, p - 1) \o <<e>> \o SubSeq(q, p, Len(q))

\* The increasing enumeration of a set of positions.
Enumerates(f, K) ==
    /\ \A i, j \in 1 .. Cardinality(K) : i < j => f[i] < f[j]
    /\ \A k \in K : \E i \in 1 .. Cardinality(K) : f[i] = k

Enumeration(K) ==
    CHOOSE f \in [1 .. Cardinality(K) -> K] : Enumerates(f, K)

\* What the unlinking walk leaves: the entries at the positions of K, in place.
Keep(q, K) == [i \in 1 .. Cardinality(K) |-> q[Enumeration(K)[i]]]

\* The test of the cancellation walk.
Matches(e, handler, data, user) ==
    /\ e.handler = handler
    /\ e.eloop_data = data \/ data = ALL
    /\ e.user_data = user \/ user = ALL

\* The entries a cancellation leaves in the list.
Remaining(q, handler, data, user) ==
    Keep(q, {i \in 1 .. Len(q) : ~ Matches(q[i], handler, data, user)})

Entries(q) == {q[i] : i \in 1 .. Len(q)}

=============================================================================
