-------------------------- MODULE EloopSockProofs --------------------------
(***************************************************************************)
(* Proofs about the socket tables, for any number of sockets and entries   *)
(* and any depth of runs inside runs: eloop.max_sock covers what is        *)
(* registered, and a dispatch survives what its handlers do to the table   *)
(* it walks.                                                               *)
(***************************************************************************)
EXTENDS EloopSock, WellFoundedInduction, SequenceTheorems, TLAPS

Born == Type \cup {"polled", "callback"}
Call == [type : Type, i : Nat, sock : Int, born : Born]

\* A run whose handler runs the loop.
Frame == [pc : {"callbacks", "skip", "handler"}, fds : [Type -> SUBSET Sock], cur : Call]

Types ==
    /\ table \in [Type -> Seq(Entry)]
    /\ changed \in [Type -> BOOLEAN]
    /\ cur \in Call
    /\ max_sock \in Int
    /\ pc \in Places
    /\ fds \in [Type -> SUBSET Sock]
    /\ nested \in BOOLEAN
    /\ outer \in Seq(Frame)

\* The tables whose dispatch has begun, up to that of t.
UpTo(t) == CASE t = "read" -> {"read"}
             [] t = "write" -> {"read", "write"}
             [] t = "exception" -> Type

\* Where the entries may come from at each place of an iteration, as long as no
\* handler has run the loop: those that a handler of the table under dispatch added
\* make the table changed.
BornBefore(B) == \A t \in Type : \A k \in 1 .. Len(table[t]) : table[t][k].born \in B

Origins == ~ nested =>
    /\ pc \in {"select", "callbacks", "skip"} => BornBefore({"polled", "callback"})
    /\ pc \in {"dispatch", "handler"} =>
           /\ BornBefore({"polled", "callback"} \cup UpTo(cur.type))
           /\ ~ changed[cur.type] => \A k \in 1 .. Len(table[cur.type]) :
                                         table[cur.type][k].born # cur.type
    /\ pc = "dispatch" => ~ changed[cur.type]

Inv == Types /\ MaxSockCovers /\ WalkStaysInTable /\ Origins /\ NotCalledInOwnDispatch

-----------------------------------------------------------------------------
(* Numbers *)

LEMMA SmallestElement ==
    ASSUME NEW S \in SUBSET Nat, S # {}
    PROVE  \E s \in S : \A r \in S : s <= r
<1> DEFINE R == OpToRel(<, Nat)
<1>1. IsWellFoundedOn(R, Nat)
    BY NatLessThanWellFounded
<1>2. \A x, y \in Nat : y < x => <<y, x>> \in R
    BY DEF OpToRel
<1> HIDE DEF R
<1>3. PICK s \in S : \A r \in S : ~ (<<r, s>> \in R)
    BY <1>1, WFMin, Zenon
<1>4. ASSUME NEW r \in S PROVE s <= r
    <2>1. ~ (r < s)
        BY <1>2, <1>3
    <2> QED BY <2>1
<1> QED BY <1>4

LEMMA MinIsSmallest ==
    ASSUME NEW S \in SUBSET Nat, S # {}
    PROVE  Min(S) \in S /\ \A s \in S : Min(S) <= s
<1>1. \E s \in S : \A r \in S : s <= r
    BY SmallestElement
<1> QED BY <1>1 DEF Min

\* A set of integers with a bound has a largest element.
LEMMA MaxIsLargest ==
    ASSUME NEW S \in SUBSET Int, S # {}, NEW b \in Int, \A s \in S : s <= b
    PROVE  Max(S) \in S /\ \A s \in S : s <= Max(S)
<1> DEFINE D == {b - s : s \in S}
<1>1. \A s \in S : b - s \in Nat
    <2> SUFFICES ASSUME NEW s \in S PROVE b - s \in Nat
        OBVIOUS
    <2>1. s \in Int /\ s <= b
        OBVIOUS
    <2> QED BY <2>1
<1>6. D \in SUBSET Nat /\ D # {}
    BY <1>1
<1>2. PICK d \in D : \A e \in D : d <= e
    BY <1>6, SmallestElement
<1>3. PICK m \in S : d = b - m
    BY <1>2
<1>4. \A s \in S : m >= s
    <2> SUFFICES ASSUME NEW s \in S PROVE m >= s
        OBVIOUS
    <2>1. d <= b - s
        BY <1>2
    <2> QED BY <1>3, <2>1
<1>5. Max(S) \in S /\ \A s \in S : Max(S) >= s
    BY <1>4 DEF Max
<1> QED BY <1>5

-----------------------------------------------------------------------------
(* The tables *)

\* The table without the first entry of a socket.
Without(q, s) == RemoveFirstMatch(q, LAMBDA e : e.sock = s)

\* What the removal of a socket leaves are entries of before, and all of them if
\* the socket has none.
LEMMA RemovedFacts ==
    ASSUME NEW q \in Seq(Entry), NEW s
    PROVE  LET r == Without(q, s)
           IN  /\ r \in Seq(Entry)
               /\ \A j \in 1 .. Len(r) : \E k \in 1 .. Len(q) : r[j] = q[k]
               /\ (\A k \in 1 .. Len(q) : q[k].sock # s) => r = q
<1> DEFINE I == {k \in 1 .. Len(q) : q[k].sock = s}
           r == Without(q, s)
<1>1. CASE I = {}
    <2>1. r = q
        BY <1>1 DEF Without, RemoveFirstMatch
    <2> QED BY <2>1
<1>2. CASE I # {}
    <2>1. r = RemoveAt(q, Min(I))
        BY <1>2 DEF Without, RemoveFirstMatch, SelectInSeq
    <2>2. Min(I) \in 1 .. Len(q)
        <3>1. I \in SUBSET Nat
            OBVIOUS
        <3> QED BY <1>2, <3>1, MinIsSmallest
    <2>3. PICK n \in 1 .. Len(q) : n = Min(I)
        BY <2>2
    <2>4. r = SubSeq(q, 1, n - 1) \o SubSeq(q, n + 1, Len(q))
        BY <2>1, <2>3 DEF RemoveAt
    <2> HIDE DEF I, r
    <2> DEFINE a == SubSeq(q, 1, n - 1)
               b == SubSeq(q, n + 1, Len(q))
    <2>5. /\ a \in Seq(Entry) /\ Len(a) = n - 1
          /\ \A k \in 1 .. n - 1 : a[k] = q[k]
        OBVIOUS
    <2>6. /\ b \in Seq(Entry) /\ Len(b) = Len(q) - n
          /\ \A k \in 1 .. Len(q) - n : b[k] = q[k + n]
        OBVIOUS
    <2> HIDE DEF a, b
    <2>7. r = a \o b
        BY <2>4 DEF a, b
    <2>8. /\ r \in Seq(Entry) /\ Len(r) = Len(q) - 1
          /\ \A j \in 1 .. n - 1 : r[j] = q[j]
          /\ \A j \in n .. Len(q) - 1 : r[j] = q[j + 1]
        <3>1. Len(a) \in Nat /\ Len(b) \in Nat /\ Len(q) \in Nat
            BY <2>5, <2>6
        <3>2. /\ r \in Seq(Entry) /\ Len(r) = Len(a) + Len(b)
              /\ \A j \in 1 .. Len(a) + Len(b) :
                     r[j] = IF j <= Len(a) THEN a[j] ELSE b[j - Len(a)]
            BY <2>5, <2>6, <2>7, ConcatProperties
        <3>3. ASSUME NEW j \in 1 .. n - 1 PROVE r[j] = q[j]
            <4>1. j \in 1 .. Len(a) + Len(b) /\ j <= Len(a)
                BY <2>5, <3>1
            <4> QED BY <2>5, <3>2, <4>1
        <3>4. ASSUME NEW j \in n .. Len(q) - 1 PROVE r[j] = q[j + 1]
            <4>1. /\ j \in 1 .. Len(a) + Len(b) /\ ~ (j <= Len(a))
                  /\ j - Len(a) \in 1 .. Len(q) - n /\ (j - Len(a)) + n = j + 1
                BY <2>5, <2>6, <3>1
            <4>2. r[j] = b[j - Len(a)]
                BY <3>2, <4>1
            <4> QED BY <2>6, <4>1, <4>2
        <3> QED BY <2>5, <2>6, <3>1, <3>2, <3>3, <3>4
    <2>9. \A j \in 1 .. Len(r) : \E k \in 1 .. Len(q) : r[j] = q[k]
        <3> SUFFICES ASSUME NEW j \in 1 .. Len(r) PROVE \E k \in 1 .. Len(q) : r[j] = q[k]
            OBVIOUS
        <3>1. CASE j < n
            BY <2>8, <3>1
        <3>2. CASE j >= n
            <4>1. j + 1 \in 1 .. Len(q) /\ r[j] = q[j + 1]
                BY <2>8, <3>2
            <4> QED BY <4>1
        <3> QED BY <3>1, <3>2
    <2>10. ~ \A k \in 1 .. Len(q) : q[k].sock # s
        BY <1>2 DEF I
    <2> QED BY <2>8, <2>9, <2>10 DEF r
<1> QED BY <1>1, <1>2

\* The largest socket of entries that max_sock covers.
LEMMA LargestCovers ==
    ASSUME NEW tab \in [Type -> Seq(Entry)], NEW b \in Int,
           \A t \in Type : \A k \in 1 .. Len(tab[t]) : tab[t][k].sock <= b
    PROVE  /\ Largest(tab) \in Int
           /\ \A t \in Type : \A k \in 1 .. Len(tab[t]) : tab[t][k].sock <= Largest(tab)
<1> DEFINE S == UNION {{tab[t][k].sock : k \in 1 .. Len(tab[t])} : t \in Type}
<1>1. \A t \in Type : \A k \in 1 .. Len(tab[t]) : tab[t][k].sock \in S
    OBVIOUS
<1>2. \A s \in S : \E t \in Type : \E k \in 1 .. Len(tab[t]) : s = tab[t][k].sock
    OBVIOUS
<1>3. Largest(tab) = IF S = {} THEN -1 ELSE Max(S)
    BY DEF Largest
<1>4. \A t \in Type : \A k \in 1 .. Len(tab[t]) : tab[t][k].sock \in Nat
    <2> SUFFICES ASSUME NEW t \in Type, NEW k \in 1 .. Len(tab[t]) PROVE tab[t][k].sock \in Nat
        OBVIOUS
    <2>1. tab[t] \in Seq(Entry)
        OBVIOUS
    <2>2. tab[t][k] \in Entry
        BY <2>1
    <2> QED BY <2>2, EloopSockAssumption DEF Entry
<1> HIDE DEF S
<1>5. \A s \in S : s \in Int /\ s <= b
    BY <1>2, <1>4
<1>6. CASE S = {}
    BY <1>1, <1>3, <1>6
<1>7. CASE S # {}
    <2>1. Max(S) \in S /\ \A s \in S : s <= Max(S)
        BY <1>5, <1>7, MaxIsLargest
    <2> QED BY <1>1, <1>3, <1>5, <1>7, <2>1
<1> QED BY <1>6, <1>7

-----------------------------------------------------------------------------
(* Every step keeps the invariant *)

\* The properties of a place at which no table is dispatched, and of one at
\* which the entries come from anywhere.
LEMMA OutsideDispatch ==
    ASSUME Inv, UNCHANGED <<table, max_sock>>, changed' \in [Type -> BOOLEAN], cur' \in Call,
           fds' \in [Type -> SUBSET Sock], nested' \in BOOLEAN, outer' \in Seq(Frame),
           pc' \in Places,
           nested' \/ pc' \notin {"dispatch", "handler"},
           pc' \in {"select", "callbacks", "skip"} /\ ~ nested' => BornBefore({"polled", "callback"})
    PROVE  Inv'
BY DEF Inv, Types, MaxSockCovers, Socks, WalkStaysInTable, Origins, BornBefore,
       NotCalledInOwnDispatch

LEMMA InvInit == ASSUME Init PROVE Inv
<1>1. <<>> \in Seq(Entry) /\ <<>> \in Seq(Frame) /\ Len(<<>>) = 0
    OBVIOUS
<1>2. Types
    <2>1. NoCall \in Call /\ NoSockets \in [Type -> SUBSET Sock]
        BY DEF NoCall, NoSockets, Call, Born, Type
    <2>2. table \in [Type -> Seq(Entry)] /\ changed \in [Type -> BOOLEAN] /\ outer \in Seq(Frame)
        BY <1>1 DEF Init
    <2>3. cur \in Call /\ fds \in [Type -> SUBSET Sock]
        BY <2>1 DEF Init
    <2>4. max_sock \in Int /\ pc \in Places
        BY DEF Init, Places
    <2>5. nested \in BOOLEAN
        BY DEF Init
    <2> QED BY <2>2, <2>3, <2>4, <2>5 DEF Types
<1>3. \A t \in Type : Len(table[t]) = 0
    BY DEF Init
<1>4. MaxSockCovers /\ WalkStaysInTable /\ Origins /\ NotCalledInOwnDispatch
    BY <1>3 DEF Init, MaxSockCovers, Socks, WalkStaysInTable, Origins, NotCalledInOwnDispatch
<1> QED BY <1>2, <1>4 DEF Inv

\* A table is changed by application code: it counts as changed, and what is new
\* in it comes from this code.
LEMMA TableChanged ==
    ASSUME Inv, InApplication, NEW t \in Type,
           NEW q \in Seq(Entry), table' = [table EXCEPT ![t] = q],
           \A j \in 1 .. Len(q) : \/ \E k \in 1 .. Len(table[t]) : q[j] = table[t][k]
                                  \/ q[j].born = IF pc = "handler" THEN cur.type ELSE "callback",
           max_sock' \in Int, MaxSockCovers',
           changed' = [changed EXCEPT ![t] = TRUE],
           UNCHANGED run
    PROVE  Inv'
<1> USE DEF Inv
<1>0. UNCHANGED <<pc, fds, cur, nested, outer>>
    BY DEF run
<1>1. /\ table' \in [Type -> Seq(Entry)]
      /\ table'[t] = q /\ \A u \in Type : u # t => table'[u] = table[u]
      /\ changed'[t] = TRUE /\ \A u \in Type : u # t => changed'[u] = changed[u]
      /\ changed' \in [Type -> BOOLEAN]
    BY DEF Types
<1>2. Types'
    BY <1>0, <1>1 DEF Types
<1>3. cur.type \in Type /\ pc # "dispatch"
    BY DEF Types, Call, InApplication
<1>4. WalkStaysInTable'
    BY <1>0, <1>1, <1>3 DEF WalkStaysInTable
<1>5. ASSUME NEW B, BornBefore(B), (IF pc = "handler" THEN cur.type ELSE "callback") \in B
      PROVE  BornBefore(B)'
    <2> SUFFICES ASSUME NEW u \in Type, NEW j \in 1 .. Len(table'[u])
                 PROVE  table'[u][j].born \in B
        BY DEF BornBefore
    <2>1. CASE u = t
        BY <1>1, <1>5, <2>1 DEF BornBefore
    <2>2. CASE u # t
        BY <1>1, <1>5, <2>2 DEF BornBefore
    <2> QED BY <2>1, <2>2
<1>6. Origins'
    <2> SUFFICES ASSUME ~ nested PROVE Origins'
        BY <1>0 DEF Origins
    <2>1. CASE pc \in {"callbacks", "skip"}
        <3>1. BornBefore({"polled", "callback"})'
            BY <1>5, <2>1 DEF Origins
        <3> QED BY <1>0, <2>1, <3>1 DEF Origins
    <2>2. CASE pc = "handler"
        <3>1. cur.type \in {"polled", "callback"} \cup UpTo(cur.type)
            BY <1>3 DEF UpTo, Type
        <3>2. BornBefore({"polled", "callback"} \cup UpTo(cur.type))'
            <4>1. PICK B : B = {"polled", "callback"} \cup UpTo(cur.type)
                OBVIOUS
            <4>2. BornBefore(B)'
                BY <1>5, <2>2, <3>1, <4>1 DEF Origins
            <4>3. B = ({"polled", "callback"} \cup UpTo(cur.type))'
                BY <1>0, <4>1 DEF UpTo
            <4> QED BY <4>2, <4>3 DEF BornBefore
        <3>3. ~ changed'[cur.type] => cur.type # t /\ ~ changed[cur.type]
            BY <1>1, <1>3
        <3>4. ~ changed'[cur.type] => \A k \in 1 .. Len(table'[cur.type]) :
                                          table'[cur.type][k].born # cur.type
            BY <1>1, <1>3, <2>2, <3>3 DEF Origins
        <3> QED BY <1>0, <2>2, <3>2, <3>4 DEF Origins
    <2>3. CASE pc = "out"
        BY <1>0, <2>3 DEF Origins
    <2> QED BY <2>1, <2>2, <2>3 DEF InApplication
<1>7. NotCalledInOwnDispatch'
    BY <1>0 DEF NotCalledInOwnDispatch
<1> QED BY <1>2, <1>4, <1>6, <1>7

LEMMA StepRegister ==
    ASSUME Inv, NEW s \in Sock, NEW t \in Type, eloop_register_sock(s, t) PROVE Inv'
<1> DEFINE e == [sock |-> s, born |-> IF pc = "handler" THEN cur.type ELSE "callback"]
           q == Append(table[t], e)
<1>1. /\ InApplication
      /\ table' = [table EXCEPT ![t] = q]
      /\ max_sock' = IF s > max_sock THEN s ELSE max_sock
      /\ changed' = [changed EXCEPT ![t] = TRUE]
      /\ UNCHANGED run
    BY DEF eloop_register_sock, Added
<1>2. /\ e \in Entry /\ e.sock = s
      /\ e.born = IF pc = "handler" THEN cur.type ELSE "callback"
    BY DEF Entry, Inv, Types, Call
<1>3. table[t] \in Seq(Entry) /\ table \in [Type -> Seq(Entry)] /\ max_sock \in Int /\ s \in Int
    BY EloopSockAssumption DEF Inv, Types
<1> HIDE DEF e
<1>4. /\ q \in Seq(Entry) /\ Len(q) = Len(table[t]) + 1 /\ q[Len(table[t]) + 1] = e
      /\ \A j \in 1 .. Len(table[t]) : q[j] = table[t][j]
    BY <1>2, <1>3
<1> HIDE DEF q
<1>5. ASSUME NEW j \in 1 .. Len(q)
      PROVE  (j \in 1 .. Len(table[t]) /\ q[j] = table[t][j]) \/ q[j] = e
    BY <1>3, <1>4
<1>6. max_sock' \in Int /\ s <= max_sock' /\ max_sock <= max_sock'
    BY <1>1, <1>3
<1>7. MaxSockCovers'
    <2> SUFFICES ASSUME NEW u \in Type, NEW j \in 1 .. Len(table'[u])
                 PROVE  table'[u][j].sock <= max_sock'
        BY DEF MaxSockCovers, Socks
    <2>1. ASSUME NEW k \in 1 .. Len(table[u]) PROVE table[u][k].sock <= max_sock'
        <3>1. table[u][k].sock <= max_sock
            BY DEF Inv, MaxSockCovers, Socks
        <3>2. table[u][k] \in Entry
            BY <1>3
        <3>3. table[u][k].sock \in Int
            <4>1. table[u][k].sock \in Sock
                BY <3>2 DEF Entry
            <4>2. \A x \in Sock : x \in Int
                BY EloopSockAssumption
            <4> QED BY <4>1, <4>2, Zenon
        <3> QED BY <1>3, <1>6, <3>1, <3>3
    <2>2. CASE u = t
        BY <1>1, <1>2, <1>3, <1>5, <1>6, <2>1, <2>2
    <2>3. CASE u # t
        BY <1>1, <1>3, <2>1, <2>3
    <2> QED BY <2>2, <2>3
<1> QED BY <1>1, <1>2, <1>4, <1>5, <1>6, <1>7, TableChanged

LEMMA StepUnregister ==
    ASSUME Inv, NEW s \in Sock, NEW t \in Type, eloop_unregister_sock(s, t) PROVE Inv'
<1> DEFINE q == Without(table[t], s)
<1>1. /\ InApplication
      /\ table' = [table EXCEPT ![t] = q]
      /\ max_sock' = Largest(table')
      /\ changed' = [changed EXCEPT ![t] = @ \/ Removes(t, s)]
      /\ UNCHANGED run
    BY DEF eloop_unregister_sock, Removed, Without
<1>2. table[t] \in Seq(Entry) /\ table \in [Type -> Seq(Entry)] /\ max_sock \in Int
    BY DEF Inv, Types
<1>3. /\ q \in Seq(Entry)
      /\ \A j \in 1 .. Len(q) : \E k \in 1 .. Len(table[t]) : q[j] = table[t][k]
      /\ (\A k \in 1 .. Len(table[t]) : table[t][k].sock # s) => q = table[t]
    BY <1>2, RemovedFacts
<1> HIDE DEF q
<1>4. table' \in [Type -> Seq(Entry)]
    BY <1>1, <1>2, <1>3
<1>5. \A u \in Type : \A j \in 1 .. Len(table'[u]) : table'[u][j].sock <= max_sock
    <2> SUFFICES ASSUME NEW u \in Type, NEW j \in 1 .. Len(table'[u])
                 PROVE  table'[u][j].sock <= max_sock
        OBVIOUS
    <2>1. \E k \in 1 .. Len(table[u]) : table'[u][j] = table[u][k]
        BY <1>1, <1>2, <1>3
    <2> QED BY <2>1 DEF Inv, MaxSockCovers, Socks
<1>6. /\ max_sock' \in Int
      /\ \A u \in Type : \A j \in 1 .. Len(table'[u]) : table'[u][j].sock <= max_sock'
    BY <1>1, <1>2, <1>4, <1>5, LargestCovers
<1>7. MaxSockCovers'
    BY <1>6 DEF MaxSockCovers, Socks
<1>8. CASE Removes(t, s)
    <2>1. changed' = [changed EXCEPT ![t] = TRUE]
        BY <1>1, <1>8 DEF Inv, Types
    <2> QED BY <1>1, <1>3, <1>6, <1>7, <2>1, TableChanged
<1>9. CASE ~ Removes(t, s)
    <2>1. q = table[t]
        BY <1>3, <1>9 DEF Removes, Socks
    <2>2. table' = table /\ changed' = changed
        BY <1>1, <1>2, <1>9, <2>1 DEF Inv, Types
    <2>3. Types'
        BY <1>1, <1>6, <2>2 DEF Inv, Types, run
    <2> QED BY <1>1, <1>7, <2>2, <2>3 DEF Inv, WalkStaysInTable, Origins, BornBefore,
                                          NotCalledInOwnDispatch, run
<1> QED BY <1>8, <1>9

\* The next table is dispatched, or the iteration ends.
LEMMA TableLeft ==
    ASSUME Inv, pc \in {"dispatch", "handler"}, LeaveTable(cur.type),
           UNCHANGED <<table, max_sock, nested, outer>>
    PROVE  Inv'
<1>1. ~ nested => BornBefore({"polled", "callback"} \cup UpTo(cur.type))
    BY DEF Inv, Origins
<1>2. cur.type \in Type /\ changed \in [Type -> BOOLEAN]
    BY DEF Inv, Types, Call
<1>3. ASSUME NEW t \in {"write", "exception"}, BeginTable(t),
             ~ nested => BornBefore(({"polled", "callback"} \cup UpTo(t)) \ {t})
      PROVE  Inv'
    <2>1. /\ pc' = "dispatch" /\ cur' = [NoCall EXCEPT !.type = t]
          /\ changed' = [changed EXCEPT ![t] = FALSE]
          /\ fds' = [fds EXCEPT ![cur.type] = {}]
        BY <1>3 DEF BeginTable
    <2>2. cur' \in Call /\ cur'.type = t /\ cur'.i = 0
        BY <2>1 DEF NoCall, Call, Born, Type
    <2>3. changed' \in [Type -> BOOLEAN] /\ changed'[t] = FALSE
        BY <1>2, <2>1 DEF Type
    <2>4. Types'
        BY <1>2, <2>1, <2>2, <2>3 DEF Inv, Types, Places
    <2>5. ~ nested =>
          /\ BornBefore({"polled", "callback"} \cup UpTo(t))
          /\ \A k \in 1 .. Len(table[t]) : table[t][k].born # t
        BY <1>3 DEF BornBefore, Type
    <2>6. Origins'
        BY <2>1, <2>2, <2>3, <2>5 DEF Origins, BornBefore
    <2> QED BY <2>1, <2>2, <2>4, <2>6 DEF Inv, MaxSockCovers, Socks, WalkStaysInTable,
                                           NotCalledInOwnDispatch
<1>4. CASE cur.type = "read"
    <2>1. BeginTable("write")
        BY <1>4 DEF LeaveTable
    <2>2. ~ nested => BornBefore(({"polled", "callback"} \cup UpTo("write")) \ {"write"})
        BY <1>1, <1>4 DEF UpTo, BornBefore
    <2> QED BY <1>3, <2>1, <2>2
<1>5. CASE cur.type = "write"
    <2>1. BeginTable("exception")
        BY <1>5 DEF LeaveTable
    <2>2. ~ nested => BornBefore(({"polled", "callback"} \cup UpTo("exception")) \ {"exception"})
        BY <1>1, <1>5 DEF UpTo, BornBefore, Type
    <2> QED BY <1>3, <2>1, <2>2
<1>6. CASE cur.type = "exception"
    <2>1. pc' = "top" /\ cur' = NoCall /\ changed' = changed /\ fds' = NoSockets
        BY <1>6 DEF LeaveTable, EndIteration
    <2>2. NoCall \in Call /\ "top" \in Places /\ NoSockets \in [Type -> SUBSET Sock]
        BY DEF NoCall, NoSockets, Call, Born, Type, Places
    <2>3. nested \in BOOLEAN /\ outer \in Seq(Frame)
        BY DEF Inv, Types
    <2> QED BY <1>2, <2>1, <2>2, <2>3, OutsideDispatch
<1> QED BY <1>2, <1>4, <1>5, <1>6 DEF Type

LEMMA StepSelect == ASSUME Inv, EnterSelect PROVE Inv'
<1>1. /\ table' = [t \in Type |-> [k \in 1 .. Len(table[t]) |->
                                      [table[t][k] EXCEPT !.born = "polled"]]]
      /\ pc' = "select" /\ UNCHANGED <<changed, max_sock, cur, outer>>
      /\ fds' = [t \in Type |-> {s \in Socks(t) : s < max_sock + 1}] /\ nested' = FALSE
    BY DEF EnterSelect
<1>2. ASSUME NEW t \in Type
      PROVE  /\ table'[t] \in Seq(Entry) /\ Len(table'[t]) = Len(table[t])
             /\ \A k \in 1 .. Len(table[t]) : /\ table'[t][k].sock = table[t][k].sock
                                              /\ table'[t][k].born = "polled"
    <2>1. table[t] \in Seq(Entry) /\ Len(table[t]) \in Nat
        BY DEF Inv, Types
    <2> DEFINE polled(k) == [table[t][k] EXCEPT !.born = "polled"]
    <2>2. table'[t] = [k \in 1 .. Len(table[t]) |-> polled(k)]
        BY <1>1
    <2>3. ASSUME NEW k \in 1 .. Len(table[t])
          PROVE  /\ polled(k) \in Entry /\ polled(k).sock = table[t][k].sock
                 /\ polled(k).born = "polled"
        <3>1. table[t][k] \in Entry
            BY <2>1
        <3> QED BY <3>1 DEF Entry
    <2> HIDE DEF polled
    <2> QED BY <2>1, <2>2, <2>3
<1>3. table' \in [Type -> Seq(Entry)]
    BY <1>1, <1>2
<1>8. fds' \in [Type -> SUBSET Sock]
    <2>1. ASSUME NEW t \in Type PROVE Socks(t) \subseteq Sock
        <3>1. \A k \in 1 .. Len(table[t]) : table[t][k] \in Entry
            BY DEF Inv, Types
        <3> QED BY <3>1 DEF Socks, Entry
    <2> QED BY <1>1, <2>1
<1>4. Types'
    BY <1>1, <1>3, <1>8 DEF Inv, Types, Places
<1>5. MaxSockCovers'
    BY <1>1, <1>2 DEF Inv, MaxSockCovers, Socks
<1>6. BornBefore({"polled", "callback"})'
    BY <1>2 DEF BornBefore
<1>7. Origins' /\ WalkStaysInTable' /\ NotCalledInOwnDispatch'
    BY <1>1, <1>6 DEF Origins, WalkStaysInTable, NotCalledInOwnDispatch
<1> QED BY <1>4, <1>5, <1>7 DEF Inv

LEMMA StepCall == ASSUME Inv, CallHandler PROVE Inv'
<1>1. /\ pc = "dispatch" /\ Reported # {} /\ pc' = "handler"
      /\ cur' = [type |-> cur.type, i |-> Min(Reported),
                 sock |-> table[cur.type][Min(Reported)].sock,
                 born |-> table[cur.type][Min(Reported)].born]
      /\ UNCHANGED <<table, changed, max_sock, fds, nested, outer>>
    BY DEF CallHandler, loop
<1>2. cur.type \in Type /\ cur.i \in Nat /\ table[cur.type] \in Seq(Entry)
    BY DEF Inv, Types, Call
<1>3. PICK n \in 1 .. Len(table[cur.type]) : n = Min(Reported)
    <2>1. Reported \in SUBSET Nat /\ Reported \subseteq 1 .. Len(table[cur.type])
        BY <1>2 DEF Reported
    <2> QED BY <1>1, <2>1, MinIsSmallest
<1>4. table[cur.type][n] \in Entry
    BY <1>2, <1>3
<1>5. /\ table[cur.type][n].sock \in Int
      /\ table[cur.type][n].born \in Born
    <2>1. \A x \in Sock : x \in Int
        BY EloopSockAssumption
    <2>2. table[cur.type][n].sock \in Sock
        BY <1>4 DEF Entry
    <2>3. table[cur.type][n].born \in Born
        BY <1>4 DEF Entry, Born
    <2> QED BY <2>1, <2>2, <2>3, Zenon
<1>6. /\ cur' \in Call /\ cur'.type = cur.type /\ cur'.i = n
      /\ cur'.sock = table[cur.type][n].sock /\ cur'.born = table[cur.type][n].born
    BY <1>1, <1>2, <1>3, <1>5 DEF Call
<1>7. Types'
    BY <1>1, <1>6 DEF Inv, Types, Places
<1>8. ~ nested => ~ changed[cur.type] /\ table[cur.type][n].born # cur.type
    BY <1>1, <1>3 DEF Inv, Origins
<1>9. WalkStaysInTable'
    BY <1>1, <1>2, <1>3, <1>6 DEF WalkStaysInTable
<1>10. Origins' /\ NotCalledInOwnDispatch'
    BY <1>1, <1>6, <1>8 DEF Inv, Origins, BornBefore, NotCalledInOwnDispatch
<1> QED BY <1>1, <1>7, <1>9, <1>10 DEF Inv, MaxSockCovers, Socks

\* The loop is run by main or by a handler, or a run of it returns.
LEMMA StepNested == ASSUME Inv, eloop_run \/ Returns PROVE Inv'
<1>1. /\ UNCHANGED <<table, changed, max_sock>>
      /\ changed \in [Type -> BOOLEAN] /\ cur \in Call /\ fds \in [Type -> SUBSET Sock]
      /\ outer \in Seq(Frame) /\ pc \in Places
    BY DEF eloop_run, Returns, loop, Inv, Types
<1>2. NoCall \in Call /\ NoSockets \in [Type -> SUBSET Sock] /\ {"top", "out"} \subseteq Places
    BY DEF NoCall, NoSockets, Call, Born, Type, Places
<1>3. CASE eloop_run
    <2>1. pc' = "top" /\ fds' = NoSockets /\ cur' = NoCall /\ nested' = FALSE
        BY <1>3 DEF eloop_run
    <2>2. CASE pc = "out"
        <3>1. outer' = outer
            BY <1>3, <2>2 DEF eloop_run
        <3> QED BY <1>1, <1>2, <2>1, <3>1, OutsideDispatch
    <2>3. CASE pc # "out"
        <3> DEFINE f == [pc |-> pc, fds |-> fds, cur |-> cur]
        <3>1. f \in Frame /\ outer' = <<f>> \o outer
            BY <1>1, <1>3, <2>3 DEF eloop_run, InApplication, Frame
        <3> HIDE DEF f
        <3>2. outer' \in Seq(Frame)
            BY <1>1, <3>1
        <3> QED BY <1>1, <1>2, <2>1, <3>2, OutsideDispatch
    <2> QED BY <2>2, <2>3
<1>4. CASE Returns /\ outer = <<>>
    <2>1. /\ pc' = "out" /\ fds' = NoSockets /\ cur' = NoCall /\ nested' = FALSE
          /\ outer' = outer
        BY <1>4 DEF Returns
    <2> QED BY <1>1, <1>2, <2>1, OutsideDispatch
<1>5. CASE Returns /\ outer # <<>>
    <2>1. /\ pc' = Head(outer).pc /\ fds' = Head(outer).fds /\ cur' = Head(outer).cur
          /\ nested' = TRUE /\ outer' = Tail(outer)
        BY <1>5 DEF Returns
    <2>2. Head(outer) \in Frame /\ Tail(outer) \in Seq(Frame)
        BY <1>1, <1>5
    <2>3. pc' \in Places /\ fds' \in [Type -> SUBSET Sock] /\ cur' \in Call
        BY <2>1, <2>2 DEF Frame, Places
    <2> QED BY <1>1, <2>1, <2>2, <2>3, OutsideDispatch
<1> QED BY <1>3, <1>4, <1>5

LEMMA InvStep == ASSUME Inv, [Next]_vars PROVE Inv'
<1>0. ASSUME NEW u \in Used PROVE u[1] \in Sock /\ u[2] \in Type
    BY EloopSockAssumption DEF Type
<1>1. ASSUME NEW u \in Used, eloop_register_sock(u[1], u[2]) PROVE Inv'
    BY <1>0, <1>1, StepRegister
<1>2. ASSUME NEW u \in Used, eloop_unregister_sock(u[1], u[2]) PROVE Inv'
    BY <1>0, <1>2, StepUnregister
<1>3. ASSUME UNCHANGED <<table, changed, max_sock, run>> PROVE Inv'
    BY <1>3 DEF Inv, Types, MaxSockCovers, Socks, WalkStaysInTable, Origins, BornBefore,
                NotCalledInOwnDispatch, run
<1>4. CASE \/ eloop_terminate \/ Drain \/ UNCHANGED vars
           \/ \E val \in BOOLEAN : eloop_tmp_terminate(val)
           \/ \E s \in Sock : Open(s) \/ Close(s)
           \/ \E u \in Used : BecomesReady(u[1], u[2])
    BY <1>3, <1>4 DEF eloop_terminate, Drain, vars, eloop_tmp_terminate, Open, Close, BecomesReady,
                      loop
<1>5. /\ changed \in [Type -> BOOLEAN] /\ cur \in Call /\ NoCall \in Call
      /\ fds \in [Type -> SUBSET Sock] /\ NoSockets \in [Type -> SUBSET Sock]
      /\ nested \in BOOLEAN /\ outer \in Seq(Frame)
    BY DEF Inv, Types, NoCall, NoSockets, Call, Born, Type
<1>6. CASE eloop_run \/ LoopEnds \/ SelectFails
    BY <1>6, StepNested DEF LoopEnds, SelectFails
<1>7. CASE SelectReports \/ SelectReportsNothing
    <2>1. /\ pc = "select" /\ pc' \in {"callbacks", "skip"}
          /\ UNCHANGED <<table, changed, max_sock, cur, nested, outer>>
          /\ fds' = NoSockets \/ fds' = [t \in Type |-> fds[t] \cap ready[t]]
        BY <1>7 DEF SelectReports, SelectReportsNothing, loop
    <2>2. ~ nested => BornBefore({"polled", "callback"})
        BY <2>1 DEF Inv, Origins
    <2>3. fds' \in [Type -> SUBSET Sock]
        BY <1>5, <2>1
    <2> QED BY <1>5, <2>1, <2>2, <2>3, OutsideDispatch DEF Places
<1>8. CASE Continue
    <2>1. /\ pc' = "top" /\ cur' = NoCall /\ fds' = NoSockets
          /\ UNCHANGED <<table, changed, max_sock, nested, outer>>
        BY <1>8 DEF Continue, EndIteration
    <2> QED BY <1>5, <2>1, OutsideDispatch DEF Places
<1>9. CASE EnterSelect
    BY <1>9, StepSelect
<1>10. CASE BeginDispatch
    <2>1. /\ pc = "callbacks" /\ pc' = "dispatch" /\ cur' = [NoCall EXCEPT !.type = "read"]
          /\ changed' = [changed EXCEPT !["read"] = FALSE]
          /\ UNCHANGED <<table, max_sock, fds, nested, outer>>
        BY <1>10 DEF BeginDispatch, BeginTable
    <2>2. cur' \in Call /\ cur'.type = "read" /\ cur'.i = 0
        BY <2>1 DEF NoCall, Call, Born, Type
    <2>3. changed' \in [Type -> BOOLEAN] /\ changed'["read"] = FALSE
        BY <1>5, <2>1 DEF Type
    <2>4. Types'
        BY <2>1, <2>2, <2>3 DEF Inv, Types, Places
    <2>5. ~ nested => BornBefore({"polled", "callback"})
        BY <2>1 DEF Inv, Origins
    <2>6. ~ nested => BornBefore({"polled", "callback"} \cup UpTo("read"))
        BY <2>5 DEF BornBefore
    <2>7. ~ nested => \A k \in 1 .. Len(table["read"]) : table["read"][k].born # "read"
        BY <2>5 DEF BornBefore, Type
    <2>8. Origins'
        BY <2>1, <2>2, <2>3, <2>6, <2>7 DEF Origins, BornBefore
    <2> QED BY <2>1, <2>2, <2>4, <2>8 DEF Inv, MaxSockCovers, Socks, WalkStaysInTable,
                                           NotCalledInOwnDispatch
<1>11. CASE CallHandler
    BY <1>11, StepCall
<1>12. CASE EndOfTable
    <2>1. /\ pc = "dispatch" /\ LeaveTable(cur.type)
          /\ UNCHANGED <<table, max_sock, nested, outer>>
        BY <1>12 DEF EndOfTable
    <2> QED BY <2>1, TableLeft
<1>13. CASE HandlerReturns
    <2>1. pc = "handler" /\ UNCHANGED <<table, max_sock, nested, outer>>
        BY <1>13 DEF HandlerReturns
    <2>2. CASE changed[cur.type]
        <3>1. LeaveTable(cur.type)
            BY <1>13, <2>2 DEF HandlerReturns, StopsWalk
        <3> QED BY <2>1, <3>1, TableLeft
    <2>3. CASE ~ changed[cur.type]
        <3>1. pc' = "dispatch" /\ UNCHANGED <<cur, changed, fds>>
            BY <1>13, <2>3 DEF HandlerReturns, StopsWalk
        <3> QED BY <2>1, <2>3, <3>1 DEF Inv, Types, Places, MaxSockCovers, Socks, WalkStaysInTable,
                                        Origins, BornBefore, NotCalledInOwnDispatch
    <2> QED BY <2>2, <2>3
<1> QED BY <1>1, <1>2, <1>4, <1>6, <1>7, <1>8, <1>9, <1>10, <1>11, <1>12, <1>13
        DEF Next, Application

-----------------------------------------------------------------------------
(* Theorems *)

\* The invariant: what the tables hold and where a dispatch stands in them.
THEOREM Invariant == Spec => []Inv
<1>1. Init => Inv
    BY InvInit
<1>2. Inv /\ [Next]_vars => Inv'
    BY InvStep
<1> QED BY <1>1, <1>2, PTL DEF Spec

\* eloop.max_sock covers every registered socket, however sockets are registered
\* and removed (eloop_sock_table_add_sock, eloop_recalc_max_sock).
THEOREM MaxSockIsKept == Spec => []MaxSockCovers
<1>1. Inv => MaxSockCovers
    BY DEF Inv
<1> QED BY <1>1, Invariant, PTL

\* No handler is called in the dispatch of a table that added its entry
\* (table->changed in eloop_sock_table_dispatch_table).
THEOREM AddedLater == Spec => []NotCalledInOwnDispatch
<1>1. Inv => NotCalledInOwnDispatch
    BY DEF Inv
<1> QED BY <1>1, Invariant, PTL

\* The walk over a table never leaves it, whatever its handlers add and remove
\* (eloop_sock_table_dispatch_table).
THEOREM WalkIsSafe == Spec => []WalkStaysInTable
<1>1. Inv => WalkStaysInTable
    BY DEF Inv
<1> QED BY <1>1, Invariant, PTL

=============================================================================
