-------------------------- MODULE DnsLookupProofs --------------------------
(***************************************************************************)
(* The proofs about DnsLookup: an answer that a lookup takes is the one to *)
(* its last query, because ids are not used again while their answer may   *)
(* arrive, and a lookup for a chosen server asks that one.                 *)
(***************************************************************************)
EXTENDS DnsLookup, TLAPS

Place == {"idle", "try", "select", "unreachable", "found", "failed"}
InWay == {"try", "select", "unreachable"}

\* The variables of a lookup at a place of its way.
LookupOK(p, c) ==
    /\ p \in Place
    /\ c \in Context
    /\ p \in InWay =>
           /\ c.nscount \in 1 .. MAX_SERVERS
           /\ c.local_ns \in 0 .. c.nscount - 1
           /\ c.local_id \in 0 .. IdSpace - 1
           /\ c.variant \in -1 .. MAX_SEARCH - 1
           /\ c.choice # 0 => c.nscount = 1
    /\ p = "unreachable" => ~ c.sync

\* How many tries a lookup has behind it at least never exceeds the rank of
\* the next one in the order of retries, servers and search domains.
Round(c) == c.retries * c.nscount + c.local_ns
Rank(c) == Round(c) * (MAX_SEARCH + 1) + c.variant + 1

\* How many ids the lookup has used since the query's.
Age(i, j) == IF i <= j THEN j - i ELSE j - i + IdSpace

\* A query whose answer may arrive: only the last one has the last id.
QueryOK(q, p, c) ==
    /\ p \in InWay
    /\ p = "try" => Age(q.id, c.local_id) + 1 <= Rank(c)
    /\ p # "try" => Age(q.id, c.local_id) <= Rank(c)
    /\ p = "select" /\ Age(q.id, c.local_id) = 0 =>
           q.server = c.server /\ q.variant = c.variant

\* The state besides the places and variables of the lookups.
OthersOK ==
    /\ resolv \in Files
    /\ edits \in 0 .. MaxEdits
    /\ conf \in Seq(Servers) /\ Len(conf) <= MAX_SERVERS
    /\ first_init_nameserver \in BOOLEAN
    /\ nameservers \in 0 .. MAX_SERVERS
    /\ nameserver \in [Index -> Servers \cup {Null}]
    /\ searchdomains \in 0 .. MAX_SEARCH
    /\ ns \in Index
    /\ id \in 0 .. IdSpace - 1
    /\ running \in Lookups \cup {Null}
    /\ asked \subseteq Query

TypesOK ==
    /\ OthersOK
    /\ pc \in [Lookups -> Place]
    /\ ctx \in [Lookups -> Context]
    /\ accepted \in [Lookups -> Query \cup {Null}]

\* The inductive invariant for the ids.
IdsInv ==
    /\ TypesOK
    /\ \A l \in Lookups : LookupOK(pc[l], ctx[l])
    /\ \A q \in asked : QueryOK(q, pc[q.by], ctx[q.by])
    /\ AnswersLastQuery

-----------------------------------------------------------------------------
(* The ranks *)

LEMMA Distribute ==
    ASSUME NEW a \in Int, NEW b \in Int, NEW k \in Int
    PROVE  (a + b) * k = a * k + b * k
  BY SMT

LEMMA TimesMonotonic ==
    ASSUME NEW a \in Int, NEW b \in Int, NEW k \in Nat, a <= b
    PROVE  a * k <= b * k
<1>1. PICK d \in Nat : b = a + d
    <2>1. b - a \in Nat /\ b = a + (b - a)
        OBVIOUS
    <2> QED BY <2>1
<1>2. b * k = a * k + d * k
    BY <1>1, Distribute
<1>3. d * k >= 0 /\ d * k \in Int /\ a * k \in Int
    BY SMT
<1> QED BY <1>2, <1>3

LEMMA TimesTyped ==
    ASSUME NEW a \in Int, NEW b \in Int
    PROVE  a * b \in Int
  OBVIOUS

LEMMA TimesNat ==
    ASSUME NEW a \in Nat, NEW b \in Nat
    PROVE  a * b \in Nat
  BY SMT

\* The id after the last one of all is the first one.
LEMMA Successor ==
    ASSUME NEW m \in Nat \ {0}, NEW i \in 0 .. m - 1
    PROVE  (i + 1) % m = IF i + 1 = m THEN 0 ELSE i + 1
<1>1. CASE i + 1 = m
    BY <1>1, SMT
<1>2. CASE i + 1 # m
    BY <1>2, SMT
<1> QED BY <1>1, <1>2
LEMMA AgeOfNext ==
    ASSUME NEW i \in 0 .. IdSpace - 1, NEW j \in 0 .. IdSpace - 1,
           Age(i, j) + 1 < IdSpace
    PROVE  /\ (j + 1) % IdSpace \in 0 .. IdSpace - 1
           /\ Age(i, (j + 1) % IdSpace) = Age(i, j) + 1
<1>1. IdSpace \in Nat \ {0}
    BY DnsLookupAssumption
<1>2. (j + 1) % IdSpace = IF j + 1 = IdSpace THEN 0 ELSE j + 1
    BY <1>1, Successor
<1>3. CASE j + 1 = IdSpace
    BY <1>1, <1>2, <1>3 DEF Age
<1>4. CASE j + 1 # IdSpace
    BY <1>1, <1>2, <1>4 DEF Age
<1> QED BY <1>3, <1>4

LEMMA AgeIsNat ==
    ASSUME NEW i \in 0 .. IdSpace - 1, NEW j \in 0 .. IdSpace - 1
    PROVE  /\ Age(i, j) \in 0 .. IdSpace - 1
           /\ Age(i, j) = 0 <=> i = j
  BY DnsLookupAssumption DEF Age

LEMMA RankIsNat ==
    ASSUME NEW c, LookupOK("try", c)
    PROVE  Rank(c) \in Nat /\ Round(c) \in Nat
<1>1. /\ c.retries \in Nat /\ c.nscount \in Nat /\ c.local_ns \in Nat
      /\ c.variant \in Int /\ c.variant + 1 \in Nat /\ MAX_SEARCH + 1 \in Nat
    <2>1. /\ c.retries \in Nat /\ c.nscount \in 1 .. MAX_SERVERS
          /\ c.local_ns \in 0 .. c.nscount - 1 /\ c.variant \in -1 .. MAX_SEARCH - 1
        BY DEF LookupOK, Context, InWay
    <2>2. MAX_SEARCH \in Nat /\ MAX_SERVERS \in Nat
        BY DnsLookupAssumption
    <2> QED BY <2>1, <2>2
<1>2. c.retries * c.nscount \in Nat
    BY <1>1, TimesNat
<1>3. Round(c) \in Nat
    BY <1>1, <1>2 DEF Round
<1>4. Round(c) * (MAX_SEARCH + 1) \in Nat
    BY <1>1, <1>3, TimesNat
<1> QED BY <1>1, <1>3, <1>4 DEF Rank

\* As long as a lookup tries again its rank is less than the number of ids.
LEMMA RankBelowIdSpace ==
    ASSUME NEW c, LookupOK("try", c), NEW t \in {MAX_RETRIES, nRetries}, c.retries < t
    PROVE  Rank(c) < IdSpace
<1> DEFINE S == MAX_SEARCH + 1
<1>1. /\ c.retries \in Nat /\ c.nscount \in 1 .. MAX_SERVERS
      /\ c.local_ns \in 0 .. c.nscount - 1 /\ c.variant \in -1 .. MAX_SEARCH - 1
    BY DEF LookupOK, Context, InWay
<1>2. /\ S \in Nat /\ t \in Nat /\ MAX_SERVERS \in Nat /\ IdSpace \in Nat
      /\ MAX_SEARCH \in Nat
    BY DnsLookupAssumption
<1>3. t * MAX_SERVERS * S <= IdSpace
    BY IdsOutlastLookup
<1>4. c.retries * c.nscount + c.nscount = (c.retries + 1) * c.nscount
    BY <1>1, <1>2, Distribute
<1>5. (c.retries + 1) * c.nscount <= t * c.nscount
    BY <1>1, <1>2, TimesMonotonic
<1>6. t * c.nscount <= t * MAX_SERVERS
    <2>1. c.nscount * t <= MAX_SERVERS * t
        BY <1>1, <1>2, TimesMonotonic
    <2> QED BY <2>1, <1>1, <1>2
<1>7. Round(c) + 1 <= t * MAX_SERVERS /\ Round(c) \in Int /\ t * MAX_SERVERS \in Int
    <2>1. /\ c.retries * c.nscount \in Int /\ t * c.nscount \in Int
          /\ t * MAX_SERVERS \in Int /\ (c.retries + 1) * c.nscount \in Int
        BY <1>1, <1>2, TimesTyped
    <2> QED BY <2>1, <1>1, <1>2, <1>4, <1>5, <1>6 DEF Round
<1>8. (Round(c) + 1) * S <= t * MAX_SERVERS * S
    BY <1>2, <1>7, TimesMonotonic
<1>9. (Round(c) + 1) * S = Round(c) * S + S
    BY <1>2, <1>7, Distribute
<1>10. Round(c) * S \in Int /\ t * MAX_SERVERS * S \in Int
    BY <1>2, <1>7, TimesTyped
<1> QED BY <1>1, <1>2, <1>3, <1>8, <1>9, <1>10 DEF Rank
-----------------------------------------------------------------------------
(* The steps of a lookup's variables *)

LEMMA NextIdOK ==
    ASSUME NEW c, LookupOK("try", c)
    PROVE  LET d == NextId(c)
           IN  /\ d \in Context
               /\ d.local_id = (c.local_id + 1) % IdSpace
               /\ d.local_id \in 0 .. IdSpace - 1
               /\ \A p \in InWay : ~ (p = "unreachable" /\ c.sync) => LookupOK(p, d)
               /\ d.sync = c.sync /\ d.retries = c.retries
               /\ d.nscount = c.nscount /\ d.choice = c.choice
               /\ d.backup = c.backup /\ d.local_ns = c.local_ns
               /\ d.variant = c.variant /\ d.server = c.server
               /\ Rank(d) = Rank(c)
<1> DEFINE d == NextId(c)
<1>1. c \in Context /\ c.local_id \in 0 .. IdSpace - 1 /\ IdSpace \in Nat \ {0}
    BY DnsLookupAssumption DEF LookupOK, InWay
<1> DEFINE i == (c.local_id + 1) % IdSpace
<1>2. i \in 0 .. IdSpace - 1
    <2>1. i = IF c.local_id + 1 = IdSpace THEN 0 ELSE c.local_id + 1
        BY <1>1, Successor
    <2> QED BY <1>1, <2>1
<1>3. d = [c EXCEPT !.local_id = i]
    BY DEF NextId
<1> HIDE DEF i, d
<1>4. /\ d \in Context /\ d.local_id = i
      /\ d.sync = c.sync /\ d.retries = c.retries
      /\ d.nscount = c.nscount /\ d.choice = c.choice
      /\ d.backup = c.backup /\ d.local_ns = c.local_ns
      /\ d.variant = c.variant /\ d.server = c.server
    BY <1>1, <1>2, <1>3 DEF Context
<1>5. \A p \in InWay : ~ (p = "unreachable" /\ c.sync) => LookupOK(p, d)
    BY <1>2, <1>4 DEF LookupOK, InWay, Place
<1>6. Rank(d) = Rank(c)
    BY <1>4 DEF Rank, Round
<1> USE DEF d
<1> QED BY <1>2, <1>4, <1>5, <1>6 DEF i

LEMMA NextServerOK ==
    ASSUME NEW c, LookupOK("try", c)
    PROVE  LET d == NextServer(c)
           IN  /\ LookupOK("try", d)
               /\ d.local_id = c.local_id /\ d.sync = c.sync
               /\ d.choice = c.choice /\ d.backup = c.backup
               /\ d.server = c.server
               /\ Rank(d) >= Rank(c) + 1
<1> DEFINE d == NextServer(c)
           n == (c.local_ns + 1) % c.nscount
           r == IF n = 0 THEN c.retries + 1 ELSE c.retries
<1>1. /\ c \in Context /\ c.nscount \in 1 .. MAX_SERVERS
      /\ c.local_ns \in 0 .. c.nscount - 1 /\ c.retries \in Nat
      /\ c.variant \in -1 .. MAX_SEARCH - 1
      /\ MAX_SEARCH \in Nat /\ MAX_SERVERS \in Nat
    BY DnsLookupAssumption DEF LookupOK, InWay, Context
<1>2. n = IF c.local_ns + 1 = c.nscount THEN 0 ELSE c.local_ns + 1
    BY <1>1, Successor
<1>3. d = [c EXCEPT !.variant = -1, !.local_ns = n, !.retries = r]
    BY DEF NextServer
<1>4. n \in 0 .. c.nscount - 1 /\ n \in Index /\ r \in Nat
    BY <1>1, <1>2 DEF Index
<1> HIDE DEF d
<1>5. /\ d \in Context /\ d.local_id = c.local_id /\ d.sync = c.sync
      /\ d.choice = c.choice /\ d.backup = c.backup /\ d.nscount = c.nscount
      /\ d.server = c.server
      /\ d.local_ns = n /\ d.variant = -1 /\ d.retries = r
    <2> HIDE DEF n, r
    <2>1. -1 \in Int
        OBVIOUS
    <2>2. DOMAIN c = {"choice", "sync", "nscount", "backup", "local_ns",
                      "local_id", "variant", "retries", "server"}
        BY <1>1 DEF Context
    <2>3. /\ d.local_id = c.local_id /\ d.sync = c.sync
          /\ d.choice = c.choice /\ d.backup = c.backup /\ d.nscount = c.nscount
          /\ d.server = c.server
          /\ d.local_ns = n /\ d.variant = -1 /\ d.retries = r
        BY <1>3, <2>2
    <2>4. d \in Context
        BY <1>1, <1>3, <1>4, <2>1 DEF Context
    <2> QED BY <2>3, <2>4
<1>6. LookupOK("try", d)
    <2>1. c.choice # 0 => c.nscount = 1
        BY DEF LookupOK, InWay
    <2>2. c.local_id \in 0 .. IdSpace - 1
        BY DEF LookupOK, InWay
    <2> HIDE DEF n, r
    <2> QED BY <1>1, <1>4, <1>5, <2>1, <2>2 DEF LookupOK, InWay, Place
<1>7. Round(d) = Round(c) + 1
    <2>1. CASE c.local_ns + 1 = c.nscount
        <3>1. n = 0 /\ r = c.retries + 1
            BY <1>2, <2>1
        <3>2. (c.retries + 1) * c.nscount = c.retries * c.nscount + c.nscount
            BY <1>1, Distribute
        <3>3. c.retries * c.nscount \in Int
            BY <1>1, TimesTyped
        <3> HIDE DEF n, r
        <3> QED BY <1>1, <1>5, <2>1, <3>1, <3>2, <3>3 DEF Round
    <2>2. CASE c.local_ns + 1 # c.nscount
        <3>1. n = c.local_ns + 1 /\ r = c.retries
            BY <1>1, <1>2, <2>2
        <3>3. c.retries * c.nscount \in Int
            BY <1>1, TimesTyped
        <3> HIDE DEF n, r
        <3> QED BY <1>1, <1>5, <3>1, <3>3 DEF Round
    <2> QED BY <2>1, <2>2
<1>8. Round(c) \in Nat
    BY RankIsNat
<1>9. (Round(c) + 1) * (MAX_SEARCH + 1)
          = Round(c) * (MAX_SEARCH + 1) + (MAX_SEARCH + 1)
    BY <1>1, <1>8, Distribute
<1>10. Round(c) * (MAX_SEARCH + 1) \in Int
    BY <1>1, <1>8, TimesTyped
<1>11. Rank(d) >= Rank(c) + 1
    <2>1. Rank(d) = (Round(c) + 1) * (MAX_SEARCH + 1)
        BY <1>1, <1>5, <1>7, <1>9, <1>10 DEF Rank
    <2> QED BY <1>1, <1>9, <1>10, <2>1 DEF Rank
<1> USE DEF d
<1> QED BY <1>5, <1>6, <1>11

LEMMA NextSearchOK ==
    ASSUME NEW c, LookupOK("try", c), searchdomains \in 0 .. MAX_SEARCH
    PROVE  LET d == NextSearch(c)
           IN  /\ LookupOK("try", d)
               /\ d.local_id = c.local_id /\ d.sync = c.sync
               /\ d.choice = c.choice /\ d.backup = c.backup
               /\ d.server = c.server
               /\ Rank(d) >= Rank(c) + 1
<1>1. CASE c.variant < searchdomains - 1
    <2> DEFINE d == [c EXCEPT !.variant = @ + 1]
    <2>1. NextSearch(c) = d
        BY <1>1 DEF NextSearch
    <2>2. /\ c \in Context /\ c.variant \in -1 .. MAX_SEARCH - 1
          /\ c.variant + 1 \in -1 .. MAX_SEARCH - 1 /\ MAX_SEARCH \in Nat
        <3>1. c \in Context /\ c.variant \in -1 .. MAX_SEARCH - 1 /\ MAX_SEARCH \in Nat
            BY DnsLookupAssumption DEF LookupOK, InWay
        <3> QED BY <1>1, <3>1
    <2>3. /\ d \in Context /\ d.local_id = c.local_id /\ d.sync = c.sync
          /\ d.choice = c.choice /\ d.backup = c.backup /\ d.nscount = c.nscount
          /\ d.server = c.server /\ d.local_ns = c.local_ns /\ d.retries = c.retries
          /\ d.variant = c.variant + 1
        BY <2>2 DEF Context
    <2> HIDE DEF d
    <2>4. LookupOK("try", d)
        BY <2>2, <2>3 DEF LookupOK, InWay
    <2>5. Round(d) = Round(c)
        BY <2>3 DEF Round
    <2>6. Round(c) * (MAX_SEARCH + 1) \in Int
        BY <2>2, RankIsNat, TimesTyped
    <2>7. Rank(d) >= Rank(c) + 1
        BY <2>2, <2>3, <2>5, <2>6 DEF Rank
    <2> QED BY <2>1, <2>3, <2>4, <2>7
<1>2. CASE ~ (c.variant < searchdomains - 1)
    BY <1>2, NextServerOK DEF NextSearch
<1> QED BY <1>1, <1>2
LEMMA FailedTryOK ==
    ASSUME NEW c, LookupOK("try", c)
    PROVE  LET d == [c EXCEPT !.retries = @ + 1]
           IN  LookupOK("try", d) /\ d.local_id = c.local_id /\ Rank(d) >= Rank(c) + 1
<1> DEFINE d == [c EXCEPT !.retries = @ + 1]
<1>1. /\ c \in Context /\ c.nscount \in 1 .. MAX_SERVERS
      /\ c.local_ns \in Int /\ c.retries \in Nat /\ c.variant \in Int
      /\ MAX_SEARCH \in Nat /\ MAX_SERVERS \in Nat
    BY DnsLookupAssumption DEF LookupOK, InWay, Context
<1>2. /\ d \in Context /\ d.local_id = c.local_id /\ d.sync = c.sync
      /\ d.choice = c.choice /\ d.nscount = c.nscount
      /\ d.local_ns = c.local_ns /\ d.variant = c.variant
      /\ d.retries = c.retries + 1
    BY <1>1 DEF Context
<1> HIDE DEF d
<1>3. LookupOK("try", d)
    BY <1>2 DEF LookupOK, InWay
<1>4. Round(d) = Round(c) + c.nscount
    <2>1. (c.retries + 1) * c.nscount = c.retries * c.nscount + c.nscount
        BY <1>1, Distribute
    <2>2. c.retries * c.nscount \in Int
        BY <1>1, TimesTyped
    <2> QED BY <1>1, <1>2, <2>1, <2>2 DEF Round
<1>5. Round(c) \in Nat
    BY RankIsNat
<1>6. (Round(c) + c.nscount) * (MAX_SEARCH + 1)
          = Round(c) * (MAX_SEARCH + 1) + c.nscount * (MAX_SEARCH + 1)
    BY <1>1, <1>5, Distribute
<1>7. 1 * (MAX_SEARCH + 1) <= c.nscount * (MAX_SEARCH + 1)
    BY <1>1, TimesMonotonic
<1>8. /\ Round(c) * (MAX_SEARCH + 1) \in Int
      /\ c.nscount * (MAX_SEARCH + 1) \in Int
    BY <1>1, <1>5, TimesTyped
<1>9. Rank(d) = Round(c) * (MAX_SEARCH + 1) + c.nscount * (MAX_SEARCH + 1) + c.variant + 1
    BY <1>2, <1>4, <1>6 DEF Rank
<1>10. Rank(d) >= Rank(c) + 1
    BY <1>1, <1>7, <1>8, <1>9 DEF Rank
<1> USE DEF d
<1> QED BY <1>2, <1>3, <1>10

\* A try leaves an older query behind by one id more.
LEMMA QueryAges ==
    ASSUME NEW c, LookupOK("try", c), NEW t \in {MAX_RETRIES, nRetries}, c.retries < t,
           NEW q \in Query, QueryOK(q, "try", c)
    PROVE  Age(q.id, NextId(c).local_id) \in 1 .. Rank(c)
<1>1. q.id \in 0 .. IdSpace - 1 /\ c.local_id \in 0 .. IdSpace - 1
    BY DEF Query, LookupOK, InWay
<1>2. Age(q.id, c.local_id) + 1 <= Rank(c)
    BY DEF QueryOK
<1>3. Rank(c) < IdSpace /\ Rank(c) \in Nat /\ IdSpace \in Nat
    BY RankBelowIdSpace, RankIsNat, DnsLookupAssumption
<1>4. Age(q.id, c.local_id) \in Nat
    BY <1>1, AgeIsNat
<1>5. Age(q.id, c.local_id) + 1 < IdSpace
    BY <1>2, <1>3, <1>4
<1>6. Age(q.id, (c.local_id + 1) % IdSpace) = Age(q.id, c.local_id) + 1
    BY <1>1, <1>5, AgeOfNext
<1>7. NextId(c).local_id = (c.local_id + 1) % IdSpace
    BY NextIdOK
<1> QED BY <1>2, <1>3, <1>4, <1>6, <1>7

LEMMA LimitOfTries ==
    ASSUME TypesOK, NEW l \in Lookups, Retries(l)
    PROVE  \E t \in {MAX_RETRIES, nRetries} : ctx[l].retries < t
  BY DEF Retries, Tries

-----------------------------------------------------------------------------
(* Steps of one lookup *)

LEMMA Moved ==
    ASSUME IdsInv, OthersOK', NEW l \in Lookups, NEW w, NEW c, LookupOK(w, c),
           pc' = [pc EXCEPT ![l] = w],
           ctx' = [ctx EXCEPT ![l] = c],
           \A q \in asked' : q.by = l => QueryOK(q, w, c),
           \A q \in asked' : q.by # l => q \in asked,
           accepted' \in [Lookups -> Query \cup {Null}],
           \A k \in Lookups : k # l => accepted'[k] = accepted[k],
           w = "found" => /\ accepted'[l].server = c.server
                          /\ accepted'[l].variant = c.variant
    PROVE  IdsInv'
<1>1. pc \in [Lookups -> Place] /\ ctx \in [Lookups -> Context]
    BY DEF IdsInv, TypesOK
<1>2. w \in Place /\ c \in Context
    BY DEF LookupOK
<1>3. /\ pc'[l] = w /\ ctx'[l] = c
      /\ \A k \in Lookups : k # l => pc'[k] = pc[k] /\ ctx'[k] = ctx[k]
    BY <1>1
<1>4. TypesOK'
    BY <1>1, <1>2 DEF TypesOK
<1>5. \A k \in Lookups : LookupOK(pc'[k], ctx'[k])
    <2> SUFFICES ASSUME NEW k \in Lookups
                 PROVE  LookupOK(pc'[k], ctx'[k])
        OBVIOUS
    <2>1. CASE k = l
        BY <1>3, <2>1
    <2>2. CASE k # l
        <3>1. LookupOK(pc[k], ctx[k])
            BY DEF IdsInv
        <3> QED BY <1>3, <2>2, <3>1
    <2> QED BY <2>1, <2>2
<1>6. \A q \in asked' : QueryOK(q, pc'[q.by], ctx'[q.by])
    <2> SUFFICES ASSUME NEW q \in asked'
                 PROVE  QueryOK(q, pc'[q.by], ctx'[q.by])
        OBVIOUS
    <2>1. q.by \in Lookups
        BY DEF OthersOK, Query
    <2>2. CASE q.by = l
        BY <1>3, <2>2
    <2>3. CASE q.by # l
        <3>1. q \in asked
            BY <2>3
        <3>2. QueryOK(q, pc[q.by], ctx[q.by])
            BY <3>1 DEF IdsInv
        <3> QED BY <1>3, <2>1, <2>3, <3>2
    <2> QED BY <2>2, <2>3
<1>7. AnswersLastQuery'
    <2> SUFFICES ASSUME NEW k \in Lookups, pc'[k] = "found"
                 PROVE  /\ accepted'[k].server = ctx'[k].server
                        /\ accepted'[k].variant = ctx'[k].variant
        BY DEF AnswersLastQuery
    <2>1. CASE k = l
        BY <1>3, <2>1
    <2>2. CASE k # l
        BY <1>3, <2>2 DEF IdsInv, AnswersLastQuery
    <2> QED BY <2>1, <2>2
<1> QED BY <1>4, <1>5, <1>6, <1>7 DEF IdsInv
\* A lookup that has its place in the loop is in order there.
LEMMA OnItsWay ==
    ASSUME IdsInv, NEW l \in Lookups, pc[l] \in InWay
    PROVE  /\ LookupOK("try", ctx[l])
           /\ LookupOK(pc[l], ctx[l])
           /\ \A q \in asked : q.by = l => QueryOK(q, pc[l], ctx[l]) /\ q \in Query
<1>1. LookupOK(pc[l], ctx[l])
    BY DEF IdsInv
<1>2. LookupOK("try", ctx[l])
    BY <1>1 DEF LookupOK, InWay, Place
<1>3. \A q \in asked : q.by = l => QueryOK(q, pc[l], ctx[l]) /\ q \in Query
    BY DEF IdsInv, TypesOK, OthersOK
<1> QED BY <1>1, <1>2, <1>3

LEMMA SocketFailsIds ==
    ASSUME IdsInv, NEW l \in Lookups, SocketFails(l)
    PROVE  IdsInv'
<1>1. Retries(l) /\ pc[l] = "try"
    BY DEF SocketFails, Retries, InLoop
<1> PICK c : c = ctx[l]
    OBVIOUS
<1>2. /\ LookupOK("try", c)
      /\ \A q \in asked : q.by = l => QueryOK(q, "try", c) /\ q \in Query
    BY <1>1, OnItsWay DEF InWay
<1>3. PICK t \in {MAX_RETRIES, nRetries} : c.retries < t
    BY <1>1, LimitOfTries DEF IdsInv
<1> DEFINE b == NextId(c)
           d == [b EXCEPT !.retries = @ + 1]
<1>4. LookupOK("try", b) /\ Rank(b) = Rank(c)
    BY <1>2, NextIdOK DEF InWay
<1> HIDE DEF b
<1>5. LookupOK("try", d) /\ d.local_id = b.local_id /\ Rank(d) >= Rank(b) + 1
    BY <1>4, FailedTryOK
<1>6. ctx' = [ctx EXCEPT ![l] = d]
    BY DEF SocketFails, b
<1> HIDE DEF d
<1>7. \A q \in asked : q.by = l => QueryOK(q, "try", d)
    <2> SUFFICES ASSUME NEW q \in asked, q.by = l
                 PROVE  QueryOK(q, "try", d)
        OBVIOUS
    <2>1. Age(q.id, b.local_id) \in 1 .. Rank(c)
        BY <1>2, <1>3, QueryAges DEF b
    <2>2. Rank(c) \in Nat /\ Rank(d) \in Nat
        BY <1>2, <1>5, RankIsNat
    <2> QED BY <1>4, <1>5, <2>1, <2>2 DEF QueryOK, InWay
<1>8. pc' = [pc EXCEPT ![l] = "try"]
    BY <1>1 DEF SocketFails, IdsInv, TypesOK
<1>9. UNCHANGED <<resolv, edits, conf, first_init_nameserver, nameservers, nameserver,
                  searchdomains, ns, id, running, asked, accepted>>
    BY DEF SocketFails, list
<1>10. OthersOK'
    BY <1>9 DEF IdsInv, TypesOK, OthersOK
<1> QED BY <1>5, <1>6, <1>7, <1>8, <1>9, <1>10, Moved DEF IdsInv, TypesOK

LEMMA UnreachableIds ==
    ASSUME IdsInv, NEW l \in Lookups, Unreachable(l)
    PROVE  IdsInv'
<1>1. Retries(l) /\ pc[l] = "try"
    BY DEF Unreachable, Retries, InLoop
<1> PICK c : c = ctx[l]
    OBVIOUS
<1>2. /\ LookupOK("try", c)
      /\ \A q \in asked : q.by = l => QueryOK(q, "try", c) /\ q \in Query
    BY <1>1, OnItsWay DEF InWay
<1>3. PICK t \in {MAX_RETRIES, nRetries} : c.retries < t
    BY <1>1, LimitOfTries DEF IdsInv
<1> DEFINE b == NextId(c)
<1>4. /\ LookupOK("try", b) /\ Rank(b) = Rank(c)
      /\ ~ c.sync => LookupOK("unreachable", b)
      /\ b.sync = c.sync
    BY <1>2, NextIdOK DEF InWay
<1>5. \A q \in asked : q.by = l => Age(q.id, b.local_id) \in 1 .. Rank(c)
    BY <1>2, <1>3, QueryAges
<1>6. UNCHANGED <<resolv, edits, conf, first_init_nameserver, nameservers, nameserver,
                  searchdomains, ns, id, asked, accepted>>
    BY DEF Unreachable, list
<1>7. Rank(c) \in Nat
    BY <1>2, RankIsNat
<1>8. CASE c.sync
    <2> DEFINE d == NextServer(b)
    <2>1. LookupOK("try", d) /\ d.local_id = b.local_id /\ Rank(d) >= Rank(b) + 1
        BY <1>4, NextServerOK
    <2>2. ctx' = [ctx EXCEPT ![l] = d] /\ UNCHANGED <<running, pc>>
        BY <1>4, <1>8 DEF Unreachable
    <2> HIDE DEF d, b
    <2>3. \A q \in asked : q.by = l => QueryOK(q, "try", d)
        <3>1. Rank(d) \in Nat
            BY <2>1, RankIsNat
        <3> QED BY <1>4, <1>5, <1>7, <2>1, <3>1 DEF QueryOK, InWay
    <2>4. OthersOK'
        BY <1>6, <2>2 DEF IdsInv, TypesOK, OthersOK
    <2>6. pc' = [pc EXCEPT ![l] = "try"]
        BY <1>1, <2>2 DEF IdsInv, TypesOK
    <2> QED BY <1>6, <2>1, <2>2, <2>3, <2>4, <2>6, Moved DEF IdsInv, TypesOK
<1>9. CASE ~ c.sync
    <2>1. /\ ctx' = [ctx EXCEPT ![l] = b]
          /\ pc' = [pc EXCEPT ![l] = "unreachable"]
          /\ running' = Null
        BY <1>4, <1>9 DEF Unreachable
    <2> HIDE DEF b
    <2>2. \A q \in asked : q.by = l => QueryOK(q, "unreachable", b)
        BY <1>4, <1>5, <1>7 DEF QueryOK, InWay
    <2>3. OthersOK'
        BY <1>6, <2>1 DEF IdsInv, TypesOK, OthersOK
    <2>4. LookupOK("unreachable", b)
        BY <1>4, <1>9
    <2> QED BY <1>6, <2>1, <2>2, <2>4, <2>3, Moved DEF IdsInv, TypesOK
<1> QED BY <1>8, <1>9
LEMMA AsksIds ==
    ASSUME IdsInv, NEW l \in Lookups, Asks(l), running' \in Lookups \cup {Null}
    PROVE  IdsInv'
<1>1. Retries(l) /\ pc[l] = "try"
    BY DEF Asks, Retries, InLoop
<1> PICK c : c = ctx[l]
    OBVIOUS
<1>2. /\ LookupOK("try", c)
      /\ \A q \in asked : q.by = l => QueryOK(q, "try", c) /\ q \in Query
    BY <1>1, OnItsWay DEF InWay
<1>3. PICK t \in {MAX_RETRIES, nRetries} : c.retries < t
    BY <1>1, LimitOfTries DEF IdsInv
<1> DEFINE b == NextId(c)
<1>4. /\ LookupOK("try", b) /\ LookupOK("select", b) /\ Rank(b) = Rank(c)
      /\ b \in Context /\ b.local_ns = c.local_ns
      /\ b.local_id \in 0 .. IdSpace - 1
    BY <1>2, NextIdOK DEF InWay
<1>5. \A q \in asked : q.by = l => Age(q.id, b.local_id) \in 1 .. Rank(c)
    BY <1>2, <1>3, QueryAges
<1>6. Rank(c) \in Nat
    BY <1>2, RankIsNat
<1> PICK s : s = nameserver[c.local_ns]
    OBVIOUS
<1>7. s \in Servers \cup {Null}
    <2>1. c.local_ns \in Index
        <3>1. c.nscount \in 1 .. MAX_SERVERS /\ c.local_ns \in 0 .. c.nscount - 1
            BY <1>2 DEF LookupOK, InWay
        <3>2. MAX_SERVERS \in Nat
            BY DnsLookupAssumption
        <3> QED BY <3>1, <3>2 DEF Index
    <2> QED BY <2>1 DEF IdsInv, TypesOK, OthersOK
<1> DEFINE d == [b EXCEPT !.server = s]
           new == [by |-> l, server |-> d.server, id |-> d.local_id, variant |-> d.variant]
<1>8. /\ ctx' = [ctx EXCEPT ![l] = d]
      /\ asked' = asked \cup {new}
      /\ pc' = [pc EXCEPT ![l] = "select"]
      /\ UNCHANGED <<resolv, edits, conf, first_init_nameserver, nameservers, nameserver,
                     searchdomains, ns, id, accepted>>
    BY DEF Asks, list
<1> HIDE DEF b
<1>9. /\ d \in Context /\ d.local_id = b.local_id /\ d.server = s
      /\ d.variant = b.variant /\ d.nscount = b.nscount /\ d.local_ns = b.local_ns
      /\ d.retries = b.retries /\ d.choice = b.choice
    BY <1>4, <1>7 DEF Context
<1>10. LookupOK("select", d) /\ Rank(d) = Rank(c)
    <2> HIDE DEF d
    <2> QED BY <1>4, <1>9 DEF LookupOK, InWay, Rank, Round
<1>11. new \in Query
    <2> HIDE DEF d
    <2> QED BY <1>4, <1>7, <1>9 DEF Query, Context
<1>12. \A q \in asked' : q.by = l => QueryOK(q, "select", d)
    <2> SUFFICES ASSUME NEW q \in asked', q.by = l
                 PROVE  QueryOK(q, "select", d)
        OBVIOUS
    <2>1. CASE q \in asked
        <3>1. Age(q.id, b.local_id) \in 1 .. Rank(c)
            BY <1>5, <2>1
        <3> HIDE DEF d
        <3> QED BY <1>6, <1>9, <1>10, <3>1 DEF QueryOK, InWay
    <2>2. CASE q = new
        <3>1. q.server = d.server /\ q.variant = d.variant /\ q.id = d.local_id
            BY <2>2
        <3>2. Age(q.id, d.local_id) = 0
            BY <1>4, <1>9, <3>1, AgeIsNat
        <3> HIDE DEF d
        <3> QED BY <1>6, <1>10, <3>1, <3>2 DEF QueryOK, InWay
    <2> QED BY <1>8, <2>1, <2>2
<1>13. \A q \in asked' : q.by # l => q \in asked
    BY <1>8
<1> HIDE DEF d, new
<1>14. OthersOK'
    BY <1>8, <1>11 DEF IdsInv, TypesOK, OthersOK
<1>16. UNCHANGED accepted
    BY <1>8
<1> QED BY <1>8, <1>10, <1>12, <1>13, <1>14, <1>16, Moved DEF IdsInv, TypesOK

\* An answer that is not taken, and the end of a sleep, lead to the next try.
LEMMA TriesAgain ==
    ASSUME IdsInv, NEW l \in Lookups, pc[l] \in {"select", "unreachable"},
           NEW d, LookupOK("try", d), d.local_id = ctx[l].local_id,
           Rank(d) >= Rank(ctx[l]) + 1,
           ctx' = [ctx EXCEPT ![l] = d],
           pc' = [pc EXCEPT ![l] = "try"],
           running' = l,
           asked' \subseteq asked,
           UNCHANGED <<resolv, edits, conf, first_init_nameserver, nameservers, nameserver,
                       searchdomains, ns, id, accepted>>
    PROVE  IdsInv'
<1> PICK c : c = ctx[l]
    OBVIOUS
<1>1. /\ LookupOK("try", c)
      /\ \A q \in asked : q.by = l => QueryOK(q, pc[l], c) /\ q \in Query
    BY OnItsWay DEF InWay
<1>2. Rank(c) \in Nat /\ Rank(d) \in Nat
    BY <1>1, RankIsNat
<1>3. \A q \in asked' : q.by = l => QueryOK(q, "try", d)
    <2> SUFFICES ASSUME NEW q \in asked', q.by = l
                 PROVE  QueryOK(q, "try", d)
        OBVIOUS
    <2>1. q \in Query /\ Age(q.id, c.local_id) <= Rank(c)
        BY <1>1 DEF QueryOK
    <2>2. q.id \in 0 .. IdSpace - 1 /\ c.local_id \in 0 .. IdSpace - 1
        BY <1>1, <2>1 DEF Query, LookupOK, InWay
    <2>3. Age(q.id, c.local_id) \in 0 .. IdSpace - 1
        BY <2>2, AgeIsNat, Zenon
    <2> QED BY <1>2, <2>1, <2>3 DEF QueryOK, InWay
<1>4. OthersOK'
    BY DEF IdsInv, TypesOK, OthersOK
<1>5. UNCHANGED accepted /\ \A q \in asked' : q.by # l => q \in asked
    OBVIOUS
<1>6. accepted' \in [Lookups -> Query \cup {Null}]
    BY <1>5 DEF IdsInv, TypesOK
<1>7. \A k \in Lookups : k # l => accepted'[k] = accepted[k]
    BY <1>5
<1> QED BY <1>3, <1>4, <1>5, <1>6, <1>7, Moved

LEMMA TimedOutIds ==
    ASSUME IdsInv, NEW l \in Lookups, TimedOut(l)
    PROVE  IdsInv'
<1>1. pc[l] \in {"select", "unreachable"}
    BY DEF TimedOut, Sleeps, Waits
<1>2. LookupOK("try", ctx[l])
    BY <1>1, OnItsWay DEF InWay
<1> PICK d : d = NextServer(ctx[l])
    OBVIOUS
<1>3. LookupOK("try", d) /\ d.local_id = ctx[l].local_id /\ Rank(d) >= Rank(ctx[l]) + 1
    BY <1>2, NextServerOK
<1>4. /\ ctx' = [ctx EXCEPT ![l] = d]
      /\ pc' = [pc EXCEPT ![l] = "try"]
      /\ running' = l
      /\ asked' \subseteq asked
      /\ UNCHANGED <<resolv, edits, conf, first_init_nameserver, nameservers, nameserver,
                     searchdomains, ns, id, accepted>>
    BY DEF TimedOut, list
<1> QED BY <1>1, <1>3, <1>4, TriesAgain

\* The end of a lookup.
LEMMA EndsIds ==
    ASSUME IdsInv, NEW l \in Lookups, pc[l] \in {"try", "select"},
           NEW w \in {"found", "failed"}, Ends(l, w), UNCHANGED ctx,
           accepted' \in [Lookups -> Query \cup {Null}],
           \A k \in Lookups : k # l => accepted'[k] = accepted[k],
           w = "found" => /\ accepted'[l].server = ctx[l].server
                          /\ accepted'[l].variant = ctx[l].variant
    PROVE  IdsInv'
<1> PICK c : c = ctx[l]
    OBVIOUS
<1>1. LookupOK("try", c)
    BY OnItsWay DEF InWay
<1>2. LookupOK(w, c)
    BY <1>1 DEF LookupOK, InWay, Place
<1>3. pc' = [pc EXCEPT ![l] = w]
    BY DEF Ends
<1>4. ctx' = [ctx EXCEPT ![l] = c]
    BY DEF IdsInv, TypesOK
<1>5. asked' = {q \in asked : q.by # l}
    BY DEF Ends
<1>6. OthersOK'
    <2>1. c.local_ns \in Index /\ c.local_id \in 0 .. IdSpace - 1
        <3>1. /\ c.nscount \in 1 .. MAX_SERVERS /\ c.local_ns \in 0 .. c.nscount - 1
              /\ c.local_id \in 0 .. IdSpace - 1
            BY <1>1 DEF LookupOK, InWay
        <3>2. MAX_SERVERS \in Nat
            BY DnsLookupAssumption
        <3> QED BY <3>1, <3>2 DEF Index
    <2>2. c.backup \in Servers \cup {Null}
        BY <1>1 DEF LookupOK, Context
    <2>3. OthersOK
        BY DEF IdsInv, TypesOK
    <2>4. nameserver' \in [Index -> Servers \cup {Null}]
        BY <2>2, <2>3 DEF Ends, Restored, OthersOK
    <2> QED BY <1>5, <2>1, <2>3, <2>4 DEF Ends, CountersWritten, OthersOK
<1>8. \A q \in asked' : q.by # l => q \in asked
    BY <1>5
<1>9. \A q \in asked' : q.by = l => QueryOK(q, w, c)
    BY <1>5
<1> QED BY <1>2, <1>3, <1>4, <1>6, <1>8, <1>9, Moved

LEMMA GiveUpIds ==
    ASSUME IdsInv, NEW l \in Lookups, GiveUp(l)
    PROVE  IdsInv'
<1>1. pc[l] = "try" /\ Ends(l, "failed") /\ UNCHANGED <<ctx, accepted>>
    BY DEF GiveUp, InLoop
<1>2. accepted' \in [Lookups -> Query \cup {Null}]
    BY <1>1 DEF IdsInv, TypesOK
<1> QED BY <1>1, <1>2, EndsIds

LEMMA ReceivesIds ==
    ASSUME IdsInv, NEW l \in Lookups, Receives(l)
    PROVE  IdsInv'
<1> PICK q \in asked, positive \in BOOLEAN :
        /\ Waits(l)
        /\ q.by = l /\ q.server = ctx[l].server
        /\ IF Solicited(q, ctx[l]) /\ positive
           THEN /\ Ends(l, "found")
                /\ accepted' = [accepted EXCEPT ![l] = q]
                /\ UNCHANGED ctx
           ELSE /\ ctx' = [ctx EXCEPT ![l] = NextSearch(ctx[l])]
                /\ pc' = [pc EXCEPT ![l] = "try"]
                /\ running' = l
                /\ asked' = asked \ {q}
                /\ UNCHANGED <<resolv, edits, list, ns, id, accepted, history>>
    BY DEF Receives
<1> PICK c : c = ctx[l]
    OBVIOUS
<1>1. pc[l] = "select"
    BY DEF Waits
<1>2. LookupOK("try", c) /\ QueryOK(q, "select", c) /\ q \in Query
    BY <1>1, OnItsWay DEF InWay
<1>3. CASE Solicited(q, ctx[l]) /\ positive
    <2>1. Ends(l, "found") /\ accepted' = [accepted EXCEPT ![l] = q] /\ UNCHANGED ctx
        BY <1>3
    <2>2. accepted \in [Lookups -> Query \cup {Null}]
        BY DEF IdsInv, TypesOK
    <2>3. /\ accepted' \in [Lookups -> Query \cup {Null}]
          /\ accepted'[l] = q
          /\ \A k \in Lookups : k # l => accepted'[k] = accepted[k]
        BY <1>2, <2>1, <2>2
    <2>4. q.id = c.local_id /\ c.local_id \in 0 .. IdSpace - 1
        BY <1>2, <1>3 DEF Solicited, LookupOK, InWay
    <2>5. Age(q.id, c.local_id) = 0
        BY <2>4, AgeIsNat
    <2>6. q.server = c.server /\ q.variant = c.variant
        BY <1>2, <2>5 DEF QueryOK
    <2>7. pc[l] \in {"try", "select"}
        BY <1>1
    <2> QED BY <2>1, <2>3, <2>6, <2>7, EndsIds
<1>4. CASE ~ (Solicited(q, ctx[l]) /\ positive)
    <2> PICK d : d = NextSearch(c)
        OBVIOUS
    <2>1. searchdomains \in 0 .. MAX_SEARCH
        BY DEF IdsInv, TypesOK, OthersOK
    <2>2. LookupOK("try", d) /\ d.local_id = c.local_id /\ Rank(d) >= Rank(c) + 1
        BY <1>2, <2>1, NextSearchOK
    <2>3. /\ ctx' = [ctx EXCEPT ![l] = d]
          /\ pc' = [pc EXCEPT ![l] = "try"]
          /\ running' = l
          /\ asked' \subseteq asked
          /\ UNCHANGED <<resolv, edits, conf, first_init_nameserver, nameservers, nameserver,
                         searchdomains, ns, id, accepted>>
        BY <1>4 DEF list
    <2>4. pc[l] \in {"select", "unreachable"}
        BY <1>1
    <2> QED BY <2>2, <2>3, <2>4, TriesAgain
<1> QED BY <1>3, <1>4
-----------------------------------------------------------------------------
(* The start of a lookup, and the application *)

LEMMA NoContextOK == NoContext \in Context /\ NoContext.variant = -1
<1>1. -1 \in {-1} \cup Index /\ -1 \in {-1} \cup 0 .. IdSpace - 1 /\ -1 \in Int
    OBVIOUS
<1>2. 0 \in 0 .. 2 /\ 0 \in Nat /\ 0 \in 0 .. MAX_SERVERS
    BY DnsLookupAssumption
<1> QED BY <1>1, <1>2 DEF NoContext, Context

LEMMA FilesOK ==
    ASSUME NEW f \in Files
    PROVE  /\ f.servers \in Seq(Servers) /\ Len(f.servers) \in 0 .. MAX_SERVERS
           /\ \A i \in Nat : i < Len(f.servers) => f.servers[i + 1] \in Servers
           /\ f.search \in 0 .. MAX_SEARCH
<1>1. f \in [servers : Seq(Servers), search : 0 .. MAX_SEARCH]
    BY DnsLookupAssumption
<1>2. f.servers \in Seq(Servers) /\ f.search \in 0 .. MAX_SEARCH
    BY <1>1
<1>3. Len(f.servers) \in Nat /\ Len(f.servers) <= MAX_SERVERS
    BY <1>2, DnsLookupAssumption
<1>4. \A i \in Nat : i < Len(f.servers) => f.servers[i + 1] \in Servers
    BY <1>2, <1>3
<1> QED BY <1>2, <1>3, <1>4, DnsLookupAssumption

LEMMA OpenedOK ==
    ASSUME OthersOK
    PROVE  [i \in Index |-> Opened(i)] \in [Index -> Servers \cup {Null}]
<1>1. \A i \in Index : Opened(i) \in Servers \cup {Null}
    BY FilesOK DEF OthersOK, Opened, Index
<1> QED BY <1>1

\* The variables a lookup starts with.
Started(choice, sync, nscount, backup) ==
    [[NoContext EXCEPT !.choice = choice, !.sync = sync,
                       !.nscount = nscount, !.backup = backup]
     EXCEPT !.local_ns = ns % nscount, !.local_id = id]

LEMMA StartedOK ==
    ASSUME OthersOK, NEW choice \in 0 .. 2, NEW sync \in BOOLEAN,
           NEW nscount \in 1 .. MAX_SERVERS, NEW backup \in Servers \cup {Null},
           choice # 0 => nscount = 1
    PROVE  LET d == Started(choice, sync, nscount, backup)
           IN  /\ LookupOK("try", d)
               /\ d.choice = choice /\ d.sync = sync /\ d.backup = backup
               /\ d.nscount = nscount
<1> DEFINE k == ns % nscount
           c == [NoContext EXCEPT !.choice = choice, !.sync = sync,
                                  !.nscount = nscount, !.backup = backup]
           d == [c EXCEPT !.local_ns = k, !.local_id = id]
<1>1. k \in 0 .. nscount - 1 /\ k \in Index
    <2>1. ns \in Nat /\ nscount \in Nat \ {0} /\ MAX_SERVERS \in Nat
        BY DnsLookupAssumption DEF OthersOK, Index
    <2>2. k \in 0 .. nscount - 1
        BY <2>1
    <2> QED BY <2>1, <2>2 DEF Index
<1>2. id \in 0 .. IdSpace - 1 /\ MAX_SERVERS \in Nat /\ MAX_SEARCH \in Nat
    BY DnsLookupAssumption DEF OthersOK
<1>3. /\ c \in Context /\ c.choice = choice /\ c.sync = sync
      /\ c.nscount = nscount /\ c.backup = backup /\ c.variant = -1
    <2>1. nscount \in 0 .. MAX_SERVERS
        BY <1>2
    <2> QED BY <2>1, NoContextOK DEF Context
<1> HIDE DEF k, c
<1>4. /\ d \in Context /\ d.choice = choice /\ d.sync = sync
      /\ d.nscount = nscount /\ d.backup = backup /\ d.variant = -1
      /\ d.local_ns = k /\ d.local_id = id
    BY <1>1, <1>2, <1>3 DEF Context
<1>5. d = Started(choice, sync, nscount, backup)
    BY DEF d, c, k, Started
<1> HIDE DEF d
<1>6. LookupOK("try", d)
    BY <1>1, <1>2, <1>4 DEF LookupOK, InWay, Place
<1> QED BY <1>4, <1>5, <1>6

LEMMA StartsIds ==
    ASSUME IdsInv, NEW l \in Lookups, pc[l] = "idle",
           NEW choice \in 0 .. 2, NEW sync \in BOOLEAN,
           NEW nsl \in [Index -> Servers \cup {Null}], NEW n \in 0 .. MAX_SERVERS,
           choice <= MAX_SERVERS,
           Starts(l, choice, sync, nsl, n),
           UNCHANGED <<resolv, edits, ns, id, asked, accepted>>,
           conf' \in Seq(Servers), Len(conf') <= MAX_SERVERS,
           first_init_nameserver' \in BOOLEAN,
           nameservers' \in 0 .. MAX_SERVERS,
           searchdomains' \in 0 .. MAX_SEARCH
    PROVE  IdsInv'
<1> DEFINE nscount == Count(choice, n)
<1>1. MAX_SERVERS \in Nat \ {0}
    BY DnsLookupAssumption
<1>2. 0 \in Index /\ (choice = 2 => 1 \in Index)
    BY <1>1 DEF Index
<1>3. nscount \in 0 .. MAX_SERVERS /\ (choice # 0 => nscount = 1)
    BY <1>1 DEF Count
<1>4. OthersOK
    BY DEF IdsInv, TypesOK
<1>5. \A q \in asked : q.by # l
    BY DEF IdsInv, QueryOK, InWay
<1>6. nsl[0] \in Servers \cup {Null} /\ Head0(choice, nsl) \in Servers \cup {Null}
    BY <1>2 DEF Head0
<1>7. accepted' \in [Lookups -> Query \cup {Null}]
    BY DEF IdsInv, TypesOK
<1>8. CASE nscount = 0
    <2> DEFINE c == [NoContext EXCEPT !.choice = choice, !.sync = sync,
                                      !.nscount = nscount, !.backup = nsl[0]]
    <2>1. /\ ctx' = [ctx EXCEPT ![l] = c]
          /\ pc' = [pc EXCEPT ![l] = "failed"]
          /\ nameserver' = nsl
          /\ UNCHANGED running
        BY <1>8 DEF Starts
    <2>2. c \in Context
        BY <1>3, <1>6, NoContextOK DEF Context
    <2> HIDE DEF c
    <2>3. LookupOK("failed", c)
        BY <2>2 DEF LookupOK, InWay, Place
    <2>4. OthersOK'
        BY <1>4, <2>1 DEF OthersOK
    <2>6. \A q \in asked' : q.by = l => QueryOK(q, "failed", c)
        BY <1>5
    <2>7. \A q \in asked' : q.by # l => q \in asked
        OBVIOUS
    <2> QED BY <1>7, <2>1, <2>3, <2>4, <2>6, <2>7, Moved
<1>9. CASE nscount # 0
    <2> DEFINE c == Started(choice, sync, nscount, nsl[0])
    <2>1. /\ ctx' = [ctx EXCEPT ![l] = c]
          /\ pc' = [pc EXCEPT ![l] = "try"]
          /\ nameserver' = [nsl EXCEPT ![0] = Head0(choice, nsl)]
          /\ running' = l
        BY <1>9 DEF Starts, Started
    <2>2. LookupOK("try", c)
        <3>1. nscount \in 1 .. MAX_SERVERS
            BY <1>1, <1>3, <1>9
        <3> HIDE DEF nscount
        <3> QED BY <1>3, <1>4, <1>6, <3>1, StartedOK
    <2> HIDE DEF c
    <2>3. OthersOK'
        BY <1>4, <1>6, <2>1 DEF OthersOK
    <2>5. \A q \in asked' : q.by = l => QueryOK(q, "try", c)
        BY <1>5
    <2>6. \A q \in asked' : q.by # l => q \in asked
        OBVIOUS
    <2> QED BY <1>7, <2>1, <2>2, <2>3, <2>5, <2>6, Moved
<1> QED BY <1>8, <1>9
LEMMA ListRead ==
    ASSUME OthersOK
    PROVE  /\ resolv.servers \in Seq(Servers) /\ Len(resolv.servers) \in 0 .. MAX_SERVERS
           /\ resolv.search \in 0 .. MAX_SEARCH
           /\ [i \in Index |-> Opened(i)] \in [Index -> Servers \cup {Null}]
<1>1. resolv \in Files
    BY DEF OthersOK
<1> QED BY <1>1, FilesOK, OpenedOK

LEMMA AsyncIds ==
    ASSUME IdsInv, NEW l \in Lookups, NEW choice \in 0 .. 2,
           gethostbyname_ext_async(l, choice)
    PROVE  IdsInv'
<1> DEFINE nsl == IF first_init_nameserver THEN [i \in Index |-> Opened(i)] ELSE nameserver
           n == IF first_init_nameserver THEN Len(resolv.servers) ELSE nameservers
<1>1. OthersOK
    BY DEF IdsInv, TypesOK
<1>2. nsl \in [Index -> Servers \cup {Null}] /\ n \in 0 .. MAX_SERVERS
    BY <1>1, ListRead DEF OthersOK
<1>3. /\ Starts(l, choice, FALSE, nsl, n)
      /\ pc[l] = "idle"
      /\ UNCHANGED <<resolv, edits, ns, id, asked, accepted>>
    BY DEF gethostbyname_ext_async, MayStart
<1>4. choice <= MAX_SERVERS
    <2>1. choice <= Len(IF first_init_nameserver THEN resolv.servers ELSE conf)
        BY DEF gethostbyname_ext_async, MayStart
    <2>2. Len(conf) \in Nat /\ MAX_SERVERS \in Nat
        BY <1>1, DnsLookupAssumption DEF OthersOK
    <2>3. CASE first_init_nameserver
        BY <1>1, <2>1, <2>2, <2>3, ListRead
    <2>4. CASE ~ first_init_nameserver
        BY <1>1, <2>1, <2>2, <2>4 DEF OthersOK
    <2> QED BY <2>3, <2>4
<1>5. conf' \in Seq(Servers) /\ Len(conf') <= MAX_SERVERS
    BY <1>1, ListRead DEF OthersOK, gethostbyname_ext_async
<1>6. first_init_nameserver' \in BOOLEAN
    BY DEF gethostbyname_ext_async
<1>7. nameservers' \in 0 .. MAX_SERVERS
    BY <1>2 DEF gethostbyname_ext_async
<1>8. searchdomains' \in 0 .. MAX_SEARCH
    BY <1>1, ListRead DEF OthersOK, gethostbyname_ext_async
<1>9. FALSE \in BOOLEAN
    OBVIOUS
<1> HIDE DEF nsl, n
<1> QED BY <1>2, <1>3, <1>4, <1>5, <1>6, <1>7, <1>8, <1>9, StartsIds

LEMMA SyncIds ==
    ASSUME IdsInv, NEW l \in Lookups, NEW choice \in 0 .. 2,
           gethostbyname_ext(l, choice)
    PROVE  IdsInv'
<1> DEFINE nsl == [i \in Index |-> Opened(i)]
           n == Len(resolv.servers)
<1>1. OthersOK
    BY DEF IdsInv, TypesOK
<1>2. nsl \in [Index -> Servers \cup {Null}] /\ n \in 0 .. MAX_SERVERS
    BY <1>1, ListRead
<1>3. /\ Starts(l, choice, TRUE, nsl, n)
      /\ pc[l] = "idle" /\ choice <= n
      /\ UNCHANGED <<resolv, edits, first_init_nameserver, ns, id, asked, accepted>>
    BY DEF gethostbyname_ext, MayStart
<1>4. choice <= MAX_SERVERS
    BY <1>2, <1>3, DnsLookupAssumption
<1>5. conf' \in Seq(Servers) /\ Len(conf') <= MAX_SERVERS
    BY <1>1, ListRead DEF gethostbyname_ext
<1>6. first_init_nameserver' \in BOOLEAN
    BY <1>1, <1>3 DEF OthersOK
<1>7. nameservers' \in 0 .. MAX_SERVERS
    BY <1>2 DEF gethostbyname_ext
<1>8. searchdomains' \in 0 .. MAX_SEARCH
    BY <1>1, ListRead DEF OthersOK, gethostbyname_ext
<1>9. TRUE \in BOOLEAN
    OBVIOUS
<1> HIDE DEF nsl, n
<1> QED BY <1>2, <1>3, <1>4, <1>5, <1>6, <1>7, <1>8, <1>9, StartsIds

\* The application leaves the lookups alone.
LEMMA LookupsKept ==
    ASSUME IdsInv, OthersOK', UNCHANGED <<pc, ctx, asked, accepted>>
    PROVE  IdsInv'
<1>1. TypesOK'
    BY DEF IdsInv, TypesOK
<1>2. AnswersLastQuery'
    BY DEF IdsInv, AnswersLastQuery
<1> QED BY <1>1, <1>2 DEF IdsInv

LEMMA ApplicationIds ==
    ASSUME IdsInv,
           \/ gethostbyname_ext_eloop_reconf
           \/ gethostbyname_ext_eloop_finalize
           \/ EditResolv
           \/ UNCHANGED vars
    PROVE  IdsInv'
<1>1. OthersOK
    BY DEF IdsInv, TypesOK
<1>2. CASE gethostbyname_ext_eloop_reconf
    <2>1. nameserver' \in [Index -> Servers \cup {Null}]
        <3> DEFINE e(i) == IF i < Len(resolv.servers)
                           THEN resolv.servers[i + 1]
                           ELSE IF ~ first_init_nameserver /\ i < nameservers
                                THEN Null
                                ELSE nameserver[i]
        <3>1. \A i \in Index : e(i) \in Servers \cup {Null}
            BY <1>1, FilesOK DEF OthersOK, Index
        <3>2. nameserver' = [i \in Index |-> e(i)]
            BY <1>2 DEF gethostbyname_ext_eloop_reconf
        <3> HIDE DEF e
        <3> QED BY <3>1, <3>2
    <2>2. conf' = resolv.servers /\ nameservers' = Len(resolv.servers)
        BY <1>2 DEF gethostbyname_ext_eloop_reconf
    <2>3. /\ resolv.servers \in Seq(Servers) /\ Len(resolv.servers) \in 0 .. MAX_SERVERS
          /\ resolv.search \in 0 .. MAX_SEARCH
        BY <1>1, ListRead
    <2>4. searchdomains' \in 0 .. MAX_SEARCH /\ first_init_nameserver' \in BOOLEAN
        BY <1>1, <1>2, <2>3 DEF OthersOK, gethostbyname_ext_eloop_reconf
    <2>5. UNCHANGED <<resolv, edits, ns, id, running, pc, ctx, asked, accepted>>
        BY <1>2 DEF gethostbyname_ext_eloop_reconf
    <2>6. conf' \in Seq(Servers) /\ Len(conf') <= MAX_SERVERS
        BY <2>2, <2>3
    <2>7. OthersOK'
        BY <1>1, <2>1, <2>2, <2>3, <2>4, <2>5, <2>6 DEF OthersOK
    <2> QED BY <2>5, <2>7, LookupsKept
<1>3. CASE gethostbyname_ext_eloop_finalize
    <2>1. nameserver' \in [Index -> Servers \cup {Null}]
        BY <1>1, <1>3 DEF OthersOK, gethostbyname_ext_eloop_finalize
    <2>2. OthersOK'
        BY <1>1, <1>3, <2>1, DnsLookupAssumption
        DEF OthersOK, gethostbyname_ext_eloop_finalize
    <2> QED BY <1>3, <2>2, LookupsKept DEF gethostbyname_ext_eloop_finalize
<1>4. CASE EditResolv
    <2>1. OthersOK'
        BY <1>1, <1>4, DnsLookupAssumption DEF OthersOK, EditResolv, list
    <2> QED BY <1>4, <2>1, LookupsKept DEF EditResolv
<1>5. CASE UNCHANGED vars
    <2>1. OthersOK'
        BY <1>1, <1>5 DEF OthersOK, vars, list
    <2> QED BY <1>5, <2>1, LookupsKept DEF vars
<1> QED BY <1>2, <1>3, <1>4, <1>5

LEMMA IdsInvInit == Init => IdsInv
<1> SUFFICES ASSUME Init PROVE IdsInv
    OBVIOUS
<1>1. OthersOK
    <2>1. /\ 0 \in 0 .. MaxEdits /\ 0 \in 0 .. MAX_SERVERS /\ 0 \in 0 .. MAX_SEARCH
          /\ 0 \in Index /\ 0 <= MAX_SERVERS /\ IdSpace \in Nat /\ IdSpace > 1
        BY DnsLookupAssumption DEF Index
    <2>2. 1 \in 0 .. IdSpace - 1
        BY <2>1
    <2>3. <<>> \in Seq(Servers) /\ Len(<<>>) = 0
        OBVIOUS
    <2> QED BY <2>1, <2>2, <2>3 DEF OthersOK, Init
<1>2. TypesOK
    BY <1>1, NoContextOK DEF TypesOK, Init, Place
<1>3. \A l \in Lookups : LookupOK(pc[l], ctx[l])
    BY NoContextOK DEF LookupOK, Init, Place, InWay
<1>4. AnswersLastQuery /\ asked = {}
    BY DEF AnswersLastQuery, Init
<1> QED BY <1>2, <1>3, <1>4 DEF IdsInv

LEMMA IdsInvStep == IdsInv /\ [Next]_vars => IdsInv'
<1> SUFFICES ASSUME IdsInv, [Next]_vars
             PROVE  IdsInv'
    OBVIOUS
<1>1. CASE \/ gethostbyname_ext_eloop_reconf
           \/ gethostbyname_ext_eloop_finalize
           \/ EditResolv
           \/ UNCHANGED vars
    BY <1>1, ApplicationIds
<1>2. ASSUME NEW l \in Lookups, NEW choice \in 0 .. 2, gethostbyname_ext_async(l, choice)
      PROVE  IdsInv'
    BY <1>2, AsyncIds
<1>3. ASSUME NEW l \in Lookups, NEW choice \in 0 .. 2, gethostbyname_ext(l, choice)
      PROVE  IdsInv'
    BY <1>3, SyncIds
<1>4. ASSUME NEW l \in Lookups, Step(l)
      PROVE  IdsInv'
    <2>1. CASE GiveUp(l)
        BY <2>1, GiveUpIds
    <2>2. CASE SocketFails(l)
        BY <2>2, SocketFailsIds
    <2>3. CASE Unreachable(l)
        BY <2>3, UnreachableIds
    <2>4. CASE SendsAndBlocks(l)
        <3>1. running' \in Lookups \cup {Null}
            BY <2>4 DEF SendsAndBlocks, IdsInv, TypesOK, OthersOK
        <3> QED BY <2>4, <3>1, AsksIds DEF SendsAndBlocks
    <2>5. CASE SendsAndSleeps(l)
        BY <2>5, AsksIds DEF SendsAndSleeps
    <2> QED BY <1>4, <2>1, <2>2, <2>3, <2>4, <2>5 DEF Step
<1>5. ASSUME NEW l \in Lookups, TimedOut(l)
      PROVE  IdsInv'
    BY <1>5, TimedOutIds
<1>6. ASSUME NEW l \in Lookups, Receives(l)
      PROVE  IdsInv'
    BY <1>6, ReceivesIds
<1> QED BY <1>1, <1>2, <1>3, <1>4, <1>5, <1>6 DEF Next

\* The answer a lookup returns is the one to its last query, however late the
\* answers to its earlier queries come: a lookup ends before it has used the
\* ids of all its tries up (__dns_lookup, __dns_lookup_async).
THEOREM AnswersAreSolicited == Spec => []AnswersLastQuery
<1>1. IdsInv => AnswersLastQuery
    BY DEF IdsInv
<1> QED BY <1>1, IdsInvInit, IdsInvStep, PTL DEF Spec
-----------------------------------------------------------------------------
(* The list of nameservers *)

\* The head that the lookups of a set leave while they are under way.
HeadUnder(S) == IF \E k \in S : UnderWay(k) /\ ctx[k].choice = 2 THEN conf[2] ELSE conf[1]

\* The heads are kept as on a stack: each lookup has put aside the one that the
\* lookups before it have left.
HeadsInOrder ==
    /\ Len(conf) >= 1 => nameserver[0] = HeadUnder(Lookups)
    /\ \A k \in Lookups : UnderWay(k) =>
           /\ Len(conf) >= 1
           /\ ctx[k].choice <= Len(conf)
           /\ ctx[k].backup = HeadUnder(before[k])

\* The list is the one read last but for its head.
ListInv ==
    /\ nameservers = Len(conf)
    /\ \A i \in 1 .. Len(conf) - 1 : nameserver[i] = conf[i + 1]
    /\ before \in [Lookups -> SUBSET Lookups]
    /\ \A k \in Lookups : UnderWay(k) =>
           /\ ctx[k].sync => running = k
           /\ first_init_nameserver => ctx[k].sync
           /\ \A m \in before[k] : pc[m] # "idle"
    /\ \A k, m \in Lookups : UnderWay(k) /\ UnderWay(m) /\ k # m =>
           k \in before[m] \/ m \in before[k]
    /\ ~ crossed => HeadsInOrder

\* A step of a lookup on its way.
LEMMA ListKept ==
    ASSUME IdsInv, ListInv, NEW l \in Lookups, UnderWay(l), running \in {l, Null},
           NEW w \in InWay, NEW c,
           c.choice = ctx[l].choice, c.backup = ctx[l].backup, c.sync = ctx[l].sync,
           pc' = [pc EXCEPT ![l] = w],
           ctx' = [ctx EXCEPT ![l] = c],
           c.sync => running' = l,
           UNCHANGED <<conf, nameservers, nameserver, first_init_nameserver, history>>
    PROVE  ListInv'
<1>1. Null \notin Lookups
    BY DnsLookupAssumption
<1>2. pc \in [Lookups -> Place] /\ ctx \in [Lookups -> Context]
    BY DEF IdsInv, TypesOK
<1>3. /\ pc'[l] = w /\ ctx'[l] = c
      /\ \A k \in Lookups : k # l => pc'[k] = pc[k] /\ ctx'[k] = ctx[k]
    BY <1>2
<1>4. /\ \A k \in Lookups : UnderWay(k)' <=> UnderWay(k)
      /\ \A k \in Lookups : (pc'[k] = "idle") <=> (pc[k] = "idle")
      /\ \A k \in Lookups : /\ ctx'[k].choice = ctx[k].choice
                            /\ ctx'[k].backup = ctx[k].backup
                            /\ ctx'[k].sync = ctx[k].sync
    <2>1. \A k \in Lookups : UnderWay(k)' <=> UnderWay(k)
        BY <1>3 DEF UnderWay, InWay
    <2>2. w # "idle" /\ pc[l] # "idle"
        BY DEF UnderWay, InWay
    <2>3. \A k \in Lookups : (pc'[k] = "idle") <=> (pc[k] = "idle")
        BY <1>3, <2>2
    <2>4. \A k \in Lookups : /\ ctx'[k].choice = ctx[k].choice
                             /\ ctx'[k].backup = ctx[k].backup
                             /\ ctx'[k].sync = ctx[k].sync
        BY <1>3
    <2> QED BY <2>1, <2>3, <2>4
<1>5. \A k \in Lookups : UnderWay(k) /\ ctx[k].sync => running' = k
    BY <1>1 DEF ListInv
<1>6. /\ UNCHANGED <<before, crossed>> /\ before \in [Lookups -> SUBSET Lookups]
    BY DEF history, ListInv
<1>7. \A S \in SUBSET Lookups : HeadUnder(S)' = HeadUnder(S)
    BY <1>4 DEF HeadUnder
<1>8. ~ crossed => HeadsInOrder'
    <2> SUFFICES ASSUME ~ crossed PROVE HeadsInOrder'
        OBVIOUS
    <2>1. HeadsInOrder
        BY DEF ListInv
    <2>2. /\ HeadUnder(Lookups)' = HeadUnder(Lookups)
          /\ \A k \in Lookups : HeadUnder(before[k])' = HeadUnder(before[k])
        BY <1>6, <1>7
    <2> QED BY <1>4, <1>6, <2>1, <2>2 DEF HeadsInOrder
<1>9. \A k \in Lookups : UnderWay(k)' =>
          /\ ctx'[k].sync => running' = k
          /\ first_init_nameserver' => ctx'[k].sync
          /\ \A m \in before'[k] : pc'[m] # "idle"
    BY <1>4, <1>5, <1>6 DEF ListInv
<1> QED BY <1>4, <1>6, <1>8, <1>9 DEF ListInv

\* The end of a lookup puts the head back that the others expect.
LEMMA ListEnds ==
    ASSUME IdsInv, ListInv, NEW l \in Lookups, UnderWay(l), running \in {l, Null},
           NEW w \in {"found", "failed"}, Ends(l, w), UNCHANGED ctx
    PROVE  ListInv'
<1>1. Null \notin Lookups
    BY DnsLookupAssumption
<1>2. /\ pc \in [Lookups -> Place] /\ nameserver \in [Index -> Servers \cup {Null}]
      /\ before \in [Lookups -> SUBSET Lookups]
    BY DEF IdsInv, TypesOK, OthersOK, ListInv
<1>3. /\ pc' = [pc EXCEPT ![l] = w]
      /\ nameserver' = [nameserver EXCEPT ![0] = ctx[l].backup]
      /\ UNCHANGED <<conf, nameservers, first_init_nameserver, before>>
      /\ crossed' = (crossed \/ CrossedByEnd(l))
    BY DEF Ends, Restored
<1>4. /\ \A k \in Lookups : UnderWay(k)' <=> UnderWay(k) /\ k # l
      /\ \A k \in Lookups : pc[k] # "idle" => pc'[k] # "idle"
    BY <1>2, <1>3 DEF UnderWay
<1>5. Len(conf) \in Nat /\ Len(conf) <= MAX_SERVERS /\ MAX_SERVERS \in Nat \ {0}
    BY DnsLookupAssumption DEF IdsInv, TypesOK, OthersOK
<1>6. \A i \in 1 .. Len(conf) - 1 : nameserver'[i] = conf[i + 1]
    <2>1. \A i \in 1 .. Len(conf) - 1 : i # 0 /\ i \in Index
        BY <1>5 DEF Index
    <2> QED BY <1>2, <1>3, <2>1 DEF ListInv
<1>7. \A k \in Lookups : UnderWay(k)' =>
          /\ ~ ctx'[k].sync /\ ~ first_init_nameserver'
          /\ \A m \in before'[k] : pc'[m] # "idle"
    <2>1. \A k \in Lookups : UnderWay(k)' =>
              /\ k # l /\ ~ ctx[k].sync /\ ~ first_init_nameserver
              /\ \A m \in before[k] : m \in Lookups /\ pc[m] # "idle"
        BY <1>1, <1>2, <1>4 DEF ListInv
    <2> QED BY <1>3, <1>4, <2>1
<1>8. ~ crossed' => HeadsInOrder'
    <2> SUFFICES ASSUME ~ crossed' PROVE HeadsInOrder'
        OBVIOUS
    <2>1. HeadsInOrder /\ ~ CrossedByEnd(l)
        BY <1>3 DEF ListInv
    <2>2. \A k \in Lookups : UnderWay(k) /\ k # l =>
              \/ k \in before[l]
              \/ ctx[k].choice # 2 /\ ctx[l].choice # 2
        BY <2>1 DEF ListInv, CrossedByEnd
    \* The head that the lookup found is the one that the others leave.
    <2>3. HeadUnder(before[l]) = HeadUnder(Lookups)'
        <3>1. (\E k \in before[l] : UnderWay(k) /\ ctx[k].choice = 2)
                  => \E k \in Lookups : UnderWay(k)' /\ ctx'[k].choice = 2
            <4> SUFFICES ASSUME NEW k \in before[l], UnderWay(k), ctx[k].choice = 2
                         PROVE  \E m \in Lookups : UnderWay(m)' /\ ctx'[m].choice = 2
                OBVIOUS
            <4>1. k \in Lookups
                BY <1>2
            <4>2. CASE k # l
                BY <1>4, <4>1, <4>2
            <4>3. CASE k = l
                BY <2>1, <4>1, <4>3 DEF CrossedByEnd
            <4> QED BY <4>2, <4>3
        <3>2. (\E k \in Lookups : UnderWay(k)' /\ ctx'[k].choice = 2)
                  => \E k \in before[l] : UnderWay(k) /\ ctx[k].choice = 2
            BY <1>4, <2>2
        <3> QED BY <1>3, <3>1, <3>2 DEF HeadUnder
    <2>4. \A k \in Lookups : UnderWay(k)' => HeadUnder(before[k])' = HeadUnder(before[k])
        <3> SUFFICES ASSUME NEW k \in Lookups, UnderWay(k)'
                     PROVE  HeadUnder(before[k])' = HeadUnder(before[k])
            OBVIOUS
        <3>1. l \in before[k] => ctx[l].choice # 2
            BY <1>4, <2>1 DEF CrossedByEnd
        <3>2. \A m \in before[k] : UnderWay(m)' /\ ctx'[m].choice = 2
                                       <=> UnderWay(m) /\ ctx[m].choice = 2
            BY <1>2, <1>4, <3>1
        <3> QED BY <1>3, <3>2 DEF HeadUnder
    <2>5. Len(conf) >= 1 /\ ctx[l].backup = HeadUnder(Lookups)'
        BY <2>1, <2>3 DEF HeadsInOrder
    <2>6. nameserver'[0] = HeadUnder(Lookups)'
        BY <1>2, <1>3, <1>5, <2>5 DEF Index
    <2>7. \A k \in Lookups : UnderWay(k)' =>
              /\ ctx'[k].choice <= Len(conf')
              /\ ctx'[k].backup = HeadUnder(before[k])'
        BY <1>3, <1>4, <2>1, <2>4 DEF HeadsInOrder
    <2> QED BY <1>3, <2>5, <2>6, <2>7 DEF HeadsInOrder
<1>9. \A k, m \in Lookups : UnderWay(k)' /\ UnderWay(m)' /\ k # m =>
          k \in before'[m] \/ m \in before'[k]
    BY <1>3, <1>4 DEF ListInv
<1> QED BY <1>2, <1>3, <1>6, <1>7, <1>8, <1>9 DEF ListInv

\* A lookup that starts: it finds the list in order, unless lookups crossed.
LEMMA ListStarts ==
    ASSUME IdsInv, ListInv, NEW l \in Lookups, NEW choice \in 0 .. 2,
           NEW sync \in BOOLEAN, NEW nsl \in [Index -> Servers \cup {Null}],
           NEW servers \in Seq(Servers), Len(servers) <= MAX_SERVERS,
           MayStart(l, choice, servers),
           Starts(l, choice, sync, nsl, Len(servers)),
           conf' = servers, nameservers' = Len(servers),
           \A i \in 1 .. Len(servers) - 1 : nsl[i] = servers[i + 1],
           first_init_nameserver' => sync /\ first_init_nameserver,
           ~ crossed' =>
               /\ Len(servers) >= 1 =>
                      nsl[0] = IF \E k \in Lookups : UnderWay(k) /\ ctx[k].choice = 2
                               THEN servers[2] ELSE servers[1]
               /\ (\E k \in Lookups : UnderWay(k)) => ~ crossed /\ servers = conf
    PROVE  ListInv'
<1>1. running = Null /\ pc[l] = "idle" /\ choice <= Len(servers)
    BY DEF MayStart
<1>2. /\ Null \notin Lookups /\ MAX_SERVERS \in Nat \ {0}
      /\ Len(servers) \in Nat
    BY DnsLookupAssumption
<1>3. /\ pc \in [Lookups -> Place] /\ ctx \in [Lookups -> Context]
      /\ before \in [Lookups -> SUBSET Lookups]
    BY DEF IdsInv, TypesOK, ListInv
<1>4. \A k \in Lookups : UnderWay(k) => /\ k # l
                                        /\ ~ ctx[k].sync
                                        /\ ~ first_init_nameserver
                                        /\ l \notin before[k]
    BY <1>1, <1>2 DEF ListInv, UnderWay
<1> DEFINE nscount == Count(choice, Len(servers))
<1>5. /\ nscount \in 0 .. MAX_SERVERS /\ (choice # 0 => nscount = 1)
      /\ nscount # 0 => Len(servers) >= 1
    BY <1>1, <1>2 DEF Count
<1>6. CASE nscount = 0
    <2>1. /\ pc' = [pc EXCEPT ![l] = "failed"] /\ nameserver' = nsl
          /\ UNCHANGED <<running, before>>
        BY <1>6 DEF Starts
    <2>2. \A k \in Lookups : k # l => ctx'[k] = ctx[k] /\ pc'[k] = pc[k]
        BY <1>3, <1>6, <2>1 DEF Starts
    <2>3. /\ \A k \in Lookups : UnderWay(k)' <=> UnderWay(k)
          /\ \A k \in Lookups : pc[k] # "idle" => pc'[k] # "idle"
        BY <1>1, <1>3, <2>1 DEF UnderWay
    <2>4. /\ \A S \in SUBSET Lookups : conf' = conf => HeadUnder(S)' = HeadUnder(S)
          /\ \A k \in Lookups : UnderWay(k) => ctx'[k] = ctx[k]
        BY <1>4, <2>2, <2>3 DEF HeadUnder
    <2>5. ~ crossed' => HeadsInOrder'
        <3> SUFFICES ASSUME ~ crossed' PROVE HeadsInOrder'
            OBVIOUS
        <3>1. Len(servers) >= 1 => nameserver'[0] = HeadUnder(Lookups)'
            BY <2>1, <2>3, <2>4 DEF HeadUnder
        <3>2. \A k \in Lookups : UnderWay(k)' =>
                  /\ Len(conf') >= 1 /\ ctx'[k].choice <= Len(conf')
                  /\ ctx'[k].backup = HeadUnder(before[k])'
            <4> SUFFICES ASSUME NEW k \in Lookups, UnderWay(k)'
                         PROVE  /\ Len(conf') >= 1 /\ ctx'[k].choice <= Len(conf')
                                /\ ctx'[k].backup = HeadUnder(before[k])'
                OBVIOUS
            <4>1. ~ crossed /\ conf' = conf /\ UnderWay(k) /\ HeadsInOrder
                BY <2>3 DEF ListInv
            <4>2. HeadUnder(before[k])' = HeadUnder(before[k])
                BY <1>3, <2>1, <2>4, <4>1
            <4> QED BY <2>4, <4>1, <4>2 DEF HeadsInOrder
        <3> QED BY <2>1, <3>1, <3>2 DEF HeadsInOrder
    <2>6. \A k \in Lookups : UnderWay(k)' =>
              /\ ~ ctx'[k].sync /\ ~ first_init_nameserver'
              /\ \A m \in before'[k] : pc'[m] # "idle"
        BY <1>3, <1>4, <2>1, <2>3, <2>4 DEF ListInv
    <2>7. \A k, m \in Lookups : UnderWay(k)' /\ UnderWay(m)' /\ k # m =>
              k \in before'[m] \/ m \in before'[k]
        BY <2>1, <2>3 DEF ListInv
    <2> QED BY <1>3, <2>1, <2>5, <2>6, <2>7 DEF ListInv
<1>7. CASE nscount # 0
    <2> DEFINE c == Started(choice, sync, nscount, nsl[0])
               others == {k \in Lookups : UnderWay(k)}
    <2>1. /\ ctx' = [ctx EXCEPT ![l] = c]
          /\ pc' = [pc EXCEPT ![l] = "try"]
          /\ nameserver' = [nsl EXCEPT ![0] = Head0(choice, nsl)]
          /\ running' = l
          /\ before' = [before EXCEPT ![l] = others]
        BY <1>7 DEF Starts, Started
    <2>2. Len(servers) >= 1 /\ nsl[0] \in Servers \cup {Null}
        BY <1>2, <1>5, <1>7 DEF Index
    <2>3. c.choice = choice /\ c.sync = sync /\ c.backup = nsl[0]
        <3>1. nscount \in 1 .. MAX_SERVERS /\ OthersOK
            BY <1>2, <1>5, <1>7 DEF IdsInv, TypesOK
        <3> HIDE DEF nscount
        <3> QED BY <1>5, <2>2, <3>1, StartedOK
    <2> HIDE DEF c
    <2>4. /\ ctx'[l] = c /\ pc'[l] = "try" /\ before'[l] = others
          /\ \A k \in Lookups : k # l => /\ ctx'[k] = ctx[k] /\ pc'[k] = pc[k]
                                         /\ before'[k] = before[k]
        BY <1>3, <2>1
    <2>5. /\ \A k \in Lookups : UnderWay(k)' <=> UnderWay(k) \/ k = l
          /\ \A k \in Lookups : pc[k] # "idle" => pc'[k] # "idle"
        BY <2>4 DEF UnderWay
    <2>6. \A i \in 1 .. Len(servers) - 1 : nameserver'[i] = servers[i + 1]
        <3>1. \A i \in 1 .. Len(servers) - 1 : i # 0 /\ i \in Index
            BY <1>2 DEF Index
        <3> QED BY <2>1, <3>1
    <2>7. ~ crossed' => HeadsInOrder'
        <3> SUFFICES ASSUME ~ crossed' PROVE HeadsInOrder'
            OBVIOUS
        <3> DEFINE second == \E k \in Lookups : UnderWay(k) /\ ctx[k].choice = 2
        <3>1. nsl[0] = IF second THEN servers[2] ELSE servers[1]
            BY <2>2
        <3>2. nameserver'[0] = IF choice = 2 \/ second THEN servers[2] ELSE servers[1]
            <4>1. nameserver'[0] = Head0(choice, nsl)
                BY <1>2, <2>1 DEF Index
            <4>2. choice = 2 => nsl[1] = servers[2]
                BY <1>1, <1>2
            <4> HIDE DEF second
            <4> QED BY <3>1, <4>1, <4>2 DEF Head0
        <3>3. (\E k \in Lookups : UnderWay(k)' /\ ctx'[k].choice = 2)
                  <=> choice = 2 \/ second
            BY <1>4, <2>3, <2>4, <2>5
        <3>4. nameserver'[0] = HeadUnder(Lookups)'
            BY <3>2, <3>3 DEF HeadUnder
        <3>5. c.backup = HeadUnder(before[l])'
            <4>1. (\E k \in others : UnderWay(k)' /\ ctx'[k].choice = 2) <=> second
                BY <1>4, <2>4, <2>5
            <4>2. before'[l] = others
                BY <2>4
            <4> HIDE DEF second, others
            <4> QED BY <2>3, <3>1, <4>1, <4>2 DEF HeadUnder
        <3>6. \A k \in Lookups : UnderWay(k) =>
                  /\ ctx'[k].choice <= Len(conf')
                  /\ ctx'[k].backup = HeadUnder(before[k])'
            <4> SUFFICES ASSUME NEW k \in Lookups, UnderWay(k)
                         PROVE  /\ ctx'[k].choice <= Len(conf')
                                /\ ctx'[k].backup = HeadUnder(before[k])'
                OBVIOUS
            <4>1. ~ crossed /\ conf' = conf /\ HeadsInOrder
                BY DEF ListInv
            <4>2. /\ ctx'[k] = ctx[k] /\ before'[k] = before[k]
                  /\ l \notin before[k] /\ before[k] \in SUBSET Lookups
                BY <1>3, <1>4, <2>4
            <4>3. \A m \in before[k] : UnderWay(m)' /\ ctx'[m].choice = 2
                                           <=> UnderWay(m) /\ ctx[m].choice = 2
                BY <1>4, <2>4, <2>5, <4>2
            <4>4. HeadUnder(before[k])' = HeadUnder(before[k])
                BY <4>1, <4>2, <4>3 DEF HeadUnder
            <4> QED BY <4>1, <4>2, <4>4 DEF HeadsInOrder
        <3> HIDE DEF second
        <3> QED BY <1>1, <2>2, <2>3, <2>4, <2>5, <3>4, <3>5, <3>6 DEF HeadsInOrder
    <2>8. \A k \in Lookups : UnderWay(k)' =>
              /\ ctx'[k].sync => running' = k
              /\ first_init_nameserver' => ctx'[k].sync
              /\ \A m \in before'[k] : pc'[m] # "idle"
        <3>1. \A m \in others : m \in Lookups /\ pc[m] # "idle"
            BY DEF UnderWay
        <3>2. /\ c.sync => running' = l
              /\ first_init_nameserver' => c.sync
              /\ \A m \in others : pc'[m] # "idle"
            BY <2>1, <2>3, <2>5, <3>1
        <3>3. \A k \in Lookups : UnderWay(k) =>
                  /\ k # l /\ ~ ctx'[k].sync /\ ~ first_init_nameserver'
                  /\ \A m \in before'[k] : pc'[m] # "idle"
            BY <1>3, <1>4, <2>4, <2>5 DEF ListInv
        <3> HIDE DEF others
        <3> QED BY <2>4, <2>5, <3>2, <3>3
    <2>9. /\ before' \in [Lookups -> SUBSET Lookups]
          /\ \A k, m \in Lookups : UnderWay(k)' /\ UnderWay(m)' /\ k # m =>
                 k \in before'[m] \/ m \in before'[k]
        BY <1>3, <2>1, <2>4, <2>5 DEF ListInv
    <2> QED BY <2>6, <2>7, <2>8, <2>9 DEF ListInv
<1> QED BY <1>6, <1>7

\* What a lookup finds in the list when it has just been read.
LEMMA OpenedServers ==
    ASSUME OthersOK
    PROVE  LET nsl == [i \in Index |-> Opened(i)]
           IN  /\ \A i \in 1 .. Len(resolv.servers) - 1 : nsl[i] = resolv.servers[i + 1]
               /\ ~ CrossedByReading =>
                      /\ Len(resolv.servers) >= 1 =>
                             nsl[0] = IF \E k \in Lookups : UnderWay(k) /\ ctx[k].choice = 2
                                    THEN resolv.servers[2] ELSE resolv.servers[1]
                      /\ (\E k \in Lookups : UnderWay(k)) => ~ crossed /\ resolv.servers = conf
<1>1. Len(resolv.servers) \in 0 .. MAX_SERVERS /\ MAX_SERVERS \in Nat
    BY ListRead, DnsLookupAssumption
<1>2. \A i \in 0 .. Len(resolv.servers) - 1 :
          i \in Index /\ Opened(i) = resolv.servers[i + 1]
    BY <1>1 DEF Opened, Index
<1>3. ~ CrossedByReading =>
          \A k \in Lookups : UnderWay(k) => /\ ctx[k].choice # 2 /\ ~ crossed
                                            /\ resolv.servers = conf
    BY DEF CrossedByReading
<1> QED BY <1>1, <1>2, <1>3

LEMMA AsyncList ==
    ASSUME IdsInv, ListInv, NEW l \in Lookups, NEW choice \in 0 .. 2,
           gethostbyname_ext_async(l, choice)
    PROVE  ListInv'
<1>1. OthersOK
    BY DEF IdsInv, TypesOK
<1>2. FALSE \in BOOLEAN /\ (first_init_nameserver' => FALSE /\ first_init_nameserver)
    BY DEF gethostbyname_ext_async
<1>3. CASE first_init_nameserver
    <2> DEFINE nsl == [i \in Index |-> Opened(i)]
               servers == resolv.servers
    <2>1. /\ MayStart(l, choice, servers)
          /\ Starts(l, choice, FALSE, nsl, Len(servers))
          /\ conf' = servers /\ nameservers' = Len(servers)
          /\ crossed' = CrossedByReading
        BY <1>3 DEF gethostbyname_ext_async
    <2>2. /\ nsl \in [Index -> Servers \cup {Null}]
          /\ servers \in Seq(Servers) /\ Len(servers) <= MAX_SERVERS
        BY <1>1, ListRead, DnsLookupAssumption
    <2>3. /\ \A i \in 1 .. Len(servers) - 1 : nsl[i] = servers[i + 1]
          /\ ~ crossed' =>
                 /\ Len(servers) >= 1 =>
                        nsl[0] = IF \E k \in Lookups : UnderWay(k) /\ ctx[k].choice = 2
                               THEN servers[2] ELSE servers[1]
                 /\ (\E k \in Lookups : UnderWay(k)) => ~ crossed /\ servers = conf
        BY <1>1, <2>1, OpenedServers
    <2> HIDE DEF nsl, servers
    <2> QED BY <1>2, <2>1, <2>2, <2>3, ListStarts
<1>4. CASE ~ first_init_nameserver
    <2>1. /\ MayStart(l, choice, conf)
          /\ Starts(l, choice, FALSE, nameserver, nameservers)
          /\ conf' = conf /\ nameservers' = nameservers /\ crossed' = crossed
        BY <1>4 DEF gethostbyname_ext_async
    <2>2. nameservers = Len(conf) /\ conf \in Seq(Servers) /\ Len(conf) <= MAX_SERVERS
        BY <1>1 DEF ListInv, OthersOK
    <2>3. nameserver \in [Index -> Servers \cup {Null}]
        BY <1>1 DEF OthersOK
    <2>5. /\ \A i \in 1 .. Len(conf) - 1 : nameserver[i] = conf[i + 1]
          /\ ~ crossed' =>
                 /\ Len(conf) >= 1 =>
                        nameserver[0] = IF \E k \in Lookups : UnderWay(k) /\ ctx[k].choice = 2
                               THEN conf[2] ELSE conf[1]
        BY <2>1 DEF ListInv, HeadsInOrder, HeadUnder
    <2>6. Starts(l, choice, FALSE, nameserver, Len(conf)) /\ nameservers' = Len(conf)
        BY <2>1, <2>2
    <2> QED BY <1>2, <2>1, <2>2, <2>3, <2>5, <2>6, ListStarts
<1> QED BY <1>3, <1>4

LEMMA SyncList ==
    ASSUME IdsInv, ListInv, NEW l \in Lookups, NEW choice \in 0 .. 2,
           gethostbyname_ext(l, choice)
    PROVE  ListInv'
<1> DEFINE nsl == [i \in Index |-> Opened(i)]
           servers == resolv.servers
<1>1. OthersOK
    BY DEF IdsInv, TypesOK
<1>2. /\ MayStart(l, choice, servers)
      /\ Starts(l, choice, TRUE, nsl, Len(servers))
      /\ conf' = servers /\ nameservers' = Len(servers)
      /\ crossed' = CrossedByReading
    BY DEF gethostbyname_ext
<1>3. /\ nsl \in [Index -> Servers \cup {Null}]
      /\ servers \in Seq(Servers) /\ Len(servers) <= MAX_SERVERS
    BY <1>1, ListRead, DnsLookupAssumption
<1>4. /\ \A i \in 1 .. Len(servers) - 1 : nsl[i] = servers[i + 1]
      /\ ~ crossed' =>
             /\ Len(servers) >= 1 =>
                    nsl[0] = IF \E k \in Lookups : UnderWay(k) /\ ctx[k].choice = 2
                           THEN servers[2] ELSE servers[1]
             /\ (\E k \in Lookups : UnderWay(k)) => ~ crossed /\ servers = conf
    BY <1>1, <1>2, OpenedServers
<1>5. TRUE \in BOOLEAN /\ (first_init_nameserver' => TRUE /\ first_init_nameserver)
    BY DEF gethostbyname_ext
<1> HIDE DEF nsl, servers
<1> QED BY <1>2, <1>3, <1>4, <1>5, ListStarts

LEMMA ApplicationList ==
    ASSUME IdsInv, ListInv,
           \/ gethostbyname_ext_eloop_reconf
           \/ gethostbyname_ext_eloop_finalize
           \/ EditResolv
           \/ UNCHANGED vars
    PROVE  ListInv'
<1>1. OthersOK
    BY DEF IdsInv, TypesOK
<1>2. CASE gethostbyname_ext_eloop_reconf
    <2>1. /\ UNCHANGED <<pc, before>> /\ \A k \in Lookups : ~ UnderWay(k)
          /\ conf' = resolv.servers /\ nameservers' = Len(resolv.servers)
        BY <1>2 DEF gethostbyname_ext_eloop_reconf
    <2>2. \A k \in Lookups : ~ UnderWay(k)'
        BY <2>1 DEF UnderWay
    <2>3. Len(resolv.servers) \in 0 .. MAX_SERVERS /\ MAX_SERVERS \in Nat
        BY <1>1, ListRead, DnsLookupAssumption
    <2>4. \A i \in 0 .. Len(resolv.servers) - 1 : nameserver'[i] = resolv.servers[i + 1]
        <3>1. \A i \in 0 .. Len(resolv.servers) - 1 :
                  i \in Index /\ i < Len(resolv.servers)
            BY <2>3 DEF Index
        <3> QED BY <1>2, <3>1 DEF gethostbyname_ext_eloop_reconf
    <2>5. /\ \A i \in 1 .. Len(resolv.servers) - 1 : nameserver'[i] = resolv.servers[i + 1]
          /\ Len(resolv.servers) >= 1 => nameserver'[0] = resolv.servers[1]
        BY <2>3, <2>4
    <2> QED BY <2>1, <2>2, <2>5 DEF ListInv, HeadsInOrder, HeadUnder
<1>3. CASE gethostbyname_ext_eloop_finalize
    <2>1. /\ UNCHANGED <<pc, before>> /\ \A k \in Lookups : ~ UnderWay(k)
          /\ conf' = <<>> /\ nameservers' = 0
        BY <1>3 DEF gethostbyname_ext_eloop_finalize
    <2>2. \A k \in Lookups : ~ UnderWay(k)'
        BY <2>1 DEF UnderWay
    <2>3. Len(conf') = 0
        BY <2>1
    <2> QED BY <2>1, <2>2, <2>3 DEF ListInv, HeadsInOrder, HeadUnder
<1>4. CASE EditResolv
    BY <1>4 DEF EditResolv, ListInv, HeadsInOrder, HeadUnder, UnderWay, list, history
<1>5. CASE UNCHANGED vars
    BY <1>5 DEF vars, ListInv, HeadsInOrder, HeadUnder, UnderWay, list, history
<1> QED BY <1>2, <1>3, <1>4, <1>5

LEMMA ListInvInit == Init => ListInv
<1> SUFFICES ASSUME Init PROVE ListInv
    OBVIOUS
<1>1. conf = <<>> /\ nameservers = 0 /\ Len(<<>>) = 0
    BY DEF Init
<1>2. \A k \in Lookups : ~ UnderWay(k)
    BY DEF Init, UnderWay
<1>3. before = [k \in Lookups |-> {}]
    BY DEF Init
<1> QED BY <1>1, <1>2, <1>3 DEF ListInv, HeadsInOrder, HeadUnder

LEMMA AsksList ==
    ASSUME IdsInv, ListInv, NEW l \in Lookups, Asks(l), ctx[l].sync => running' = l
    PROVE  ListInv'
<1>1. pc[l] = "try" /\ running = l /\ UnderWay(l)
    BY DEF Asks, Retries, InLoop, UnderWay
<1>2. LookupOK("try", ctx[l])
    BY <1>1, OnItsWay DEF InWay
<1> PICK b : b = NextId(ctx[l])
    OBVIOUS
<1>3. /\ b \in Context /\ b.choice = ctx[l].choice /\ b.backup = ctx[l].backup
      /\ b.sync = ctx[l].sync
    BY <1>2, NextIdOK
<1> DEFINE d == [b EXCEPT !.server = nameserver[ctx[l].local_ns]]
<1>4. d.choice = b.choice /\ d.backup = b.backup /\ d.sync = b.sync
    BY <1>3 DEF Context
<1>5. /\ ctx' = [ctx EXCEPT ![l] = d] /\ pc' = [pc EXCEPT ![l] = "select"]
      /\ UNCHANGED <<conf, nameservers, nameserver, first_init_nameserver, history>>
    BY DEF Asks, list
<1> HIDE DEF d
<1>6. "select" \in InWay /\ running \in {l, Null}
    BY <1>1 DEF InWay
<1> PICK e : e = d
    OBVIOUS
<1> QED BY <1>1, <1>3, <1>4, <1>5, <1>6, ListKept
\* A lookup that moves on in its loop.
LEMMA MovesList ==
    ASSUME IdsInv, ListInv, NEW l \in Lookups,
           SocketFails(l) \/ Unreachable(l) \/ TimedOut(l)
    PROVE  ListInv'
<1>1. /\ pc[l] \in InWay /\ UnderWay(l) /\ running \in {l, Null}
      /\ ctx[l].sync => running = l
    BY DEF SocketFails, Unreachable, Retries, InLoop, TimedOut, Sleeps, Waits, InWay,
           UnderWay, ListInv
<1> PICK c : c = ctx[l]
    OBVIOUS
<1>2. LookupOK("try", c)
    BY <1>1, OnItsWay
<1> PICK b : b = NextId(c)
    OBVIOUS
<1>3. /\ LookupOK("try", b) /\ b \in Context /\ b.choice = c.choice
      /\ b.backup = c.backup /\ b.sync = c.sync
    BY <1>2, NextIdOK DEF InWay
<1>4. UNCHANGED <<conf, nameservers, nameserver, first_init_nameserver, history>>
    BY DEF SocketFails, Unreachable, TimedOut, list
<1>5. pc \in [Lookups -> Place]
    BY DEF IdsInv, TypesOK
<1>6. CASE SocketFails(l)
    <2> DEFINE d == [b EXCEPT !.retries = @ + 1]
    <2>1. /\ ctx' = [ctx EXCEPT ![l] = d] /\ pc[l] = "try"
          /\ UNCHANGED <<running, pc>>
        BY <1>6 DEF SocketFails, Retries, InLoop
    <2>2. d.choice = c.choice /\ d.backup = c.backup /\ d.sync = c.sync
        BY <1>3 DEF Context
    <2> HIDE DEF d
    <2>3. pc' = [pc EXCEPT ![l] = "try"] /\ "try" \in InWay
        BY <1>5, <2>1 DEF InWay
    <2> QED BY <1>1, <1>4, <2>1, <2>2, <2>3, ListKept
<1>7. CASE Unreachable(l) /\ c.sync
    <2> PICK d : d = NextServer(b)
        OBVIOUS
    <2>1. /\ ctx' = [ctx EXCEPT ![l] = d] /\ pc[l] = "try"
          /\ UNCHANGED <<running, pc>>
        BY <1>3, <1>7 DEF Unreachable, Retries, InLoop
    <2>2. d.choice = c.choice /\ d.backup = c.backup /\ d.sync = c.sync
        BY <1>3, NextServerOK
    <2>3. pc' = [pc EXCEPT ![l] = "try"] /\ "try" \in InWay
        BY <1>5, <2>1 DEF InWay
    <2> QED BY <1>1, <1>4, <2>1, <2>2, <2>3, ListKept
<1>8. CASE Unreachable(l) /\ ~ c.sync
    <2>1. /\ ctx' = [ctx EXCEPT ![l] = b]
          /\ pc' = [pc EXCEPT ![l] = "unreachable"] /\ "unreachable" \in InWay
        BY <1>3, <1>8 DEF Unreachable, InWay
    <2> QED BY <1>1, <1>3, <1>4, <1>8, <2>1, ListKept
<1>9. CASE TimedOut(l)
    <2> PICK d : d = NextServer(c)
        OBVIOUS
    <2>1. d.choice = c.choice /\ d.backup = c.backup /\ d.sync = c.sync
        BY <1>2, NextServerOK
    <2>2. /\ ctx' = [ctx EXCEPT ![l] = d] /\ running' = l
          /\ pc' = [pc EXCEPT ![l] = "try"] /\ "try" \in InWay
        BY <1>9 DEF TimedOut, InWay
    <2> QED BY <1>1, <1>4, <2>1, <2>2, ListKept
<1> QED BY <1>6, <1>7, <1>8, <1>9

LEMMA ReceivesList ==
    ASSUME IdsInv, ListInv, NEW l \in Lookups, Receives(l)
    PROVE  ListInv'
<1>1. /\ pc[l] = "select" /\ UnderWay(l) /\ running \in {l, Null}
    BY DEF Receives, Waits, UnderWay
<1>2. CASE Ends(l, "found") /\ UNCHANGED ctx
    BY <1>1, <1>2, ListEnds
<1>3. CASE /\ ctx' = [ctx EXCEPT ![l] = NextSearch(ctx[l])]
           /\ pc' = [pc EXCEPT ![l] = "try"]
           /\ running' = l
           /\ UNCHANGED <<resolv, edits, list, ns, id, accepted, history>>
    <2> PICK c : c = ctx[l]
        OBVIOUS
    <2> PICK d : d = NextSearch(c)
        OBVIOUS
    <2>1. LookupOK("try", c)
        BY <1>1, OnItsWay DEF InWay
    <2>2. searchdomains \in 0 .. MAX_SEARCH
        BY DEF IdsInv, TypesOK, OthersOK
    <2>3. d.choice = c.choice /\ d.backup = c.backup /\ d.sync = c.sync
        BY <2>1, <2>2, NextSearchOK
    <2>4. "try" \in InWay /\ ctx' = [ctx EXCEPT ![l] = d]
        BY <1>3 DEF InWay
    <2>5. UNCHANGED <<conf, nameservers, nameserver, first_init_nameserver, history>>
        BY <1>3 DEF list
    <2> QED BY <1>1, <1>3, <2>3, <2>4, <2>5, ListKept
<1> QED BY <1>2, <1>3 DEF Receives

LEMMA ListInvStep ==
    ASSUME IdsInv, ListInv, [Next]_vars
    PROVE  ListInv'
<1>1. CASE \/ gethostbyname_ext_eloop_reconf
           \/ gethostbyname_ext_eloop_finalize
           \/ EditResolv
           \/ UNCHANGED vars
    BY <1>1, ApplicationList
<1>2. ASSUME NEW l \in Lookups, NEW choice \in 0 .. 2, gethostbyname_ext_async(l, choice)
      PROVE  ListInv'
    BY <1>2, AsyncList
<1>3. ASSUME NEW l \in Lookups, NEW choice \in 0 .. 2, gethostbyname_ext(l, choice)
      PROVE  ListInv'
    BY <1>3, SyncList
<1>4. ASSUME NEW l \in Lookups, Step(l)
      PROVE  ListInv'
    <2>1. CASE GiveUp(l)
        <3>1. UnderWay(l) /\ running \in {l, Null} /\ Ends(l, "failed") /\ UNCHANGED ctx
            BY <2>1 DEF GiveUp, InLoop, UnderWay
        <3> QED BY <3>1, ListEnds
    <2>2. CASE SocketFails(l) \/ Unreachable(l)
        BY <2>2, MovesList
    <2>3. CASE SendsAndBlocks(l)
        <3>1. Asks(l) /\ running' = l
            BY <2>3 DEF SendsAndBlocks, Asks, Retries, InLoop
        <3> QED BY <3>1, AsksList
    <2>4. CASE SendsAndSleeps(l)
        BY <2>4, AsksList DEF SendsAndSleeps
    <2> QED BY <1>4, <2>1, <2>2, <2>3, <2>4 DEF Step
<1>5. ASSUME NEW l \in Lookups, TimedOut(l)
      PROVE  ListInv'
    BY <1>5, MovesList
<1>6. ASSUME NEW l \in Lookups, Receives(l)
      PROVE  ListInv'
    BY <1>6, ReceivesList
<1> QED BY <1>1, <1>2, <1>3, <1>4, <1>5, <1>6 DEF Next

\* Only a query brings a lookup from its loop into select.
LEMMA OnlyAsks ==
    ASSUME TypesOK, [Next]_vars, NEW l \in Lookups, pc[l] = "try", pc'[l] = "select"
    PROVE  Asks(l)
<1>1. pc \in [Lookups -> Place]
    BY DEF TypesOK
<1>2. pc' # pc
    OBVIOUS
<1>3. ASSUME NEW k \in Lookups, NEW w \in Place \ {"select"}, pc' = [pc EXCEPT ![k] = w]
      PROVE  FALSE
    <2>1. CASE k = l
        BY <1>1, <1>3, <2>1
    <2>2. CASE k # l
        BY <1>1, <1>3, <2>2
    <2> QED BY <2>1, <2>2
<1>4. ~ (\/ gethostbyname_ext_eloop_reconf
         \/ gethostbyname_ext_eloop_finalize
         \/ EditResolv
         \/ UNCHANGED vars)
    BY <1>2 DEF gethostbyname_ext_eloop_reconf, gethostbyname_ext_eloop_finalize,
                EditResolv, vars
<1>5. ASSUME NEW k \in Lookups, NEW choice \in 0 .. 2, NEW sync, NEW nsl, NEW n,
             Starts(k, choice, sync, nsl, n)
      PROVE  FALSE
    <2>1. \E w \in {"failed", "try"} : pc' = [pc EXCEPT ![k] = w]
        BY <1>5 DEF Starts
    <2>2. {"failed", "try"} \subseteq Place \ {"select"}
        BY DEF Place
    <2> QED BY <1>3, <2>1, <2>2
<1>6. ASSUME NEW k \in Lookups, NEW choice \in 0 .. 2,
             gethostbyname_ext_async(k, choice) \/ gethostbyname_ext(k, choice)
      PROVE  FALSE
    BY <1>5, <1>6 DEF gethostbyname_ext_async, gethostbyname_ext
<1>7. ASSUME NEW k \in Lookups,
             \/ GiveUp(k) \/ SocketFails(k) \/ Unreachable(k)
             \/ TimedOut(k) \/ Receives(k)
      PROVE  FALSE
    <2>1. \E w \in {"failed", "unreachable", "try", "found"} : pc' = [pc EXCEPT ![k] = w]
        BY <1>2, <1>7 DEF GiveUp, Ends, SocketFails, Unreachable, TimedOut, Receives
    <2>2. {"failed", "unreachable", "try", "found"} \subseteq Place \ {"select"}
        BY DEF Place
    <2> QED BY <1>3, <2>1, <2>2
<1>8. PICK k \in Lookups : Asks(k)
    BY <1>4, <1>6, <1>7 DEF Next, Step, SendsAndBlocks, SendsAndSleeps
<1>9. k = l
    BY <1>1, <1>8 DEF Asks
<1> QED BY <1>8, <1>9

\* A lookup for one chosen server asks that server of the list read last, as
\* long as overlapping lookups end in the order of a stack: whatever a lookup
\* puts back into the head is what it found there (gethostbyname_r_2,
\* gethostbyname_r_2_async).
THEOREM ChosenServerIsAsked == Spec => AsksChosenServer
<1>1. ASSUME IdsInv, ListInv, [Next]_vars, NEW l \in Lookups,
             pc[l] = "try", pc'[l] = "select", HasItsHead(l)
      PROVE  ctx'[l].server = conf[ctx[l].choice]
    <2>1. Asks(l)
        BY <1>1, OnlyAsks DEF IdsInv
    <2>2. LookupOK("try", ctx[l]) /\ UnderWay(l)
        BY <1>1, OnItsWay DEF InWay, UnderWay
    <2>3. ctx[l].local_ns = 0
        BY <1>1, <2>2 DEF LookupOK, InWay, Context, HasItsHead
    <2>4. HeadsInOrder
        BY <1>1 DEF ListInv, HasItsHead
    <2>5. HeadUnder(Lookups) = conf[ctx[l].choice]
        BY <1>1, <2>2 DEF HeadUnder, HasItsHead
    <2>6. nameserver[0] = conf[ctx[l].choice]
        BY <2>2, <2>4, <2>5 DEF HeadsInOrder
    <2> PICK b : b = NextId(ctx[l])
        OBVIOUS
    <2>7. b \in Context
        BY <2>2, NextIdOK
    <2>8. ctx' = [ctx EXCEPT ![l] = [b EXCEPT !.server = nameserver[0]]]
        BY <2>1, <2>3 DEF Asks
    <2>9. ctx \in [Lookups -> Context]
        BY <1>1 DEF IdsInv, TypesOK
    <2>10. ctx'[l].server = nameserver[0]
        BY <2>7, <2>8, <2>9 DEF Context
    <2> QED BY <2>6, <2>10
<1>2. Init => IdsInv /\ ListInv
    BY IdsInvInit, ListInvInit
<1>3. IdsInv /\ ListInv /\ [Next]_vars => (IdsInv /\ ListInv)'
    BY IdsInvStep, ListInvStep
<1>4. IdsInv /\ ListInv /\ [Next]_vars =>
          [\A l \in Lookups :
              pc[l] = "try" /\ pc'[l] = "select" /\ HasItsHead(l)
                  => ctx'[l].server = conf[ctx[l].choice]]_vars
    BY <1>1
<1> QED BY <1>2, <1>3, <1>4, PTL DEF Spec, AsksChosenServer
=============================================================================
