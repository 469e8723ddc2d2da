----------------------------- MODULE DnsLookup -----------------------------
(***************************************************************************)
(* The lookups of eloop/dns.c: gethostbyname_ext_async, which runs as a    *)
(* task and gives the loop back while it waits, and gethostbyname_ext,     *)
(* which blocks the thread.  Both ask one nameserver after the other over  *)
(* UDP, with the search domains behind the name after a negative answer,   *)
(* and share the list of nameservers and the counters ns and id: they are  *)
(* copied when a lookup starts and written back when it ends.  A lookup    *)
(* for one chosen server overwrites the head of the list for that time.    *)
(*                                                                         *)
(* One lookup runs at a time: running.  The others wait in select, as      *)
(* tasks.  The network loses answers, delays and reorders them; a lookup   *)
(* that opens a socket may get a port it has used before.                  *)
(***************************************************************************)
EXTENDS Integers, Sequences, FiniteSets

CONSTANTS Lookups,    (* calls of gethostbyname_ext and its variants *)
          Servers,    (* addresses in resolv.conf *)
          Files,      (* contents of resolv.conf: [servers, search] *)
          Null,       (* NULL, or no lookup *)
          MAX_SERVERS,
          MAX_SEARCH,
          MAX_RETRIES, (* tries of a blocking lookup *)
          nRetries,    (* tries of a task *)
          IdSpace,     (* 65536: ids are 16 bits wide *)
          MaxEdits     (* bound: resolv.conf changes so often *)

ASSUME DnsLookupAssumption ==
    /\ Null \notin Lookups \cup Servers
    /\ Files \subseteq [servers : Seq(Servers), search : 0 .. MAX_SEARCH]
    /\ \A f \in Files : Len(f.servers) <= MAX_SERVERS
    /\ {MAX_SERVERS, MAX_RETRIES, nRetries, IdSpace} \subseteq Nat \ {0}
    /\ IdSpace > 1
    /\ {MAX_SEARCH, MaxEdits} \subseteq Nat

\* There is an id for every try of a lookup: 1 * 3 * 5 of a blocking one, and
\* 4 * 3 * 5 of a task with HYW_MAX_RETRIES.
ASSUME IdsOutlastLookup ==
    /\ MAX_RETRIES * MAX_SERVERS * (MAX_SEARCH + 1) <= IdSpace
    /\ nRetries * MAX_SERVERS * (MAX_SEARCH + 1) <= IdSpace

VARIABLES resolv,      (* resolv.conf *)
          edits,       (* how often it was changed *)
          conf,        (* history: the servers read from it last *)
          first_init_nameserver,
          nameservers, (* __nameservers *)
          nameserver,  (* __nameserver *)
          searchdomains, (* __searchdomains *)
          ns, id,      (* where the next lookup starts *)
          running,     (* the lookup that has the thread *)
          pc,          (* where each lookup is *)
          ctx,         (* its local variables *)
          asked,       (* queries whose answer may still arrive *)
          accepted,    (* the query whose answer each lookup returned *)
          before,      (* history: the lookups each one found under way *)
          crossed      (* history: overlapping lookups have mixed up the list *)

list == <<conf, first_init_nameserver, nameservers, nameserver, searchdomains>>
history == <<before, crossed>>
vars == <<resolv, edits, list, ns, id, running, pc, ctx, asked, accepted, history>>

Index == 0 .. MAX_SERVERS - 1

Context == [choice : 0 .. 2, sync : BOOLEAN, nscount : 0 .. MAX_SERVERS,
            backup : Servers \cup {Null}, local_ns : {-1} \cup Index,
            local_id : {-1} \cup 0 .. IdSpace - 1, variant : Int, retries : Nat,
            server : Servers \cup {Null}]

Query == [by : Lookups, server : Servers \cup {Null}, id : 0 .. IdSpace - 1, variant : Int]

NoContext == [choice |-> 0, sync |-> FALSE, nscount |-> 0, backup |-> Null,
              local_ns |-> -1, local_id |-> -1, variant |-> -1, retries |-> 0,
              server |-> Null]

Init == /\ resolv \in Files
        /\ edits = 0
        /\ conf = <<>>
        /\ first_init_nameserver = TRUE
        /\ nameservers = 0
        /\ nameserver = [i \in Index |-> Null]
        /\ searchdomains = 0
        /\ ns = 0 /\ id = 1
        /\ running = Null
        /\ pc = [l \in Lookups |-> "idle"]
        /\ ctx = [l \in Lookups |-> NoContext]
        /\ asked = {}
        /\ accepted = [l \in Lookups |-> Null]
        /\ before = [l \in Lookups |-> {}]
        /\ crossed = FALSE

UnderWay(l) == pc[l] \in {"try", "select", "unreachable"}

-----------------------------------------------------------------------------
(* The list of nameservers *)

\* __open_nameservers: entries behind the new ones stay, and so do the search
\* domains when the file has none.
Opened(i) == IF i < Len(resolv.servers) THEN resolv.servers[i + 1] ELSE nameserver[i]

\* The application reconfigures the client when no lookup is under way.
gethostbyname_ext_eloop_reconf ==
    /\ \A l \in Lookups : ~ UnderWay(l)
    /\ conf' = resolv.servers
    /\ nameservers' = Len(resolv.servers)
    /\ nameserver' = [i \in Index |-> IF i < Len(resolv.servers)
                                      THEN resolv.servers[i + 1]
                                      ELSE IF ~ first_init_nameserver /\ i < nameservers
                                           THEN Null
                                           ELSE nameserver[i]]
    /\ searchdomains' = IF resolv.search > 0 \/ ~ first_init_nameserver
                        THEN resolv.search ELSE searchdomains
    /\ first_init_nameserver' = FALSE
    /\ crossed' = FALSE
    /\ UNCHANGED <<resolv, edits, ns, id, running, pc, ctx, asked, accepted, before>>

gethostbyname_ext_eloop_finalize ==
    /\ \A l \in Lookups : ~ UnderWay(l)
    /\ ~ first_init_nameserver
    /\ first_init_nameserver' = TRUE
    /\ nameserver' = [i \in Index |-> IF i < nameservers THEN Null ELSE nameserver[i]]
    /\ nameservers' = 0
    /\ searchdomains' = 0
    /\ conf' = <<>>
    /\ crossed' = FALSE
    /\ UNCHANGED <<resolv, edits, ns, id, running, pc, ctx, asked, accepted, before>>

EditResolv == /\ edits < MaxEdits
              /\ edits' = edits + 1
              /\ resolv' \in Files \ {resolv}
              /\ UNCHANGED <<list, ns, id, running, pc, ctx, asked, accepted, history>>

-----------------------------------------------------------------------------
(* The start and the end of a lookup *)

\* A caller chooses a server that exists (__nameserver_exist), or all.
MayStart(l, choice, servers) ==
    /\ running = Null
    /\ pc[l] = "idle"
    /\ choice <= Len(servers)

\* The head of the list while a lookup for choice runs, and how many servers
\* of the list it asks.
Head0(choice, nsl) == IF choice = 2 THEN nsl[1] ELSE nsl[0]
Count(choice, n) == IF choice = 0 THEN n ELSE 1

\* gethostbyname_r_2 and its variant up to the loop of the lookup: without a
\* server it fails at once.
Starts(l, choice, sync, nsl, n) ==
    LET nscount == Count(choice, n)
        c == [NoContext EXCEPT !.choice = choice, !.sync = sync,
                               !.nscount = nscount, !.backup = nsl[0]]
    IN  IF nscount = 0
        THEN /\ ctx' = [ctx EXCEPT ![l] = c]
             /\ pc' = [pc EXCEPT ![l] = "failed"]
             /\ nameserver' = nsl
             /\ UNCHANGED <<running, before>>
        ELSE /\ ctx' = [ctx EXCEPT ![l] = [c EXCEPT !.local_ns = ns % nscount,
                                                    !.local_id = id]]
             /\ pc' = [pc EXCEPT ![l] = "try"]
             /\ nameserver' = [nsl EXCEPT ![0] = Head0(choice, nsl)]
             /\ running' = l
             /\ before' = [before EXCEPT ![l] = {k \in Lookups : UnderWay(k)}]

\* The list is read over the head that a lookup for the second server has set,
\* or with other servers under lookups on their way.
CrossedByReading == \E k \in Lookups : /\ UnderWay(k)
                                       /\ \/ crossed
                                          \/ ctx[k].choice = 2
                                          \/ conf # resolv.servers

\* A lookup ends before one that has started after it, and one of the two is
\* for the second server.
CrossedByEnd(l) == \E k \in Lookups : /\ UnderWay(k)
                                      /\ l \in before[k]
                                      /\ 2 \in {ctx[k].choice, ctx[l].choice}

\* A task reads resolv.conf only the first time.
gethostbyname_ext_async(l, choice) ==
    LET reads == first_init_nameserver
        nsl == IF reads THEN [i \in Index |-> Opened(i)] ELSE nameserver
        n == IF reads THEN Len(resolv.servers) ELSE nameservers
    IN  /\ MayStart(l, choice, IF reads THEN resolv.servers ELSE conf)
        /\ first_init_nameserver' = FALSE
        /\ conf' = IF reads THEN resolv.servers ELSE conf
        /\ nameservers' = n
        /\ searchdomains' = IF reads /\ resolv.search > 0 THEN resolv.search ELSE searchdomains
        /\ crossed' = IF reads THEN CrossedByReading ELSE crossed
        /\ Starts(l, choice, FALSE, nsl, n)
        /\ UNCHANGED <<resolv, edits, ns, id, asked, accepted>>

\* A blocking lookup reads it every time.
gethostbyname_ext(l, choice) ==
    /\ MayStart(l, choice, resolv.servers)
    /\ conf' = resolv.servers
    /\ nameservers' = Len(resolv.servers)
    /\ searchdomains' = IF resolv.search > 0 THEN resolv.search ELSE searchdomains
    /\ crossed' = CrossedByReading
    /\ Starts(l, choice, TRUE, [i \in Index |-> Opened(i)], Len(resolv.servers))
    /\ UNCHANGED <<resolv, edits, first_init_nameserver, ns, id, asked, accepted>>

\* What a lookup leaves in the head of the list.
\* Mutation of Restored: the head stays as the lookup has set it.
RestoredNot(l) == nameserver

Restored(l) == [nameserver EXCEPT ![0] = ctx[l].backup]

\* The counters are written back, whether the lookup found something or not.
CountersWritten(l) == /\ ns' = ctx[l].local_ns
                      /\ id' = ctx[l].local_id

\* The lookup writes back the counters and the head of the list and closes its
\* socket.
Ends(l, place) ==
    /\ pc' = [pc EXCEPT ![l] = place]
    /\ running' = Null
    /\ CountersWritten(l)
    /\ nameserver' = Restored(l)
    /\ asked' = {q \in asked : q.by # l}
    /\ crossed' = (crossed \/ CrossedByEnd(l))
    /\ UNCHANGED <<resolv, edits, conf, first_init_nameserver, nameservers,
                   searchdomains, before>>

-----------------------------------------------------------------------------
(* One try *)

Tries(l) == IF ctx[l].sync THEN MAX_RETRIES ELSE nRetries

InLoop(l) == running = l /\ pc[l] = "try"
Retries(l) == InLoop(l) /\ ctx[l].retries < Tries(l)

NextId(c) == [c EXCEPT !.local_id = (@ + 1) % IdSpace]

\* The loop ends without an answer.
GiveUp(l) == /\ InLoop(l)
             /\ ctx[l].retries >= Tries(l)
             /\ Ends(l, "failed")
             /\ UNCHANGED <<ctx, accepted>>

\* socket fails, or connect does so otherwise than for want of a route: the
\* same server again.
SocketFails(l) ==
    /\ Retries(l)
    /\ ctx' = [ctx EXCEPT ![l] = [NextId(ctx[l]) EXCEPT !.retries = @ + 1]]
    /\ UNCHANGED <<resolv, edits, list, ns, id, running, pc, asked, accepted, history>>

NextServer(c) ==
    LET next == (c.local_ns + 1) % c.nscount
    IN  [c EXCEPT !.variant = -1, !.local_ns = next,
                  !.retries = IF next = 0 THEN @ + 1 ELSE @]

\* The next search domain, or the next server.
NextSearch(c) == IF c.variant < searchdomains - 1
                 THEN [c EXCEPT !.variant = @ + 1]
                 ELSE NextServer(c)

\* No route: a task sleeps as long as it would wait for an answer, a blocking
\* lookup goes on to the next server at once.
Unreachable(l) ==
    /\ Retries(l)
    /\ LET c == NextId(ctx[l])
       IN  IF c.sync
           THEN /\ ctx' = [ctx EXCEPT ![l] = NextServer(c)]
                /\ UNCHANGED <<running, pc>>
           ELSE /\ ctx' = [ctx EXCEPT ![l] = c]
                /\ pc' = [pc EXCEPT ![l] = "unreachable"]
                /\ running' = Null
    /\ UNCHANGED <<resolv, edits, list, ns, id, asked, accepted, history>>

\* The query goes to the server that the list holds now, with the next id.
Asks(l) ==
    /\ Retries(l)
    /\ LET c == [NextId(ctx[l]) EXCEPT !.server = nameserver[ctx[l].local_ns]]
       IN  /\ ctx' = [ctx EXCEPT ![l] = c]
           /\ asked' = asked \cup {[by |-> l, server |-> c.server, id |-> c.local_id,
                                    variant |-> c.variant]}
    /\ pc' = [pc EXCEPT ![l] = "select"]
    /\ UNCHANGED <<resolv, edits, list, ns, id, accepted, history>>

\* A blocking lookup keeps the thread in select, a task gives it back.
SendsAndBlocks(l) == ctx[l].sync /\ Asks(l) /\ UNCHANGED running
SendsAndSleeps(l) == ~ ctx[l].sync /\ Asks(l) /\ running' = Null

\* The thread is in select for this lookup, or in the loop, which resumes it.
Waits(l) == pc[l] = "select" /\ running = IF ctx[l].sync THEN l ELSE Null

\* Mutation of Sleeps: the sleep for a route has no timeout.
SleepsForAnswer(l) == Waits(l)

Sleeps(l) == Waits(l) \/ (pc[l] = "unreachable" /\ running = Null)

\* The time is over, for an answer or for a route.
TimedOut(l) ==
    /\ Sleeps(l)
    /\ ctx' = [ctx EXCEPT ![l] = NextServer(ctx[l])]
    /\ pc' = [pc EXCEPT ![l] = "try"]
    /\ running' = l
    /\ UNCHANGED <<resolv, edits, list, ns, id, asked, accepted, history>>

\* Mutation of Solicited: any answer is taken for the last query's.
SolicitedByAny(q, c) == TRUE

\* The answer has the id of the last query.
Solicited(q, c) == q.id = c.local_id

\* The answer to a query, from the server the socket is connected to.  What is
\* not an answer to the last query moves the lookup on as a negative one does.
Receives(l) ==
    \E q \in asked, positive \in BOOLEAN :
        /\ Waits(l)
        /\ q.by = l /\ q.server = ctx[l].server
        /\ IF Solicited(q, ctx[l]) /\ positive
           THEN /\ Ends(l, "found")
                /\ accepted' = [accepted EXCEPT ![l] = q]
                /\ UNCHANGED ctx
           ELSE /\ ctx' = [ctx EXCEPT ![l] = NextSearch(ctx[l])]
                /\ pc' = [pc EXCEPT ![l] = "try"]
                /\ running' = l
                /\ asked' = asked \ {q}
                /\ UNCHANGED <<resolv, edits, list, ns, id, accepted, history>>

-----------------------------------------------------------------------------

Step(l) == \/ GiveUp(l)
           \/ SocketFails(l)
           \/ Unreachable(l)
           \/ SendsAndBlocks(l)
           \/ SendsAndSleeps(l)

Next ==
    \/ gethostbyname_ext_eloop_reconf
    \/ gethostbyname_ext_eloop_finalize
    \/ EditResolv
    \/ \E l \in Lookups :
           \/ \E choice \in 0 .. 2 : \/ gethostbyname_ext_async(l, choice)
                                     \/ gethostbyname_ext(l, choice)
           \/ Step(l)
           \/ TimedOut(l)
           \/ Receives(l)

Spec == Init /\ [][Next]_vars

\* A lookup that has the thread goes on; select ends, and the loop serves the
\* timeouts of tasks (Task!SleepEnds).
FairSpec == /\ Spec
            /\ \A l \in Lookups : WF_vars(Step(l)) /\ WF_vars(TimedOut(l))

-----------------------------------------------------------------------------
(* Properties *)

TypeOK ==
    /\ resolv \in Files
    /\ edits \in 0 .. MaxEdits
    /\ first_init_nameserver \in BOOLEAN
    /\ nameservers \in 0 .. MAX_SERVERS
    /\ nameserver \in [Index -> Servers \cup {Null}]
    /\ searchdomains \in 0 .. MAX_SEARCH
    /\ ns \in Index
    /\ id \in 0 .. IdSpace - 1
    /\ running \in Lookups \cup {Null}
    /\ \A l \in Lookups : ctx[l] \in Context
    /\ asked \subseteq Query
    /\ before \in [Lookups -> SUBSET Lookups]
    /\ crossed \in BOOLEAN

\* The answer a lookup returns is the one to its last query: from the server it
\* asked last, for the search domain it asked for.
AnswersLastQuery ==
    \A l \in Lookups : pc[l] = "found" =>
        /\ accepted[l].server = ctx[l].server
        /\ accepted[l].variant = ctx[l].variant

\* The head of the list should be the chosen server.
HasItsHead(l) ==
    /\ ~ crossed
    /\ \/ ctx[l].choice = 2
       \/ ctx[l].choice = 1 /\ \A k \in Lookups : UnderWay(k) => ctx[k].choice # 2

\* A lookup for one chosen server asks that server of the list read last,
\* whatever lookups ran before it, start while it waits or wait under it: the
\* head of the list is put back as on a stack (gethostbyname_r_2_async).  That
\* fails once overlapping lookups have crossed, until the list is read with none
\* under way, and the first server is not asked while a lookup for the second
\* has the head.
AsksChosenServer ==
    [][\A l \in Lookups :
           pc[l] = "try" /\ pc'[l] = "select" /\ HasItsHead(l)
               => ctx'[l].server = conf[ctx[l].choice]]_vars

\* Every lookup ends.
LookupEnds == \A l \in Lookups : UnderWay(l) ~> pc[l] \in {"found", "failed"}

=============================================================================
