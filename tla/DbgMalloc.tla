----------------------------- MODULE DbgMalloc -----------------------------
(***************************************************************************)
(* The allocator of etc/tdxagwDbgMalloc.cpp: blocks of three sizes come    *)
(* from pools, which are filled at the first call, all others from malloc  *)
(* with their size in front and room up to a multiple of Unit.             *)
(***************************************************************************)
EXTENDS Integers

CONSTANTS PoolSlots, (* 1024: blocks of each pool *)
          Unit,      (* 1024 *)
          PoolSize,  (* 92, 12, 26: the size of each pool *)
          MadeFor,   (* 92, 12, 25: the size its blocks were made for *)
          Size,      (* sizes that are asked for *)
          HeapBlock, (* addresses that malloc returns otherwise *)
          Ref,       (* the pointers of the program *)
          NULL

Pools == DOMAIN PoolSize
PoolBlock == Pools \X (0 .. PoolSlots - 1)

\* size bytes, rounded up to units.
Rounded(size) == ((size + Unit - 1) \div Unit) * Unit

DbgMallocAssumption ==
    /\ {PoolSlots, Unit} \subseteq Nat \ {0}
    /\ Size \subseteq Nat
    /\ PoolSize \in [Pools -> Nat] /\ MadeFor \in [Pools -> Nat]
    /\ \A i \in Pools : PoolSize[i] <= Rounded(MadeFor[i])
    /\ HeapBlock \cap PoolBlock = {}
    /\ NULL \notin Nat \cup HeapBlock \cup PoolBlock

VARIABLES mem,     (* pool_uses, pool_idxs, and the blocks of malloc *)
          held,    (* of each pointer: its block and the size asked for *)
          overrun  (* something was written beyond a block *)

vars == <<mem, held, overrun>>

\* uses: the pool blocks in use; idxs: where each pool is searched from;
\* heap: of each block of malloc the size in front of it, NULL if it is free.
NoBlocks == [uses |-> {}, idxs |-> [i \in Pools |-> 0], heap |-> [b \in HeapBlock |-> NULL]]
Nothing == [block |-> NULL, size |-> 0]

Init == /\ mem = NoBlocks
        /\ held = [r \in Ref |-> Nothing]
        /\ overrun = FALSE

\* The size noted in front of a block, and its room.
Noted(m, b) == IF b \in PoolBlock THEN MadeFor[b[1]] ELSE m.heap[b]
Room(m, b) == Rounded(Noted(m, b))

-----------------------------------------------------------------------------
(* The functions below the calls, on the memory m; each result has the     *)
(* memory that is left and the block that is returned.                     *)

\* tmalloc, which may fail.
tmalloc(m, size) ==
    {[mem |-> [m EXCEPT !.heap[b] = size], block |-> b] :
        b \in {c \in HeapBlock : m.heap[c] = NULL}}
    \cup {[mem |-> m, block |-> NULL]}

\* Mutation of PoolAddress: the block where the search began.
PoolAddressOfStart(i, from, j) == <<i, from>>

\* The block that is j behind the one the search began with.
PoolAddress(i, from, j) == <<i, (from + j) % PoolSlots>>

\* tpool_alloc: the first block of the pool that is not used, from its index
\* on; else, and for other sizes, malloc.
tpool_alloc(m, size) ==
    IF \A i \in Pools : PoolSize[i] # size THEN tmalloc(m, size)
    ELSE LET i == CHOOSE k \in Pools : PoolSize[k] = size
             from == m.idxs[i]
             unused == {j \in 0 .. PoolSlots - 1 : <<i, (from + j) % PoolSlots>> \notin m.uses}
             j == CHOOSE k \in unused : \A l \in unused : k <= l
         IN  IF unused = {}
             THEN tmalloc([m EXCEPT !.idxs[i] = (@ + 1) % PoolSlots], size)
             ELSE {[mem |-> [m EXCEPT !.uses = @ \cup {<<i, (from + j) % PoolSlots>>},
                                      !.idxs[i] = (from + j + 1) % PoolSlots],
                    block |-> PoolAddress(i, from, j)]}

\* tpool_free, tfree
tpool_free(m, b) ==
    CASE b \in PoolBlock -> [m EXCEPT !.uses = @ \ {b}]
      [] b \in HeapBlock -> [m EXCEPT !.heap[b] = NULL]
      [] b = NULL -> m

-----------------------------------------------------------------------------
(* The calls; the first of them fills the pools (tinit_pool) *)

\* r gets a block for size; it held none, or the program forgot nothing.
my_malloc(r, size) ==
    /\ ~ overrun /\ held[r] = Nothing
    /\ \E a \in tpool_alloc(mem, size) :
           /\ mem' = a.mem
           /\ held' = [held EXCEPT ![r] = IF a.block = NULL THEN Nothing
                                          ELSE [block |-> a.block, size |-> size]]
    /\ UNCHANGED overrun

my_calloc(r, nmemb, size) == my_malloc(r, nmemb * size)

my_free(r) ==
    /\ ~ overrun
    /\ mem' = tpool_free(mem, held[r].block)
    /\ held' = [held EXCEPT ![r] = Nothing]
    /\ UNCHANGED overrun

\* my_realloc: a new block, into which as many bytes are copied as the old one
\* was made for; the old one is freed, also when there is no new one.
my_realloc(r, size) ==
    /\ ~ overrun /\ held[r] # Nothing
    /\ LET old == held[r].block
       IN  \E a \in tpool_alloc(mem, size) :
               /\ mem' = tpool_free(a.mem, old)
               /\ held' = [held EXCEPT ![r] = IF a.block = NULL THEN Nothing
                                              ELSE [block |-> a.block, size |-> size]]
               /\ overrun' = (a.block # NULL /\ Noted(mem, old) > Room(a.mem, a.block))

Next == \E r \in Ref : \/ \E size \in Size : my_malloc(r, size) \/ my_realloc(r, size)
                       \/ \E size \in Size : my_calloc(r, 2, size)
                       \/ my_free(r)

Spec == Init /\ [][Next]_vars

-----------------------------------------------------------------------------
(* Property *)

\* No block belongs to two pointers, none is lost, and each has the room that
\* was asked for, whichever pool or size it moves between, until a block is
\* made smaller by more than its room allows (tpool_alloc, tpool_realloc).
BlocksHaveOneOwner ==
    ~ overrun =>
        LET owners(b) == {r \in Ref : held[r].block = b}
            inUse == mem.uses \cup {b \in HeapBlock : mem.heap[b] # NULL}
        IN  /\ \A b \in inUse : \E r \in Ref : owners(b) = {r}
            /\ \A r \in Ref : held[r] # Nothing =>
                   held[r].block \in inUse /\ held[r].size <= Room(mem, held[r].block)

=============================================================================
