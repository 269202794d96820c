----------------------------- MODULE PoolAllocator -----------------------------
(***************************************************************************)
(* The allocator that bzip2 streams use in the optimized WASM build        *)
(* (optimized_memory.c): blocks, free or in use, tile one pool; each has a *)
(* header with its size and the blocks before and after it.  What the pool *)
(* cannot serve comes from the system.                                     *)
(*                                                                         *)
(* A block is known by the offset of its header in the pool, a pointer     *)
(* handed out by the block it belongs to; block maps offsets to headers.   *)
(***************************************************************************)
EXTENDS Integers, FiniteSets, SequencesExt

CONSTANTS
  BZIP2_POOL_SIZE, BZIP2_SMALL_ALLOC_LIMIT, BZIP2_ALIGNMENT,
  Header,        \* sizeof(MemoryBlock)
  Slack,         \* 64: what must be left over for a block to be split
  WordSize,      \* values of size_t
  Sizes,         \* the sizes asked for
  SysMax,        \* bound on live system allocations
  CountMax       \* bound on the counters of calls

ASSUME PoolAssumption ==
  /\ Header \in Nat \ {0} /\ BZIP2_POOL_SIZE \in Nat /\ BZIP2_POOL_SIZE > Header
  /\ Slack \in Nat /\ BZIP2_ALIGNMENT \in Nat \ {0} /\ Sizes \subseteq Nat
  /\ WordSize \in Nat \ {0}

NULL   == -1
System == -2    \* a pointer that is not of the pool

VARIABLES
  up,       \* g_allocator.pool_memory # NULL
  block,    \* the headers in the pool
  held,     \* history: what was asked for, for each pool block handed out
  sys,      \* live system allocations
  pre,      \* g_preallocated: "sort", "huffman", "temp" -> block, System or NULL
  todo,     \* the requests bzip2_preallocate_buffers has still to make
  total_allocated, peak_allocated, allocation_count, free_count

stats == <<total_allocated, peak_allocated, allocation_count, free_count>>
vars  == <<up, block, held, sys, pre, todo, stats>>

Buffers == {"sort", "huffman", "temp"}
NoBlocks == [a \in {} |-> NULL]

Init ==
  /\ up = FALSE /\ block = NoBlocks /\ held = NoBlocks /\ sys = 0
  /\ pre = [k \in Buffers |-> NULL] /\ todo = <<>>
  /\ total_allocated = 0 /\ peak_allocated = 0 /\ allocation_count = 0 /\ free_count = 0

InitialBlock == [size |-> BZIP2_POOL_SIZE - Header, in_use |-> FALSE, next |-> NULL, prev |-> NULL]

(* bzip2_init_optimized_allocator: a second call changes nothing; gotPool   *)
(* is the answer of aligned_alloc.                                          *)
InitAllocator(gotPool) ==
  /\ IF up \/ ~gotPool
     THEN UNCHANGED <<up, block, stats>>
     ELSE /\ up' = TRUE /\ block' = [a \in {0} |-> InitialBlock]
          /\ total_allocated' = 0 /\ peak_allocated' = 0
          /\ allocation_count' = 0 /\ free_count' = 0
  /\ UNCHANGED <<held, sys, pre, todo>>

------------------------------------------------------------------------------
Aligned_Down(n) == n - (n % BZIP2_ALIGNMENT)  \* mutant: rounded the wrong way
Aligned(n) == (n + BZIP2_ALIGNMENT - 1) - ((n + BZIP2_ALIGNMENT - 1) % BZIP2_ALIGNMENT)

(* The free list a request is looked for in: all blocks, or, for a small    *)
(* request, free_list_small, which nothing is ever put into. The blocks are *)
(* linked by address, so the first that fits is the lowest.                 *)
FreeList(n) == IF Aligned(n) < BZIP2_SMALL_ALLOC_LIMIT THEN {} ELSE DOMAIN block

Fitting(n)  == {a \in FreeList(n) : ~block[a].in_use /\ block[a].size >= Aligned(n)}

(* The block is taken, and what it has left over is split off. *)
Split_KeepsPrev(b, a, size) ==  \* mutant: the block behind still points to a
  LET new == a + Header + size IN
  [x \in DOMAIN b \cup {new} |->
     CASE x = a   -> [b[a] EXCEPT !.in_use = TRUE, !.size = size, !.next = new]
       [] x = new -> [size |-> b[a].size - size - Header, in_use |-> FALSE,
                      next |-> b[a].next, prev |-> a]
       [] OTHER   -> b[x]]

Split(b, a, size) ==
  LET new == a + Header + size IN
  [x \in DOMAIN b \cup {new} |->
     CASE x = a   -> [b[a] EXCEPT !.in_use = TRUE, !.size = size, !.next = new]
       [] x = new -> [size |-> b[a].size - size - Header, in_use |-> FALSE,
                      next |-> b[a].next, prev |-> a]
       [] x # a /\ x # new /\ x = b[a].next -> [b[x] EXCEPT !.prev = new]
       [] OTHER   -> b[x]]

allocate_from_pool(b, a, size) ==
  IF b[a].size > size + Header + Slack THEN Split(b, a, size)
                                       ELSE [b EXCEPT ![a].in_use = TRUE]

(* bzip2_optimized_malloc: ptr is what it returns. *)
Malloc(n, ptr) ==
  \/ /\ up /\ ptr \in Fitting(n) /\ \A a \in Fitting(n) : ptr <= a
     /\ block' = allocate_from_pool(block, ptr, Aligned(n))
     /\ held' = [a \in DOMAIN held \cup {ptr} |-> IF a = ptr THEN n ELSE held[a]]
     /\ total_allocated' = (total_allocated + Aligned(n)) % WordSize
     /\ peak_allocated' = IF total_allocated' > peak_allocated THEN total_allocated'
                                                               ELSE peak_allocated
     /\ allocation_count' = allocation_count + 1
     /\ UNCHANGED <<sys, free_count>>
  \/ /\ ~up \/ Fitting(n) = {}
     /\ \/ /\ ptr = System /\ sys < SysMax /\ sys' = sys + 1
           /\ allocation_count' = IF up THEN allocation_count + 1 ELSE allocation_count
        \/ ptr = NULL /\ UNCHANGED <<sys, allocation_count>>
     /\ UNCHANGED <<block, held, total_allocated, peak_allocated, free_count>>

(* bzip2_stream_alloc. n is the product items * size; bzlib asks for (n, 1), *)
(* so that the product in int is not taken apart.                           *)
StreamAlloc(n) ==
  /\ allocation_count < CountMax
  /\ \E ptr \in DOMAIN block \cup {System, NULL} : Malloc(n, ptr)
  /\ UNCHANGED <<up, pre, todo>>

------------------------------------------------------------------------------
MergeNext(b, a) ==
  LET n == b[a].next IN
  IF n = NULL THEN b
  ELSE IF b[n].in_use THEN b
  ELSE [x \in DOMAIN b \ {n} |->
          CASE x = a -> [b[a] EXCEPT !.size = @ + b[n].size + Header, !.next = b[n].next]
            [] x # a /\ x = b[n].next -> [b[x] EXCEPT !.prev = a]
            [] OTHER -> b[x]]

(* The block before a takes a in, which is free. *)
MergePrev(b, a) ==
  IF b[a].prev = NULL THEN b
  ELSE IF b[b[a].prev].in_use THEN b ELSE MergeNext(b, b[a].prev)

coalesce_free_blocks(b, a) == MergePrev(MergeNext(b, a), a)

(* bzip2_optimized_free of a pointer into the pool. *)
FreePool(a) ==
  /\ block' = coalesce_free_blocks([block EXCEPT ![a].in_use = FALSE], a)
  /\ held' = [x \in DOMAIN held \ {a} |-> held[x]]
  /\ total_allocated' = (total_allocated - block[a].size) % WordSize
  /\ free_count' = free_count + 1
  /\ UNCHANGED <<sys, peak_allocated, allocation_count>>

Reserved == {pre[k] : k \in Buffers}

(* bzip2_stream_free: callers give back what they were given, once.         *)
StreamFree(a) ==
  /\ a \in DOMAIN held \ Reserved /\ free_count < CountMax
  /\ FreePool(a)
  /\ UNCHANGED <<up, pre, todo>>

StreamFreeSystem ==
  /\ sys > Cardinality({k \in Buffers : pre[k] = System}) /\ free_count < CountMax
  /\ sys' = sys - 1
  /\ free_count' = IF up THEN free_count + 1 ELSE free_count
  /\ UNCHANGED <<up, block, held, pre, todo, total_allocated, peak_allocated, allocation_count>>

------------------------------------------------------------------------------
(* bzip2_preallocate_buffers makes three requests, each kept in its place:  *)
(* a buffer that stood there before is forgotten.                           *)
Preallocate(n) ==
  /\ allocation_count < CountMax
  /\ todo' = << <<"sort", n>>, <<"huffman", n \div 2>>, <<"temp", n \div 4>> >>
  /\ UNCHANGED <<up, block, held, sys, pre, stats>>

FillBuffer ==
  /\ todo # <<>> /\ todo' = Tail(todo)
  /\ \E ptr \in DOMAIN block \cup {System, NULL} :
       Malloc(Head(todo)[2], ptr) /\ pre' = [pre EXCEPT ![Head(todo)[1]] = ptr]
  /\ UNCHANGED up

(* bzip2_reset_memory_stats *)
ResetStats ==
  /\ allocation_count' = 0 /\ free_count' = 0 /\ peak_allocated' = total_allocated
  /\ UNCHANGED <<up, block, held, sys, pre, todo, total_allocated>>

(* bzip2_cleanup_optimized_allocator, when the streams have given back what *)
(* they had from the pool. The buffers go also when there is no pool. What  *)
(* is freed before the pool goes needs no coalescing any more.              *)
Cleanup ==
  /\ DOMAIN held \subseteq Reserved
  /\ free_count < CountMax
  /\ up' = FALSE /\ block' = NoBlocks /\ held' = NoBlocks
  /\ sys' = sys - Cardinality({k \in Buffers : pre[k] = System})
  /\ pre' = [k \in Buffers |-> NULL]
  /\ IF up THEN /\ free_count' = free_count + Cardinality({k \in Buffers : pre[k] # NULL})
                /\ total_allocated' = 0 /\ peak_allocated' = 0
           ELSE UNCHANGED <<free_count, total_allocated, peak_allocated>>
  /\ UNCHANGED <<todo, allocation_count>>

TwoFree(b) == \E a \in DOMAIN b : b[a].next # NULL /\ ~b[a].in_use /\ ~b[b[a].next].in_use

(* bzip2_defragment_memory_pool *)
Defragment ==
  /\ up
  /\ block' =
       IF TwoFree(block)
       THEN FoldLeft(LAMBDA b, a :
              IF a \in DOMAIN b /\ ~b[a].in_use /\ b[a].next # NULL /\ ~b[b[a].next].in_use
              THEN coalesce_free_blocks(b, a) ELSE b,
              block, SetToSortSeq(DOMAIN block, <))
       ELSE block
  /\ UNCHANGED <<up, held, sys, pre, todo, stats>>

Call ==
  \/ \E gotPool \in BOOLEAN : InitAllocator(gotPool)
  \/ \E n \in Sizes : StreamAlloc(n)
  \/ \E n \in Sizes : Preallocate(n)
  \/ \E a \in DOMAIN held : StreamFree(a)
  \/ StreamFreeSystem \/ ResetStats \/ Cleanup \/ Defragment

(* One call after the other: nothing runs beside them. *)
Next == FillBuffer \/ (todo = <<>> /\ Call)

Spec == Init /\ [][Next]_vars

------------------------------------------------------------------------------
EndOf(b, a) == a + Header + b[a].size

(* Blocks tile the pool: each ends where the next begins, the last at the   *)
(* end of the pool, the links go both ways, no two blocks overlap.          *)
Tiled(b) ==
  /\ 0 \in DOMAIN b /\ DOMAIN b \subseteq Nat
  /\ \A a \in DOMAIN b :
       /\ b[a] \in [size : Nat, in_use : BOOLEAN, next : Int, prev : Int]
       /\ EndOf(b, a) <= BZIP2_POOL_SIZE
       /\ IF EndOf(b, a) = BZIP2_POOL_SIZE
          THEN b[a].next = NULL
          ELSE b[a].next = EndOf(b, a) /\ b[a].next \in DOMAIN b /\ b[b[a].next].prev = a
       /\ IF a = 0 THEN b[a].prev = NULL
                   ELSE b[a].prev \in DOMAIN b /\ b[b[a].prev].next = a
       /\ \A c \in DOMAIN b : a < c => EndOf(b, a) <= c

(* Every pointer handed out has a block of its own, at least as long as was *)
(* asked for; a block nobody holds is free. With PoolTiled no two of them   *)
(* share a byte.                                                            *)
HeldFits ==
  /\ DOMAIN held = {a \in DOMAIN block : block[a].in_use}
  /\ \A a \in DOMAIN held : block[a].size >= held[a]

(* Whatever is allocated and freed in whatever order, the blocks tile the   *)
(* pool, no byte of it is lost, and no two free blocks lie side by side, so *)
(* the defragmentation finds nothing to do.                                 *)
PoolTiled == up => Tiled(block) /\ ~TwoFree(block)
=============================================================================
