--------------------------- MODULE SlabAllocator ---------------------------
(***************************************************************************)
(* slab/slab_allocator.c: chunks of a few sizes, chopped from slabs of one *)
(* size that a pool supplies.  A class keeps its free chunks in a doubly   *)
(* linked list known by its head, and the chunks handed out in another     *)
(* known by its tail.  The module is about the pointers: a chunk is known  *)
(* by its slab and its place there, which stand for its struct chunk_t and *)
(* for its address as well.  There are no threads; a step is one call.     *)
(***************************************************************************)
EXTENDS Integers, Sequences, FiniteSets, Functions, Memory

CONSTANTS PoolSizes,    (* the pool sizes to try, in slabs (0: too small)  *)
          SlabSize,     (* SIZE_SLAB                                       *)
          ChunkSizes,   (* CHUNK_SIZES, one for each of MAX_NUM_CLASSES    *)
          Requests      (* the numbers of bytes the program may ask for    *)

MaxClasses == Len(ChunkSizes)

ASSUME SizesAssumption ==
  /\ PoolSizes \subseteq Nat
  /\ SlabSize \in Nat \ {0}
  /\ ChunkSizes \in Seq(Nat)
  /\ \A c \in 1 .. MaxClasses : ChunkSizes[c] \in 1 .. SlabSize
  /\ \A c \in 1 .. MaxClasses - 1 : ChunkSizes[c] < ChunkSizes[c + 1]
  /\ Requests \subseteq Int

(* NULL points to no chunk and to no array of classes.                     *)
MaybeChunk == (Nat \X Nat) \cup {NULL}
ASSUME PointersAssumption ==
  /\ NULL \notin Nat \X Nat
  /\ \A k \in 0 .. MaxClasses :
       NULL \notin [1 .. k -> [head_chunk : MaybeChunk,
                              allocated_chunks : MaybeChunk]]

VARIABLES n_total,              (* how many slabs init has linked          *)
          n_slabs,              (* struct slab_allocator, which also has   *)
          n_classes, classes,   (* the pool                                *)
          prev, next            (* the pointers of every struct chunk_t    *)

pool_vars  == <<n_total, n_slabs, pool, n_classes>>
chunk_vars == <<classes, prev, next, held>>
vars == <<pool_vars, chunk_vars, crashed>>

-----------------------------------------------------------------------------
(* Slabs are numbered as init_slab_allocator links them.                   *)
NextSlab(s) == IF s = n_total THEN NULL ELSE s + 1

NChunks(c) == SlabSize \div ChunkSizes[c]

(* chopSlab: the chunks of slab s, linked in their order; a slip links all *)
(* but the last.                                                           *)
BugChopNext(s, c) == [x \in {s} \X (0 .. NChunks(c) - 1) |->
  IF x[2] >= NChunks(c) - 2 THEN NULL ELSE <<s, x[2] + 1>>]

Chopped(s, c) == {s} \X (0 .. NChunks(c) - 1)
ChopPrev(s, c) == [x \in Chopped(s, c) |->
                     IF x[2] = 0 THEN NULL ELSE <<s, x[2] - 1>>]
ChopNext(s, c) == [x \in Chopped(s, c) |->
                     IF x[2] = NChunks(c) - 1 THEN NULL ELSE <<s, x[2] + 1>>]

(* f with the values of g where g has any.                                 *)
Over(f, g) == [x \in DOMAIN f \cup DOMAIN g |->
                 IF x \in DOMAIN g THEN g[x] ELSE f[x]]

(* f with x -> y when x is a pointer that is not NULL.                     *)
Set(f, x, y) == IF x = NULL THEN f ELSE [f EXCEPT ![x] = y]

(* Where the pointers of link lead from x in n steps; a walk that has not  *)
(* ended after as many steps as there are chunks goes in a circle.         *)
Walk(link, x) ==
  LET step == [y \in DOMAIN link \cup {NULL} |->
                 IF y = NULL THEN NULL ELSE link[y]]
      at[n \in 0 .. Cardinality(DOMAIN link)] ==
        IF n = 0 THEN x ELSE step[at[n - 1]]
  IN  at

Met(link, x) == Range(Walk(link, x)) \ {NULL}
Ends(link, x) == Walk(link, x)[Cardinality(DOMAIN link)] = NULL

Classes == 1 .. n_classes
Available(c) == Met(next, classes[c].head_chunk)
Allocated(c) == Met(prev, classes[c].allocated_chunks)

-----------------------------------------------------------------------------
(* init_slab_allocator: a pool of n slabs, the first of which are chopped  *)
(* for the classes; malloc can fail for the pool, and for the chunks of    *)
(* any class, which then has none and has lost its slab.                   *)
ClassesFor(n) == IF n > MaxClasses THEN MaxClasses ELSE n

InitNoPool(n) ==
  /\ n_slabs = n /\ n_classes = ClassesFor(n)
  /\ pool = NULL /\ classes = NULL /\ n_total = 0
  /\ prev = <<>> /\ next = <<>>

InitPool(n, failed) ==
  LET k == ClassesFor(n)
      done == (1 .. k) \ failed
      chunks == UNION {Chopped(c, c) : c \in done}
  IN  /\ n_total = n /\ n_slabs = n - k /\ n_classes = k
      /\ pool = IF k = n THEN NULL ELSE k + 1
      /\ classes = [c \in 1 .. k |->
           [head_chunk |-> IF c \in done THEN <<c, 0>> ELSE NULL,
            allocated_chunks |-> NULL]]
      /\ prev = [x \in chunks |-> ChopPrev(x[1], x[1])[x]]
      /\ next = [x \in chunks |-> ChopNext(x[1], x[1])[x]]

init_slab_allocator(n) ==
  \/ InitNoPool(n)
  \/ n > 0 /\ \E failed \in SUBSET (1 .. MaxClasses) : InitPool(n, failed)

Init == /\ \E n \in PoolSizes : init_slab_allocator(n)
        /\ held = {} /\ crashed = FALSE

-----------------------------------------------------------------------------
(* alloc_mem: the class is the first whose chunks are large enough.        *)
Fitting(bytes) == {c \in Classes : ChunkSizes[c] >= bytes}
FirstFit(bytes, c) == /\ c \in Fitting(bytes)
                      /\ \A d \in Fitting(bytes) : c <= d

(* popChunk and addToAllocated: h, the head of class c's list, goes to the *)
(* end of its allocated list; p and n are the pointers before that.        *)
Give(c, h, p, n) ==
  LET last == classes[c].allocated_chunks
      rest == n[h]
  IN  /\ classes' = [classes EXCEPT ![c] = [head_chunk |-> rest,
                                            allocated_chunks |-> h]]
      /\ prev' = Set([p EXCEPT ![h] = last], rest, NULL)
      /\ next' = Set([n EXCEPT ![h] = NULL], last, h)
      /\ held' = held \cup {h}

AllocFromList(c) == /\ classes[c].head_chunk # NULL
                    /\ Give(c, classes[c].head_chunk, prev, next)
                    /\ UNCHANGED <<pool_vars, crashed>>

(* popSlab, and a slip that forgets the count.                             *)
BugPopSlab == /\ pool # NULL /\ n_slabs # 0
              /\ pool' = NextSlab(pool)
              /\ UNCHANGED <<n_total, n_classes, n_slabs>>

popSlab == /\ pool # NULL /\ n_slabs # 0
           /\ pool' = NextSlab(pool) /\ n_slabs' = n_slabs - 1
           /\ UNCHANGED <<n_total, n_classes>>

AllocFromSlab(c) == /\ classes[c].head_chunk = NULL /\ popSlab
                    /\ Give(c, <<pool, 0>>, Over(prev, ChopPrev(pool, c)),
                                            Over(next, ChopNext(pool, c)))
                    /\ UNCHANGED crashed

(* malloc fails in chopSlab, and popChunk follows the NULL it returns.     *)
AllocNoMemory(c) == /\ classes[c].head_chunk = NULL /\ popSlab
                    /\ crashed' = TRUE
                    /\ UNCHANGED chunk_vars

(* The caller gets NULL.                                                   *)
AllocRefused(bytes) ==
  /\ \/ bytes <= 0
     \/ n_classes = 0
     \/ classes # NULL /\ Fitting(bytes) = {}
     \/ classes # NULL /\ \E c \in Classes :
          /\ FirstFit(bytes, c) /\ classes[c].head_chunk = NULL
          /\ n_slabs = 0 \/ pool = NULL
  /\ UNCHANGED vars

(* A failed init has left n_classes set and no classes.                    *)
NoClasses == n_classes > 0 /\ classes = NULL
Crash == NoClasses /\ crashed' = TRUE /\ UNCHANGED <<pool_vars, chunk_vars>>

alloc_mem(bytes) ==
  \/ AllocRefused(bytes)
  \/ bytes > 0 /\ Crash
  \/ /\ bytes > 0 /\ classes # NULL
     /\ \E c \in Classes :
          /\ FirstFit(bytes, c)
          /\ AllocFromList(c) \/ AllocFromSlab(c) \/ AllocNoMemory(c)

-----------------------------------------------------------------------------
(* A slip: the tail of the allocated list is not moved back.               *)
BugUnlink(c, x) == classes[c].allocated_chunks

(* The tail of class c's allocated list once x has left it.                *)
Unlink(c, x) == IF next[x] = NULL THEN prev[x] ELSE classes[c].allocated_chunks

(* A slip: the old head of the list does not point back.                   *)
BugPutBack(x, h) == /\ prev' = [Set(prev, next[x], prev[x]) EXCEPT ![x] = NULL]
                    /\ next' = [Set(next, prev[x], next[x]) EXCEPT ![x] = h]

(* x is taken out from between its neighbours and put before the head h.   *)
PutBack(x, h) ==
  /\ prev' = Set([Set(prev, next[x], prev[x]) EXCEPT ![x] = NULL], h, x)
  /\ next' = [Set(next, prev[x], next[x]) EXCEPT ![x] = h]

FreeChunk(c, x) ==
  /\ x \in Allocated(c)
  /\ PutBack(x, classes[c].head_chunk)
  /\ classes' = [classes EXCEPT ![c] =
       [head_chunk |-> x, allocated_chunks |-> Unlink(c, x)]]
  /\ held' = held \ {x}
  /\ UNCHANGED <<pool_vars, crashed>>

(* -1: NULL, or a pointer that no class has allocated.                     *)
FreeRefused(x) == /\ \/ x = NULL
                     \/ n_classes = 0
                     \/ /\ classes # NULL
                        /\ \A c \in Classes : x \notin Allocated(c)
                  /\ UNCHANGED vars

free_mem(x) == \/ FreeRefused(x)
               \/ x # NULL /\ Crash
               \/ classes # NULL /\ \E c \in Classes : FreeChunk(c, x)

-----------------------------------------------------------------------------
(* What the program may free: NULL, any chunk there is, its own or not, or *)
(* an address that is not of the pool.                                     *)
Foreign == <<0, 0>>

Next == \/ /\ ~ crashed
           /\ \/ \E bytes \in Requests : alloc_mem(bytes)
              \/ \E x \in DOMAIN next \cup {NULL, Foreign} : free_mem(x)
        \/ crashed /\ UNCHANGED vars

Spec == Init /\ [][Next]_vars

-----------------------------------------------------------------------------
Chunks == (UNION {1 .. n : n \in PoolSizes})
            \X (0 .. SlabSize - 1)
Pointers == DOMAIN next \cup {NULL}

(* The pointers point at chunks that exist, and the pool's pointer and its *)
(* count tell the same (popSlab tests both).                               *)
TypeOK == /\ n_classes \in 0 .. MaxClasses
          /\ DOMAIN prev = DOMAIN next /\ DOMAIN next \subseteq Chunks
          /\ prev \in [DOMAIN prev -> Pointers]
          /\ next \in [DOMAIN next -> Pointers]
          /\ classes # NULL =>
               /\ classes \in [Classes -> [head_chunk : Pointers,
                                           allocated_chunks : Pointers]]
               /\ pool = IF n_slabs = 0 THEN NULL ELSE n_total - n_slabs + 1
          /\ held \subseteq DOMAIN next /\ crashed \in BOOLEAN

(* Both lists of every class can be walked in both directions, and end:    *)
(* each pointer is answered by its opposite, whatever the order in which   *)
(* chunks were allocated and freed (popChunk, addToAllocated, free_mem).   *)
ListsLinked ==
  /\ \A x \in DOMAIN next : /\ next[x] # NULL => prev[next[x]] = x
                            /\ prev[x] # NULL => next[prev[x]] = x
  /\ classes # NULL => \A c \in Classes :
       LET head == classes[c].head_chunk
           tail == classes[c].allocated_chunks
       IN  /\ Ends(next, head) /\ Ends(prev, tail)
           /\ head # NULL => prev[head] = NULL
           /\ tail # NULL => next[tail] = NULL

(* Every chunk of every chopped slab is in one list of one class, the same *)
(* class for the whole slab: none is lost by any sequence of calls.  The   *)
(* allocated lists hold exactly what the program has in its hands, so that *)
(* free_mem finds every chunk it is handed.                                *)
NoChunkLost ==
  classes # NULL =>
    LET available == [c \in Classes |-> Available(c)]
        allocated == [c \in Classes |-> Allocated(c)]
        slabs == [c \in Classes |->
                    {x[1] : x \in available[c] \cup allocated[c]}]
    IN  /\ UNION Range(allocated) = held
        /\ (UNION Range(available)) \cup held = DOMAIN next
        /\ \A c \in Classes : available[c] \cap allocated[c] = {}
        /\ \A c, d \in Classes : c # d => slabs[c] \cap slabs[d] = {}

(* The lists implement sets of chunks that a pool of slabs feeds.          *)
Sets == INSTANCE ChunkPool WITH
          Classes <- 1 .. MaxClasses,
          slabs <- n_slabs,
          free <- [c \in 1 .. MaxClasses |->
                     IF classes # NULL /\ c \in Classes THEN Available(c)
                                                        ELSE {}],
          used <- [c \in 1 .. MaxClasses |->
                     IF classes # NULL /\ c \in Classes THEN Allocated(c)
                                                        ELSE {}]
ImplementsPool == Sets!Spec
=============================================================================
