----------------------------- MODULE BlockPool -----------------------------
(***************************************************************************)
(* balloc/balloc.c: a pool of aligned blocks.  A block is its address, as  *)
(* aligned_malloc computes it.  The nodes of the free list are never       *)
(* changed once they are linked, so the chain from pool_head is a sequence *)
(* of blocks; what it ends in is the next pointer of the last node that    *)
(* create_block_pool made, which nobody ever sets.                         *)
(***************************************************************************)
EXTENDS Integers, Sequences, FiniteSets, Memory

CONSTANTS num_blocks, block_size,
          Alignment,    (* create_block_pool's parameters                  *)
          PointerSize,  (* sizeof(void* )                                  *)
          MaxAddress,   (* the model's bound on what malloc returns        *)
          Unset         (* a pointer that was never set                    *)

ASSUME BlockSizesAssumption ==
  /\ num_blocks \in Nat \ {0} /\ block_size \in Nat \ {0}
  /\ Alignment \in Nat \ {0} /\ PointerSize \in Nat \ {0}
  /\ MaxAddress \in Nat

ASSUME BlockPointersAssumption == NULL \notin Int /\ Unset # NULL

VARIABLES chunk,            (* chunk[k]: the malloc behind the k-th block  *)
          list,             (* the blocks of the nodes from pool_head on   *)
          last,             (* what next of the last node made holds       *)
          num_avail_blocks

fixed == <<pool, chunk, last>>
block_vars == <<fixed, list, num_avail_blocks, held, crashed>>

Numbers == 1 .. num_blocks

-----------------------------------------------------------------------------
(* A slip: no room for the pointer to the chunk.                           *)
BugMallocSize == block_size + Alignment - 1

(* What aligned_malloc asks for, and the address it makes of the answer.   *)
MallocSize == block_size + Alignment - 1 + PointerSize

aligned_malloc(ptr) ==
  LET addr == ptr + Alignment - 1 + PointerSize
  IN  addr - (addr % Alignment)

Blocks == {aligned_malloc(chunk[k]) : k \in Numbers}

(* malloc returns pieces of memory that do not overlap.                    *)
Disjoint(c) ==
  \A j, k \in Numbers : j # k => \/ c[j] + MallocSize <= c[k]
                                 \/ c[k] + MallocSize <= c[j]

(* Either a pool with all its blocks or nothing: a call with a size that   *)
(* is not positive, or a malloc that fails, gives NULL.                    *)
create_block_pool ==
  /\ pool \in {NULL, "pool"}
  /\ chunk \in [Numbers -> 0 .. MaxAddress] /\ Disjoint(chunk)
  /\ list = IF pool = NULL THEN <<>>
            ELSE [k \in Numbers |-> aligned_malloc(chunk[k])]
  /\ last \in {NULL, Unset}
  /\ num_avail_blocks = IF pool = NULL THEN 0 ELSE num_blocks

BlockInit == create_block_pool /\ held = {} /\ crashed = FALSE

pool_head == IF list # <<>> THEN Head(list) ELSE last

-----------------------------------------------------------------------------
CanAlloc == ~ crashed /\ pool # NULL /\ pool_head # NULL
            /\ num_avail_blocks > 0

(* A slip: pool_head stays where it is.                                    *)
BugAlloc == /\ CanAlloc /\ list # <<>>
            /\ held' = held \cup {Head(list)}
            /\ num_avail_blocks' = num_avail_blocks - 1
            /\ UNCHANGED <<fixed, list, crashed>>

(* The first node's block is handed out; the node itself is leaked.        *)
alloc_align_block ==
  /\ CanAlloc
  /\ num_avail_blocks' = num_avail_blocks - 1
  /\ crashed' = (list = <<>>)
  /\ held' = IF list = <<>> THEN held ELSE held \cup {Head(list)}
  /\ list' = IF list = <<>> THEN list ELSE Tail(list)
  /\ UNCHANGED fixed

BlockAllocRefused == ~ crashed /\ ~ CanAlloc /\ UNCHANGED block_vars

-----------------------------------------------------------------------------
(* What a program may hand to free_align_block: NULL, a block, whether it  *)
(* holds it or has freed it already, or one moved off its alignment.       *)
Moved == {p \in {b + 1 : b \in Blocks} : p % Alignment # 0}
BlockPointers == {NULL} \cup (IF pool = NULL THEN {} ELSE Blocks \cup Moved)

InPool(blk) == \E k \in DOMAIN list : list[k] = blk

(* The tests before the scan of the list.                                  *)
MayFree(blk) ==
  /\ pool # NULL /\ blk # NULL
  /\ num_avail_blocks < num_blocks
  /\ blk % Alignment = 0

BlockFreeRefused(blk) == /\ ~ crashed
                         /\ ~ MayFree(blk) \/ InPool(blk)
                         /\ UNCHANGED block_vars

(* The scan that does not find the block goes on to where the list ends.   *)
Scanned(blk) == ~ crashed /\ MayFree(blk) /\ ~ InPool(blk)

FollowsUnset(blk) ==
  /\ Scanned(blk) /\ last = Unset
  /\ crashed' = TRUE
  /\ UNCHANGED <<fixed, list, num_avail_blocks, held>>

(* There is no memory for a node: the program keeps the block.             *)
FreeNoMemory(blk) == Scanned(blk) /\ UNCHANGED block_vars

(* A slip: the block is not looked for in the list.                        *)
BugFree(blk) ==
  /\ ~ crashed /\ MayFree(blk)
  /\ list' = <<blk>> \o list
  /\ num_avail_blocks' = num_avail_blocks + 1
  /\ held' = held \ {blk}
  /\ UNCHANGED <<fixed, crashed>>

(* An unset pointer may by chance be null, or lead to memory in which the  *)
(* scan ends.                                                              *)
free_align_block(blk) ==
  /\ Scanned(blk)
  /\ list' = <<blk>> \o list
  /\ num_avail_blocks' = num_avail_blocks + 1
  /\ held' = held \ {blk}
  /\ UNCHANGED <<fixed, crashed>>

-----------------------------------------------------------------------------
Free(blk) == \/ BlockFreeRefused(blk) \/ FollowsUnset(blk)
             \/ FreeNoMemory(blk) \/ free_align_block(blk)

BlockCrash == crashed /\ UNCHANGED block_vars

BlockNext == \/ alloc_align_block
             \/ BlockAllocRefused
             \/ \E blk \in BlockPointers : Free(blk)
             \/ BlockCrash

BlockSpec == BlockInit /\ [][BlockNext]_block_vars

-----------------------------------------------------------------------------
BlockTypeOK == /\ pool \in {NULL, "pool"}
               /\ chunk \in [Numbers -> 0 .. MaxAddress]
               /\ last \in {NULL, Unset}
               /\ list \in Seq(Blocks)
               /\ num_avail_blocks \in 0 .. num_blocks
               /\ held \subseteq Blocks
               /\ crashed \in BOOLEAN

(* Every block of the pool is in its list, once, or in the program's       *)
(* hands, and num_avail_blocks is the length of the list: blocks freed     *)
(* twice, moved or freed into a full pool change nothing, a block the      *)
(* program holds can be given back, and alloc_align_block never takes what *)
(* the list ends in for a node.                                            *)
BlocksAccounted ==
  pool # NULL =>
    /\ num_avail_blocks = Len(list)
    /\ \A j, k \in DOMAIN list : j # k => list[j] # list[k]
    /\ \A k \in DOMAIN list : list[k] \notin held
    /\ \A b \in Blocks : b \in held \/ InPool(b)
    /\ num_avail_blocks + Cardinality(held) = num_blocks

(* A block is aligned and lies, with the pointer kept in front of it, in   *)
(* memory of its own: writing to one the program holds touches no other    *)
(* block and no other block's pointer (aligned_malloc).                    *)
Extent(b) == (b - PointerSize) .. (b + block_size - 1)
BlocksApart ==
  /\ \A b \in Blocks : b % Alignment = 0
  /\ \A b \in held : \A k \in Numbers :
       b # aligned_malloc(chunk[k]) =>
         Extent(b) \cap Extent(aligned_malloc(chunk[k])) = {}
  /\ \A k \in Numbers :
       Extent(aligned_malloc(chunk[k]))
         \subseteq chunk[k] .. (chunk[k] + MallocSize - 1)

(* The list implements a set of free blocks from which any may be handed   *)
(* out: one class of a ChunkPool that gets no slabs.                       *)
BlockSets == INSTANCE ChunkPool WITH
               Classes <- {1}, Chunks <- Int, slabs <- 0,
               free <- [c \in {1} |-> {list[k] : k \in DOMAIN list}],
               used <- [c \in {1} |-> held]
BlocksImplementPool == BlockSets!Spec
=============================================================================
