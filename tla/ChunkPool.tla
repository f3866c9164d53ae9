----------------------------- MODULE ChunkPool -----------------------------
(***************************************************************************)
(* What a slab allocator promises: classes of chunks, fed by a pool of     *)
(* slabs.  A chunk is free or in the program's hands, in one class for     *)
(* good; a class gets a slab only when it has no free chunk.               *)
(***************************************************************************)
EXTENDS Naturals

CONSTANTS Classes, Chunks

VARIABLES free,         (* free[c]: the free chunks of class c             *)
          used,         (* used[c]: the chunks of class c handed out       *)
          slabs         (* how many slabs the pool has left                *)

vars == <<free, used, slabs>>

Known == UNION {free[c] \cup used[c] : c \in Classes}

Init == /\ free \in [Classes -> SUBSET Chunks]
        /\ \A c, d \in Classes : c # d => free[c] \cap free[d] = {}
        /\ used = [c \in Classes |-> {}]
        /\ slabs \in Nat

(* Any free chunk of the class is handed out.                              *)
Alloc(c) == \E x \in free[c] \ free'[c] :
              /\ free' = [free EXCEPT ![c] = @ \ {x}]
              /\ used' = [used EXCEPT ![c] = @ \cup {x}]
              /\ UNCHANGED slabs

(* The class has no chunk: a slab becomes new ones, one is handed out.     *)
AllocFromSlab(c) == /\ free[c] = {} /\ slabs > 0 /\ slabs' = slabs - 1
                    /\ \E x \in Chunks \ Known :
                         /\ used' = [used EXCEPT ![c] = @ \cup {x}]
                         /\ free' = [free EXCEPT ![c] = free'[c]]
                         /\ free'[c] \subseteq Chunks \ (Known \cup {x})

(* There was no memory to chop the slab.                                   *)
LoseSlab(c) == /\ free[c] = {} /\ slabs > 0 /\ slabs' = slabs - 1
               /\ UNCHANGED <<free, used>>

(* Any chunk in the program's hands is given back.                         *)
Free(c) == \E x \in used[c] \ used'[c] :
             /\ used' = [used EXCEPT ![c] = @ \ {x}]
             /\ free' = [free EXCEPT ![c] = @ \cup {x}]
             /\ UNCHANGED slabs

Next == \E c \in Classes :
          Alloc(c) \/ AllocFromSlab(c) \/ LoseSlab(c) \/ Free(c)

Spec == Init /\ [][Next]_vars
=============================================================================
