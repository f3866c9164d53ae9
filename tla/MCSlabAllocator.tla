-------------------------- MODULE MCSlabAllocator --------------------------
(***************************************************************************)
(* SlabAllocator with two classes: two chunks to a slab and one.         *)
(***************************************************************************)
EXTENDS SlabAllocator

MCChunkSizes == <<3, 6>>
=============================================================================
