------------------------------- MODULE Memory -------------------------------
(***************************************************************************)
(* What the allocators of slab/ and balloc/ have in common: a pool, and a  *)
(* program that asks it for memory and gives it back.                      *)
(***************************************************************************)
CONSTANT NULL               (* a null pointer                              *)

VARIABLES pool,             (* the pointer to the pool, NULL without one   *)
          held,             (* what the program has got and not freed      *)
          crashed           (* a pointer that leads nowhere was followed   *)
=============================================================================
