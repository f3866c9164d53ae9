----------------------------- MODULE BoundedFifo -----------------------------
(***************************************************************************)
(* What a ring buffer promises the threads that share it: a queue of at    *)
(* most Length items.  Every producer's items go in in its own order, and  *)
(* every item comes out once, oldest first, to one consumer.               *)
(***************************************************************************)
EXTENDS Naturals, Sequences

CONSTANTS Producers, Consumers,
          Length,       (* capacity                                  *)
          NoItem        (* what a consumer's variable holds at first *)

VARIABLES sent,         (* sent[p]: how many items p has put in      *)
          buffer,       (* the items in the queue, oldest first      *)
          received      (* received[c]: the last item c has got      *)

vars == <<sent, buffer, received>>

Init == /\ sent = [p \in Producers |-> 0]
        /\ buffer = <<>>
        /\ received = [c \in Consumers |-> NoItem]

(* An item is told apart by its producer and its number.                   *)
Put(p) == /\ Len(buffer) < Length
          /\ buffer' = Append(buffer, <<p, sent[p]>>)
          /\ sent' = [sent EXCEPT ![p] = @ + 1]
          /\ UNCHANGED received

Get(c) == /\ buffer # <<>>
          /\ received' = [received EXCEPT ![c] = Head(buffer)]
          /\ buffer' = Tail(buffer)
          /\ UNCHANGED sent

Next == (\E p \in Producers : Put(p)) \/ (\E c \in Consumers : Get(c))

Spec == Init /\ [][Next]_vars

=============================================================================
