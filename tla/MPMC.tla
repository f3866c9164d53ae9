-------------------------------- MODULE MPMC --------------------------------
(***************************************************************************)
(* matrix/MPMC: producer and consumer threads that share a ring buffer     *)
(* guarded by three of the semaphores of sem.c (rbuffer.c, main.c).  A     *)
(* step is one call of semaphore_P or semaphore_V, or the code between two *)
(* of them.  Sleeping and printing are left out.                           *)
(***************************************************************************)
EXTENDS Integers, FiniteSets

CONSTANTS Producers, Consumers,
          NumAll,       (* the number of products to produce       *)
          Length,       (* size of the ring buffer                 *)
          NoItem        (* memory that has not been written yet    *)

(* parse_args takes positive numbers only.                                 *)
ASSUME SizesAssumption == NumAll \in Nat \ {0} /\ Length \in Nat \ {0}

ASSUME ThreadsAssumption ==
  /\ IsFiniteSet(Producers) /\ Producers # {}
  /\ IsFiniteSet(Consumers) /\ Consumers # {}
  /\ Producers \cap Consumers = {}

VARIABLES
  array, head, tail, num_rest_to_produce, num_rest_to_consume,
  mutex, items, spaces,         (* the semaphores                          *)
  pc,                           (* where each thread is                    *)
  i,                            (* each thread's local count of items      *)
  item,                         (* each consumer's local variable          *)
  produced, consumed            (* the totals of struct Shared             *)

buffer_vars == <<array, head, tail, num_rest_to_produce, num_rest_to_consume>>
local_vars  == <<i, item>>
totals      == <<produced, consumed>>
vars == <<buffer_vars, mutex, items, spaces, pc, local_vars, totals>>

Threads == Producers \cup Consumers

Mutex  == INSTANCE Semaphore WITH sem <- mutex
Items  == INSTANCE Semaphore WITH sem <- items
Spaces == INSTANCE Semaphore WITH sem <- spaces

(* What a producer pushes: its count i, here with the producer's name so   *)
(* that the items of different producers can be told apart.                *)
Products == Producers \X Nat

-----------------------------------------------------------------------------
(* An exclusion semaphore that admits as many threads as the buffer has    *)
(* slots: a slip for the runs to refute, like the others named Bug.        *)
BugMakeRbuffer ==
  /\ array = [k \in 0 .. Length - 1 |-> NoItem]
  /\ head = 0 /\ tail = 0
  /\ num_rest_to_produce = NumAll /\ num_rest_to_consume = NumAll
  /\ mutex = Mutex!make_semaphore(Length)
  /\ items = Items!make_semaphore(0)
  /\ spaces = Spaces!make_semaphore(Length)

make_rbuffer ==
  /\ array = [k \in 0 .. Length - 1 |-> NoItem]
  /\ head = 0 /\ tail = 0
  /\ num_rest_to_produce = NumAll /\ num_rest_to_consume = NumAll
  /\ mutex = Mutex!make_semaphore(1)
  /\ items = Items!make_semaphore(0)
  /\ spaces = Spaces!make_semaphore(Length)

Init == /\ make_rbuffer
        /\ pc = [t \in Threads |->
                   IF t \in Producers THEN "p_spaces" ELSE "c_items"]
        /\ i = [t \in Threads |-> 0]
        /\ item = [c \in Consumers |-> NoItem]
        /\ produced = 0 /\ consumed = 0

rbuffer_empty == head - tail = 0

Goto(t, from, to) == pc[t] = from /\ pc' = [pc EXCEPT ![t] = to]

Stay(t, at) == pc[t] = at /\ UNCHANGED pc

-----------------------------------------------------------------------------
(* rbuffer_push, and producer_entry around it.                             *)
PushSpaces(p) ==
  /\ \/ Spaces!PReturn(p) /\ Goto(p, "p_spaces", "p_mutex")
     \/ Spaces!PBlock(p) /\ Stay(p, "p_spaces")
  /\ UNCHANGED <<buffer_vars, mutex, items, local_vars, totals>>

PushMutex(p) ==
  /\ \/ Mutex!PReturn(p) /\ Goto(p, "p_mutex", "p_body")
     \/ Mutex!PBlock(p) /\ Stay(p, "p_mutex")
  /\ UNCHANGED <<buffer_vars, items, spaces, local_vars, totals>>

(* The objective is reached: the decrement of num_rest_to_produce that     *)
(* finds it is taken back.                                                 *)
NothingToDo(p) ==
  /\ num_rest_to_produce - 1 < 0
  /\ Goto(p, "p_body", "p_end_mutex")
  /\ UNCHANGED <<buffer_vars, mutex, items, spaces, local_vars, totals>>

PushItem(p) ==
  /\ num_rest_to_produce - 1 >= 0
  /\ Goto(p, "p_body", "p_unlock")
  /\ num_rest_to_produce' = num_rest_to_produce - 1
  /\ array' = [array EXCEPT ![head % Length] = <<p, i[p]>>]
  /\ head' = head + 1
  /\ UNCHANGED <<tail, num_rest_to_consume, mutex, items, spaces,
                 local_vars, totals>>

PushUnlock(p) ==
  /\ \/ Goto(p, "p_unlock", "p_items")
     \/ Goto(p, "p_end_mutex", "p_end_spaces")
  /\ Mutex!semaphore_V(p)
  /\ UNCHANGED <<buffer_vars, items, spaces, local_vars, totals>>

(* The push returns and the producer counts its item.                      *)
PushDone(p) ==
  /\ Goto(p, "p_items", "p_spaces")
  /\ Items!semaphore_V(p)
  /\ i' = [i EXCEPT ![p] = @ + 1]
  /\ UNCHANGED <<buffer_vars, mutex, spaces, item, totals>>

PushRefused(p) ==
  /\ Goto(p, "p_end_spaces", "p_report")
  /\ Spaces!semaphore_V(p)
  /\ UNCHANGED <<buffer_vars, mutex, items, local_vars, totals>>

update_produced(p) ==
  /\ Goto(p, "p_report", "done")
  /\ produced' = produced + i[p]
  /\ UNCHANGED <<buffer_vars, mutex, items, spaces, local_vars, consumed>>

Produce(p) == \/ PushSpaces(p) \/ PushMutex(p)
              \/ NothingToDo(p) \/ PushItem(p)
              \/ PushUnlock(p) \/ PushDone(p) \/ PushRefused(p)
              \/ update_produced(p)

-----------------------------------------------------------------------------
(* rbuffer_pop, and consumer_entry around it.                              *)
PopItems(c) ==
  /\ \/ Items!PReturn(c) /\ Goto(c, "c_items", "c_mutex")
     \/ Items!PBlock(c) /\ Stay(c, "c_items")
  /\ UNCHANGED <<buffer_vars, mutex, spaces, local_vars, totals>>

PopMutex(c) ==
  /\ \/ Mutex!PReturn(c) /\ Goto(c, "c_mutex", "c_body")
     \/ Mutex!PBlock(c) /\ Stay(c, "c_mutex")
  /\ UNCHANGED <<buffer_vars, items, spaces, local_vars, totals>>

JobDone(c) ==
  /\ num_rest_to_produce <= 0 /\ rbuffer_empty
  /\ Goto(c, "c_body", "c_end_mutex")
  /\ UNCHANGED <<buffer_vars, mutex, items, spaces, local_vars, totals>>

(* A consumer that moves the tail before it reads the slot.                *)
BugPopItem(c) ==
  /\ ~(num_rest_to_produce <= 0 /\ rbuffer_empty)
  /\ item' = [item EXCEPT ![c] = array[(tail + 1) % Length]]
  /\ tail' = tail + 1
  /\ num_rest_to_consume' = num_rest_to_consume - 1
  /\ Goto(c, "c_body",
          IF num_rest_to_consume - 1 <= 0 THEN "c_wake" ELSE "c_unlock")
  /\ UNCHANGED <<array, head, num_rest_to_produce, mutex, items, spaces,
                 i, totals>>

PopItem(c) ==
  /\ ~(num_rest_to_produce <= 0 /\ rbuffer_empty)
  /\ item' = [item EXCEPT ![c] = array[tail % Length]]
  /\ tail' = tail + 1
  /\ num_rest_to_consume' = num_rest_to_consume - 1
  /\ Goto(c, "c_body",
          IF num_rest_to_consume - 1 <= 0 THEN "c_wake" ELSE "c_unlock")
  /\ UNCHANGED <<array, head, num_rest_to_produce, mutex, items, spaces,
                 i, totals>>

(* A last consumer that wakes nobody.                                      *)
BugWakeOthers(c) ==
  /\ Goto(c, "c_wake", "c_unlock")
  /\ UNCHANGED <<buffer_vars, mutex, items, spaces, local_vars, totals>>

(* The last item is gone: let the consumers that wait for one jump out.    *)
WakeOthers(c) ==
  /\ Goto(c, "c_wake", "c_unlock")
  /\ Items!semaphore_V(c)
  /\ UNCHANGED <<buffer_vars, mutex, spaces, local_vars, totals>>

PopUnlock(c) ==
  /\ \/ Goto(c, "c_unlock", "c_spaces")
     \/ Goto(c, "c_end_mutex", "c_end_items")
  /\ Mutex!semaphore_V(c)
  /\ UNCHANGED <<buffer_vars, items, spaces, local_vars, totals>>

(* A pop that gives back an item where it owes a place.                    *)
BugPopDone(c) ==
  /\ Goto(c, "c_spaces", "c_items")
  /\ Items!semaphore_V(c)
  /\ i' = [i EXCEPT ![c] = @ + 1]
  /\ UNCHANGED <<buffer_vars, mutex, spaces, item, totals>>

(* The pop returns and the consumer counts its item.                       *)
PopDone(c) ==
  /\ Goto(c, "c_spaces", "c_items")
  /\ Spaces!semaphore_V(c)
  /\ i' = [i EXCEPT ![c] = @ + 1]
  /\ UNCHANGED <<buffer_vars, mutex, items, item, totals>>

(* A consumer that leaves hands its permit to the next one.                *)
PassOn(c) ==
  /\ Goto(c, "c_end_items", "c_report")
  /\ Items!semaphore_V(c)
  /\ UNCHANGED <<buffer_vars, mutex, spaces, local_vars, totals>>

update_consumed(c) ==
  /\ Goto(c, "c_report", "done")
  /\ consumed' = consumed + i[c]
  /\ UNCHANGED <<buffer_vars, mutex, items, spaces, local_vars, produced>>

Consume(c) == \/ PopItems(c) \/ PopMutex(c)
              \/ JobDone(c) \/ PopItem(c) \/ WakeOthers(c)
              \/ PopUnlock(c) \/ PopDone(c) \/ PassOn(c)
              \/ update_consumed(c)

-----------------------------------------------------------------------------
SpuriousWakeup ==
  /\ \E t \in Threads :
       \/ Mutex!SpuriousWakeup(t) /\ UNCHANGED <<items, spaces>>
       \/ Items!SpuriousWakeup(t) /\ UNCHANGED <<mutex, spaces>>
       \/ Spaces!SpuriousWakeup(t) /\ UNCHANGED <<mutex, items>>
  /\ UNCHANGED <<buffer_vars, pc, local_vars, totals>>

AllDone == \A t \in Threads : pc[t] = "done"

(* main has joined every thread and prints the totals.                     *)
Joined == AllDone /\ UNCHANGED vars

Next == \/ \E p \in Producers : Produce(p)
        \/ \E c \in Consumers : Consume(c)
        \/ SpuriousWakeup
        \/ Joined

Spec == Init /\ [][Next]_vars

(* A thread that can run is scheduled, and gets the mutexes it asks for.   *)
Fairness == /\ \A p \in Producers : WF_vars(Produce(p))
            /\ \A c \in Consumers : WF_vars(Consume(c))

FairSpec == Spec /\ Fairness

-----------------------------------------------------------------------------
At(labels) == {t \in Threads : pc[t] \in labels}

PcLabels == {"p_spaces", "p_mutex", "p_body", "p_unlock", "p_items",
             "p_end_mutex", "p_end_spaces", "p_report",
             "c_items", "c_mutex", "c_body", "c_wake", "c_unlock",
             "c_spaces", "c_end_mutex", "c_end_items", "c_report", "done"}

(* Every struct has its types, and the counters of rbuffer.h stay in their *)
(* ranges: the decrement of num_rest_to_produce below 0 is taken back, and *)
(* no consumer takes an item that was never produced.                      *)
TypeOK ==
  /\ array \in [0 .. Length - 1 -> Products \cup {NoItem}]
  /\ head \in Nat /\ tail \in Nat
  /\ num_rest_to_produce \in 0 .. NumAll
  /\ num_rest_to_consume \in 0 .. NumAll
  /\ Mutex!WellFormed /\ Items!WellFormed /\ Spaces!WellFormed
  /\ pc \in [Threads -> PcLabels]
  /\ i \in [Threads -> Nat]
  /\ item \in [Consumers -> Products \cup {NoItem}]
  /\ produced \in Nat /\ consumed \in Nat

(* Between semaphore_P and semaphore_V of the mutex.                       *)
Holding == {"p_body", "p_unlock", "p_end_mutex",
            "c_body", "c_wake", "c_unlock", "c_end_mutex"}

(* "guarantee exclusive access" (rbuffer.c:29): one thread at a time is in *)
(* the part of push and pop that reads and writes the ring buffer, though  *)
(* the mutex is a semaphore that any thread may give back.                 *)
MutualExclusion ==
  \A t, u \in Threads :
     pc[t] \in Holding /\ pc[u] \in Holding => t = u

(* A permit of spaces is a free slot: the free permits, the ones in the    *)
(* hands of producers and of consumers that have just emptied a slot, and  *)
(* the slots in use make up the whole buffer at every step, so no push can *)
(* overwrite an item that was not popped and no place is lost when pushes  *)
(* are refused at the end.                                                 *)
WithSpace == {"p_mutex", "p_body", "p_end_mutex", "p_end_spaces",
              "c_wake", "c_unlock", "c_spaces"}
SpacesAccounted ==
  Spaces!Permits + Cardinality(At(WithSpace)) + (head - tail) = Length

(* A permit of items is an item to pop, but for the one extra permit that  *)
(* the last pop makes (rbuffer.c:121) and that every leaving consumer      *)
(* hands on: there is exactly one of these, never two.                     *)
WithItem == {"p_unlock", "p_items", "c_mutex", "c_body", "c_wake",
             "c_end_mutex", "c_end_items"}
Extra == IF num_rest_to_consume = 0 THEN 1 ELSE 0
ItemsAccounted ==
  Items!Permits + Cardinality(At(WithItem)) = (head - tail) + Extra

(* The ring buffer is a bounded queue: from outside, no interleaving of    *)
(* pushes and pops loses, doubles or reorders an item.                     *)
Sent(p) == i[p] + (IF pc[p] \in {"p_unlock", "p_items"} THEN 1 ELSE 0)
Buffered == [k \in 1 .. head - tail |-> array[(tail + k - 1) % Length]]

Fifo == INSTANCE BoundedFifo WITH
          sent <- [p \in Producers |-> Sent(p)],
          buffer <- Buffered,
          received <- item
ImplementsFifo == Fifo!Spec

(* Every producer and every consumer comes to its end, and main joins      *)
(* them: the refused producers give their places back and the last item's  *)
(* consumer sets off the chain that lets the waiting consumers go.  The    *)
(* two totals that main then prints agree with the order (main.c:242-245), *)
(* and nothing is left in the buffer.                                      *)
Tally == produced = NumAll /\ consumed = NumAll /\ head = tail
Termination == <>(AllDone /\ Tally)

=============================================================================
