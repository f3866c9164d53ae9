--------------------------- MODULE ShmRingProofs ---------------------------
(***************************************************************************)
(* For any size of the ring, any width of its counters and any number of   *)
(* messages: on a segment that holds no items of an earlier run the        *)
(* processes of IPC/sysvshm and IPC/posixshm never meet at a slot, and the *)
(* ring implements a bounded queue.  The argument is one inductive         *)
(* invariant, IInv: what each process has tested stays true until it acts  *)
(* on it, whatever the other does.                                         *)
(***************************************************************************)
EXTENDS ShmRing, DataLemmas

(* Until rb_init is over the child finds the ring empty, and what rb_init  *)
(* has loaded is still what tail is.                                       *)
Fresh == /\ parent \in {"start", "init"} =>
              head = tail /\ child \notin {"load", "advance"} /\ sent = 0
         /\ parent = "init" => old_tail = tail

(* What a process has found when its spin ended.                           *)
Tested == /\ parent \in {"store", "publish"} => Used < Size
          /\ child \in {"load", "advance"} => Used > 0

(* The item that rb_add is about to publish is in its slot.                *)
Stored == parent = "publish" => data[Slot(head)] = <<"parent", sent>>

(* The parent is in its loop until it has added the end.                   *)
Unsent == parent \in {"add", "store", "publish"} => sent <= NMessages

IInv == TypeOK /\ Fresh /\ Tested /\ Stored /\ Unsent

-----------------------------------------------------------------------------
(* A counter's successor (__sync_fetch_and_add on an unsigned).            *)
LEMMA Successor ==
  ASSUME NEW n \in 0 .. Wrap - 1
  PROVE  /\ Succ(n) = IF n + 1 = Wrap THEN 0 ELSE n + 1
         /\ Succ(n) \in 0 .. Wrap - 1
  <1>1. Wrap \in Nat \ {0}
    BY SizesAssumption
  <1> QED
    BY <1>1 DEF Succ

(* The difference of two counters, as rb_add and rb_remove compute it.     *)
LEMMA Difference ==
  ASSUME NEW a \in 0 .. Wrap - 1, NEW b \in 0 .. Wrap - 1
  PROVE  (a - b) % Wrap = IF b <= a THEN a - b ELSE a - b + Wrap
  <1>1. Wrap \in Nat \ {0}
    BY SizesAssumption
  <1> QED
    BY <1>1

(* Adding an item to a ring that is not full, taking one from a ring that  *)
(* is not empty.                                                           *)
LEMMA OneMore ==
  ASSUME NEW a \in 0 .. Wrap - 1, NEW b \in 0 .. Wrap - 1,
         (a - b) % Wrap < Size
  PROVE  (Succ(a) - b) % Wrap = ((a - b) % Wrap) + 1
  <1>1. Wrap \in Nat \ {0} /\ Size \in Nat /\ Size < Wrap
    BY SizesAssumption
  <1>2. (a - b) % Wrap = IF b <= a THEN a - b ELSE a - b + Wrap
    BY Difference
  <1>3. /\ Succ(a) \in 0 .. Wrap - 1
        /\ Succ(a) = IF a + 1 = Wrap THEN 0 ELSE a + 1
    BY Successor
  <1>4. (Succ(a) - b) % Wrap
          = IF b <= Succ(a) THEN Succ(a) - b ELSE Succ(a) - b + Wrap
    BY <1>3, Difference
  <1> QED
    BY <1>1, <1>2, <1>3, <1>4

LEMMA OneLess ==
  ASSUME NEW a \in 0 .. Wrap - 1, NEW b \in 0 .. Wrap - 1,
         (a - b) % Wrap > 0
  PROVE  (a - Succ(b)) % Wrap = ((a - b) % Wrap) - 1
  <1>1. Wrap \in Nat \ {0}
    BY SizesAssumption
  <1>2. (a - b) % Wrap = IF b <= a THEN a - b ELSE a - b + Wrap
    BY Difference
  <1>3. /\ Succ(b) \in 0 .. Wrap - 1
        /\ Succ(b) = IF b + 1 = Wrap THEN 0 ELSE b + 1
    BY Successor
  <1>4. (a - Succ(b)) % Wrap
          = IF Succ(b) <= a THEN a - Succ(b) ELSE a - Succ(b) + Wrap
    BY <1>3, Difference
  <1> QED
    BY <1>1, <1>2, <1>3, <1>4

(* The slot of a counter.                                                  *)
LEMMA SlotBounds ==
  ASSUME NEW n \in Int
  PROVE  Slot(n) \in 0 .. Size - 1
  <1>1. Size \in Nat \ {0}
    BY SizesAssumption
  <1> QED
    BY <1>1 DEF Slot

(* The slot does not jump when a counter wraps.                            *)
LEMMA SlotWraps ==
  ASSUME NEW n \in Int
  PROVE  Slot(n - Wrap) = Slot(n)
  <1> DEFINE q == Wrap \div Size
             d == n \div Size
             r == n % Size
  <1>1. Size \in Nat \ {0} /\ Wrap \in Nat \ {0} /\ Wrap % Size = 0
    BY SizesAssumption
  <1>2. q \in Int /\ Wrap = Size * q
    BY <1>1
  <1>3. d \in Int /\ r \in 0 .. Size - 1 /\ n = Size * d + r
    BY <1>1
  <1> HIDE DEF q, d, r
  <1>4. d - q \in Int /\ n - Wrap = Size * (d - q) + r
    BY <1>1, <1>2, <1>3
  <1>5. ASSUME NEW m \in Int, NEW w \in Int, w = Size * m + r
        PROVE  w % Size = r
    BY <1>1, <1>3, <1>5
  <1>6. (n - Wrap) % Size = r
    BY <1>1, <1>4, <1>5
  <1> QED
    BY <1>6 DEF Slot, r

(* head lies Used places after tail, also for the slots.                   *)
LEMMA HeadSlot ==
  ASSUME head \in 0 .. Wrap - 1, tail \in 0 .. Wrap - 1
  PROVE  Slot(head) = Slot(tail + Used)
  <1>1. Wrap \in Nat \ {0}
    BY SizesAssumption
  <1>2. Used = IF tail <= head THEN head - tail ELSE head - tail + Wrap
    BY Difference DEF Used
  <1>3. tail + Used \in Int
    BY <1>1, <1>2
  <1>4. head = tail + Used \/ head = (tail + Used) - Wrap
    BY <1>1, <1>2
  <1>5. Slot((tail + Used) - Wrap) = Slot(tail + Used)
    BY <1>3, SlotWraps
  <1> QED
    BY <1>4, <1>5

(* The place of the item behind the next, when tail has advanced.          *)
LEMMA NextSlot ==
  ASSUME NEW n \in 0 .. Wrap - 1, NEW k \in Int
  PROVE  Slot(Succ(n) + k) = Slot(n + 1 + k)
  <1>1. Wrap \in Nat \ {0}
    BY SizesAssumption
  <1>2. Succ(n) = IF n + 1 = Wrap THEN 0 ELSE n + 1
    BY Successor
  <1>3. Succ(n) + k = n + 1 + k \/ Succ(n) + k = (n + 1 + k) - Wrap
    BY <1>1, <1>2
  <1>4. n + 1 + k \in Int
    BY <1>1
  <1> QED
    BY <1>3, <1>4, SlotWraps

-----------------------------------------------------------------------------
(* The two processes start on an empty ring.                               *)
LEMMA Initially ==
  ASSUME Left \subseteq {0}
  PROVE  Init => IInv
  <1> SUFFICES ASSUME Init PROVE IInv
    OBVIOUS
  <1>0. Wrap \in Nat \ {0} /\ Size \in Nat \ {0} /\ NMessages \in Nat
    BY SizesAssumption
  <1>1. tail \in 0 .. Wrap - 1 /\ head = tail
    <2>1. tail \in 0 .. Wrap - 1 /\ head = (tail + 0) % Wrap
      BY DEF Init
    <2> QED
      BY <1>0, <2>1
  <1>2. Used = 0
    BY <1>0, <1>1, Difference DEF Used
  <1>3. TypeOK
    BY <1>0, <1>1, <1>2 DEF Init, TypeOK
  <1>4. Fresh /\ Tested /\ Stored /\ Unsent
    BY <1>0, <1>1 DEF Init, Fresh, Tested, Stored, Unsent
  <1> QED
    BY <1>3, <1>4 DEF IInv

(* rb_init's store: the ring is as empty as it was.                        *)
LEMMA InitStoreKeeps ==
  ASSUME IInv, InitStore
  PROVE  IInv'
  <1> USE DEF IInv, InitStore, Parent, child_vars
  <1>0. Wrap \in Nat \ {0} /\ Size \in Nat \ {0} /\ NMessages \in Nat
    BY SizesAssumption
  <1>1. head' = tail /\ tail' = tail /\ tail \in 0 .. Wrap - 1
    BY DEF Fresh, TypeOK
  <1>2. Used' = 0
    BY <1>0, <1>1, Difference DEF Used
  <1>3. TypeOK'
    BY <1>0, <1>1, <1>2 DEF TypeOK
  <1>4. Fresh' /\ Tested' /\ Stored' /\ Unsent'
    BY <1>0 DEF Fresh, Tested, Stored, Unsent
  <1> QED
    BY <1>3, <1>4

(* rb_add's publication, of an item for which there was room.              *)
LEMMA AddPublishKeeps ==
  ASSUME IInv, AddPublish
  PROVE  IInv'
  <1> USE DEF IInv, AddPublish, child_vars
  <1>0. Wrap \in Nat \ {0} /\ Size \in Nat \ {0} /\ NMessages \in Nat
    BY SizesAssumption
  <1>1. /\ head \in 0 .. Wrap - 1 /\ tail \in 0 .. Wrap - 1
        /\ Used \in 0 .. Size /\ Used < Size
        /\ sent \in 0 .. NMessages + 1 /\ sent <= NMessages
    BY DEF TypeOK, Tested, Unsent
  <1>2. Used' = Used + 1
    BY <1>1, OneMore DEF Used
  <1>3. head' \in 0 .. Wrap - 1
    BY <1>1, Successor
  <1>4. TypeOK'
    BY <1>0, <1>1, <1>2, <1>3 DEF TypeOK
  <1>5. Fresh' /\ Stored'
    BY DEF Fresh, Stored
  <1>6. Tested'
    BY <1>1, <1>2 DEF Tested
  <1>7. Unsent'
    BY <1>0, <1>1 DEF Unsent
  <1> QED
    BY <1>4, <1>5, <1>6, <1>7

(* rb_remove's advance, past an item that was there.                       *)
LEMMA RemoveAdvanceKeeps ==
  ASSUME IInv, RemoveAdvance
  PROVE  IInv'
  <1> USE DEF IInv, RemoveAdvance, parent_vars
  <1>1. /\ head \in 0 .. Wrap - 1 /\ tail \in 0 .. Wrap - 1
        /\ Used \in 0 .. Size /\ Used > 0
        /\ Size \in Nat \ {0} /\ count \in Nat
    BY SizesAssumption DEF TypeOK, Tested
  <1>2. Used' = Used - 1
    BY <1>1, OneLess DEF Used
  <1>3. tail' \in 0 .. Wrap - 1
    BY <1>1, Successor
  <1>4. TypeOK'
    BY <1>1, <1>2, <1>3 DEF TypeOK
  <1>5. Fresh' /\ Stored' /\ Unsent'
    BY DEF Fresh, Stored, Unsent
  <1>6. Tested'
    BY <1>1, <1>2 DEF Tested
  <1> QED
    BY <1>4, <1>5, <1>6

(* The stores to and the loads from a slot.                                *)
LEMMA AddStoreKeeps ==
  ASSUME IInv, AddStore
  PROVE  IInv'
  <1> USE DEF IInv, AddStore, Parent, child_vars
  <1>0. NMessages \in Nat /\ Wrap \in Nat
    BY SizesAssumption
  <1>1. Slot(head) \in 0 .. Size - 1
    BY <1>0, SlotBounds DEF TypeOK
  <1>2. <<"parent", sent>> \in Items
    BY <1>0 DEF TypeOK, Unsent, Items
  <1>3. Used' = Used /\ Slot(head)' = Slot(head)
    BY DEF Used, Slot
  <1>4. TypeOK'
    BY <1>1, <1>2, <1>3 DEF TypeOK
  <1>5. Fresh' /\ Tested' /\ Unsent'
    BY <1>3 DEF Fresh, Tested, Unsent
  <1>6. Stored'
    BY <1>1, <1>3 DEF TypeOK, Stored
  <1> QED
    BY <1>4, <1>5, <1>6

LEMMA RemoveLoadKeeps ==
  ASSUME IInv, RemoveLoad
  PROVE  IInv'
  <1> USE DEF IInv, RemoveLoad, Child, parent_vars
  <1>1. Slot(tail) \in 0 .. Size - 1
    BY SizesAssumption, SlotBounds DEF TypeOK
  <1>2. Used' = Used /\ Slot(head)' = Slot(head)
    BY DEF Used, Slot
  <1>3. TypeOK'
    BY <1>1, <1>2 DEF TypeOK
  <1>4. Fresh' /\ Tested' /\ Stored' /\ Unsent'
    BY <1>2 DEF Fresh, Tested, Stored, Unsent
  <1> QED
    BY <1>3, <1>4

(* The steps that touch neither the ring nor what is in it.                *)
LEMMA MovesKeep ==
  ASSUME IInv,
         \/ ParentMapFails \/ InitLoad \/ AddTest \/ Remove
         \/ Attach \/ AttachFails \/ RemoveTest
  PROVE  IInv'
  <1> USE DEF IInv, Parent, Child, parent_vars, child_vars
  <1>0. Size \in Nat \ {0} /\ NMessages \in Nat /\ Wrap \in Nat \ {0}
    BY SizesAssumption
  <1>1. head' = head /\ tail' = tail /\ data' = data /\ sent' = sent
        /\ read_data' = read_data /\ count' = count
    BY DEF ParentMapFails, InitLoad, AddTest, Remove, Attach, AttachFails,
           RemoveTest
  <1>2. Used' = Used /\ Slot(head)' = Slot(head) /\ (Full' <=> Full)
        /\ (Empty' <=> Empty) /\ Used \in 0 .. Size
    BY <1>1 DEF Used, Slot, Full, Empty, TypeOK
  <1>3. head = tail => Empty
    BY <1>0, Difference DEF TypeOK, Used, Empty
  <1>4. TypeOK'
    BY <1>1, <1>2 DEF TypeOK, ParentMapFails, InitLoad, AddTest, Remove,
                      Attach, AttachFails, RemoveTest
  <1>5. Fresh'
    BY <1>1, <1>3 DEF Fresh, ParentMapFails, InitLoad, AddTest, Remove,
                      Attach, AttachFails, RemoveTest
  <1>6. Tested'
    BY <1>0, <1>2 DEF Tested, Full, Empty, ParentMapFails, InitLoad, AddTest,
                      Remove, Attach, AttachFails, RemoveTest
  <1>7. Stored' /\ Unsent'
    BY <1>1, <1>2 DEF Stored, Unsent, ParentMapFails, InitLoad, AddTest,
                      Remove, Attach, AttachFails, RemoveTest
  <1> QED
    BY <1>4, <1>5, <1>6, <1>7

(* Every step keeps the invariant.                                         *)
LEMMA Step == IInv /\ [Next]_vars => IInv'
  <1> SUFFICES ASSUME IInv, [Next]_vars PROVE IInv'
    OBVIOUS
  <1>1. CASE UNCHANGED vars
    BY <1>1 DEF vars, IInv, TypeOK, Fresh, Tested, Stored, Unsent, Used, Slot
  <1>2. CASE do_parent_process
    BY <1>1, <1>2, InitStoreKeeps, AddPublishKeeps, AddStoreKeeps, MovesKeep
       DEF do_parent_process, AddSpin
  <1>3. CASE do_child_process
    BY <1>1, <1>3, RemoveAdvanceKeeps, RemoveLoadKeeps, MovesKeep
       DEF do_child_process, RemoveSpin
  <1> QED
    BY <1>1, <1>2, <1>3 DEF Next, Exited

(* The inductive invariant.                                                *)
THEOREM Invariance ==
  ASSUME Left \subseteq {0}
  PROVE  Spec => []IInv
  <1>1. Init => IInv
    BY Initially
  <1> QED
    BY <1>1, Step, PTL DEF Spec

(* The counters keep their types, and the ring never holds more items than *)
(* it has slots.                                                           *)
THEOREM TypeCorrect ==
  ASSUME Left \subseteq {0}
  PROVE  Spec => []TypeOK
  <1>1. IInv => TypeOK
    BY DEF IInv
  <1> QED
    BY <1>1, Invariance, PTL

(* The processes, whatever the size of the ring and the width of its       *)
(* counters, are never at the same slot: between 1 and Size - 1 places     *)
(* apart they have two slots.                                              *)
THEOREM SlotsNeverShared ==
  ASSUME Left \subseteq {0}
  PROVE  Spec => []NoSharedSlot
  <1>1. IInv => NoSharedSlot
    <2> SUFFICES ASSUME IInv, parent \in {"store", "publish"},
                        child \in {"load", "advance"}
                 PROVE  Slot(head) # Slot(tail)
      BY DEF NoSharedSlot
    <2>1. /\ head \in 0 .. Wrap - 1 /\ tail \in 0 .. Wrap - 1
          /\ Used \in 1 .. Size - 1 /\ Wrap \in Nat
      BY SizesAssumption DEF IInv, TypeOK, Tested
    <2>2. Slot(head) = Slot(tail + Used)
      BY <2>1, HeadSlot
    <2>3. Slot(tail + Used) # Slot(tail)
      <3>1. Size \in Nat \ {0} /\ tail \in Int
        BY <2>1, SizesAssumption
      <3>2. Place(tail + Used, Size) # Place(tail, Size)
        BY <2>1, <3>1, PlacesApart
      <3> QED
        BY <3>2 DEF Slot, Place
    <2> QED
      BY <2>2, <2>3
  <1> QED
    BY <1>1, Invariance, PTL

-----------------------------------------------------------------------------
(* The mapping to BoundedFifo: the item that the child has loaded is out   *)
(* of the queue though its slot is not free yet.                           *)
Taken == IF child = "advance" THEN 1 ELSE 0
Queue == Segment(data, tail + Taken, Used - Taken, Size)
Entries == Items \cup {NoItem}

(* What the steps below need of the invariant.                             *)
LEMMA Ring ==
  ASSUME IInv
  PROVE  /\ data \in Rings(Size, Entries) /\ Size \in Nat \ {0} /\ Wrap \in Nat
         /\ head \in 0 .. Wrap - 1 /\ tail \in 0 .. Wrap - 1
         /\ Used \in 0 .. Size /\ Taken \in {0, 1}
         /\ Used - Taken \in Nat /\ tail + Taken \in Int
         /\ Slot(head) = Place(tail + Used, Size)
  <1>1. /\ data \in Rings(Size, Entries) /\ Size \in Nat \ {0} /\ Wrap \in Nat
        /\ head \in 0 .. Wrap - 1 /\ tail \in 0 .. Wrap - 1
        /\ Used \in 0 .. Size
    BY SizesAssumption DEF IInv, TypeOK, Rings, Entries
  <1>2. Taken \in {0, 1} /\ Used - Taken \in Nat
    BY <1>1 DEF IInv, Tested, Taken
  <1>3. Slot(head) = Slot(tail + Used)
    BY <1>1, HeadSlot
  <1> QED
    BY <1>1, <1>2, <1>3 DEF Slot, Place

(* AddPublish puts the item in, behind the others.                         *)
LEMMA AddPublishIsPut ==
  ASSUME IInv, AddPublish
  PROVE  Fifo!Put("parent")
  <1> DEFINE n == Used - Taken
             first == tail + Taken
  <1>1. /\ data \in Rings(Size, Entries) /\ Size \in Nat \ {0}
        /\ head \in 0 .. Wrap - 1 /\ tail \in 0 .. Wrap - 1
        /\ Used \in 0 .. Size /\ Taken \in {0, 1}
        /\ n \in Nat /\ first \in Int /\ Slot(head) = Place(tail + Used, Size)
    BY Ring
  <1>2. Used < Size /\ data[Slot(head)] = <<"parent", sent>>
    BY DEF IInv, Tested, Stored, AddPublish
  <1>3. /\ Used' = Used + 1 /\ Taken' = Taken /\ tail' = tail
        /\ data' = data /\ sent' = sent + 1 /\ read_data' = read_data
    BY <1>1, <1>2, OneMore DEF AddPublish, Used, Taken, child_vars
  <1>4. first + n = tail + Used /\ Used' - Taken' = n + 1 /\ n < Size
    BY <1>1, <1>2, <1>3
  <1>5. Queue' = Segment(data, first, n + 1, Size)
    BY <1>3, <1>4 DEF Queue, Segment, Place
  <1>6. Queue' = Append(Queue, <<"parent", sent>>)
    <2> HIDE DEF n, first
    <2>1. Segment(data, first, n + 1, Size)
            = Append(Segment(data, first, n, Size), data[Place(first + n, Size)])
      BY <1>1, SegmentAdded
    <2>2. data[Place(first + n, Size)] = <<"parent", sent>>
      BY <1>1, <1>2, <1>4
    <2> QED
      BY <1>5, <2>1, <2>2 DEF Queue, n, first
  <1>7. Len(Queue) < Size
    <2> HIDE DEF n, first
    <2>1. Len(Segment(data, first, n, Size)) = n
      BY <1>1, SegmentIsSeq
    <2> QED
      BY <1>4, <2>1 DEF Queue, n, first
  <1>8. [p \in {"parent"} |-> sent']
          = [[p \in {"parent"} |-> sent] EXCEPT !["parent"] = @ + 1]
    BY <1>3
  <1>9. [p \in {"parent"} |-> sent]["parent"] = sent
    OBVIOUS
  <1> QED
    BY <1>3, <1>6, <1>7, <1>8, <1>9
       DEF Fifo!Put, Queue, Segment, Place, Slot, Taken

(* RemoveLoad takes the oldest item.                                       *)
LEMMA RemoveLoadIsGet ==
  ASSUME IInv, RemoveLoad
  PROVE  Fifo!Get("child")
  <1>1. /\ data \in Rings(Size, Entries) /\ tail \in 0 .. Wrap - 1 /\ tail \in Int
        /\ Used \in 0 .. Size /\ Size \in Nat \ {0} /\ Wrap \in Nat
    BY Ring
  <1>2. Used > 0 /\ Used \in Nat
    BY <1>1 DEF IInv, Tested, RemoveLoad, Child
  <1>3. /\ Taken = 0 /\ Taken' = 1 /\ tail' = tail /\ data' = data
        /\ Used' = Used /\ sent' = sent /\ read_data' = data[Slot(tail)]
    BY DEF RemoveLoad, Child, Taken, Used, parent_vars
  <1>4. tail + Taken = tail /\ Used - Taken = Used
    BY <1>1, <1>3
  <1>5. Queue = Segment(data, tail, Used, Size)
    BY <1>4 DEF Queue
  <1>6. Queue' = Segment(data, tail + 1, Used - 1, Size)
    BY <1>3 DEF Queue, Segment, Place
  <1>7. /\ Queue # <<>> /\ Head(Queue) = data[Slot(tail)]
        /\ Tail(Queue) = Queue'
    <2>1. Head(Queue) = data[Place(tail, Size)]
      BY <1>1, <1>2, <1>5, SegmentTaken
    <2>2. Queue # <<>> /\ Tail(Queue) = Queue'
      BY <1>1, <1>2, <1>5, <1>6, SegmentTaken
    <2> QED
      BY <2>1, <2>2 DEF Slot, Place
  <1>8. [c \in {"child"} |-> read_data']
          = [[c \in {"child"} |-> read_data] EXCEPT !["child"] = Head(Queue)]
    BY <1>3, <1>7
  <1> QED
    BY <1>3, <1>7, <1>8 DEF Fifo!Get, Queue, Segment, Place, Slot, Taken

(* AddStore writes to a slot that is not in the queue.                     *)
LEMMA AddStoreStutters ==
  ASSUME IInv, AddStore
  PROVE  Queue' = Queue
  <1> DEFINE n == Used - Taken
             first == tail + Taken
  <1>1. /\ data \in Rings(Size, Entries) /\ Size \in Nat \ {0} /\ tail \in Int
        /\ Used \in 0 .. Size /\ Taken \in {0, 1} /\ Wrap \in Nat
        /\ n \in Nat /\ first \in Int /\ Slot(head) = Place(tail + Used, Size)
    BY Ring
  <1>2. Used < Size
    BY DEF IInv, Tested, AddStore, Parent
  <1>3. /\ Taken' = Taken /\ Used' = Used /\ tail' = tail
        /\ data' = [data EXCEPT ![Slot(head)] = <<"parent", sent>>]
    BY DEF AddStore, Parent, Taken, Used, child_vars
  <1>4. first + n = tail + Used /\ n < Size
    BY <1>1, <1>2
  <1>5. data' = [data EXCEPT ![Place(first + n, Size)] = <<"parent", sent>>]
    BY <1>1, <1>3, <1>4
  <1>6. \A m \in (0 .. Size - 1) \ {Place(first + n, Size)} :
          data'[m] = data[m]
    BY <1>1, <1>5 DEF Rings
  <1>7. Queue' = Segment(data', first, n, Size)
    BY <1>3 DEF Queue, Segment, Place
  <1> HIDE DEF n, first
  <1>8. Segment(data', first, n, Size) = Segment(data, first, n, Size)
    BY <1>1, <1>4, <1>6, SegmentKept
  <1> QED
    BY <1>7, <1>8 DEF Queue, n, first

(* RemoveAdvance gives a slot back whose item has gone.                    *)
LEMMA RemoveAdvanceStutters ==
  ASSUME IInv, RemoveAdvance
  PROVE  Queue' = Queue
  <1>1. /\ data \in Rings(Size, Entries) /\ Size \in Nat \ {0} /\ Wrap \in Nat
        /\ head \in 0 .. Wrap - 1 /\ tail \in 0 .. Wrap - 1
        /\ Used \in 0 .. Size
    BY Ring
  <1>2. Used > 0
    BY DEF IInv, Tested, RemoveAdvance
  <1>3. /\ Taken = 1 /\ Taken' = 0 /\ tail' = Succ(tail) /\ data' = data
        /\ Used' = Used - 1
    BY <1>1, <1>2, OneLess DEF RemoveAdvance, Taken, Used, parent_vars
  <1>4. ASSUME NEW k \in 1 .. Used - 1
        PROVE  Place(Succ(tail) + k - 1, Size) = Place(tail + 1 + k - 1, Size)
    <2>1. k - 1 \in Int
      OBVIOUS
    <2> QED
      BY <1>1, <2>1, NextSlot DEF Slot, Place
  <1>5. Segment(data, Succ(tail) + 0, (Used - 1) - 0, Size)
          = Segment(data, tail + 1, Used - 1, Size)
    <2>1. Succ(tail) \in 0 .. Wrap - 1
      BY <1>1, Successor
    <2>2. Succ(tail) + 0 = Succ(tail) /\ (Used - 1) - 0 = Used - 1
      BY <1>1, <2>1
    <2> QED
      BY <1>4, <2>2 DEF Segment
  <1>6. Queue' = Segment(data, Succ(tail) + 0, (Used - 1) - 0, Size)
    BY <1>3 DEF Queue, Segment, Place
  <1>7. Queue = Segment(data, tail + 1, Used - 1, Size)
    BY <1>3 DEF Queue
  <1> QED
    BY <1>5, <1>6, <1>7

(* The other steps: rb_init finds an empty ring and leaves one.            *)
LEMMA InitStoreStutters ==
  ASSUME IInv, IInv', InitStore
  PROVE  Queue' = Queue
  <1>1. Used = 0 /\ Used' = 0 /\ Taken = 0 /\ Taken' = 0
    <2>1. /\ head = tail /\ head' = tail /\ tail' = tail
          /\ tail \in 0 .. Wrap - 1 /\ Wrap \in Nat \ {0}
      BY SizesAssumption
         DEF IInv, Fresh, TypeOK, InitStore, Parent, child_vars
    <2>2. child \notin {"load", "advance"} /\ child' = child
      BY DEF IInv, Fresh, InitStore, Parent, child_vars
    <2> QED
      BY <2>1, <2>2, Difference DEF Used, Taken
  <1> QED
    BY <1>1 DEF Queue, Segment

LEMMA MovesStutter ==
  ASSUME \/ ParentMapFails \/ InitLoad \/ AddTest \/ Remove
         \/ Attach \/ AttachFails \/ RemoveTest \/ UNCHANGED vars
  PROVE  Queue' = Queue
  <1>1. head' = head /\ tail' = tail /\ data' = data /\ Taken' = Taken
    BY DEF ParentMapFails, InitLoad, AddTest, Remove, Attach, AttachFails,
           RemoveTest, vars, Parent, Child, parent_vars, child_vars, Taken
  <1> QED
    BY <1>1 DEF Queue, Segment, Place, Used

(* The ring implements a bounded queue: for every size, every width of the *)
(* counters and every interleaving the messages arrive in order, once.     *)
THEOREM RingIsFifo ==
  ASSUME Left \subseteq {0}
  PROVE  Spec => ImplementsFifo
  <1>1. Init => Fifo!Init
    <2> SUFFICES ASSUME Init PROVE Fifo!Init
      OBVIOUS
    <2>1. IInv
      BY Initially
    <2>2. Taken = 0 /\ head = tail
      BY <2>1 DEF Init, IInv, Fresh, Taken
    <2>3. Used = 0
      BY <2>1, <2>2, SizesAssumption, Difference DEF Used, IInv, TypeOK
    <2>4. Queue = <<>>
      BY <2>2, <2>3 DEF Queue, Segment
    <2> QED
      BY <2>4 DEF Init, Fifo!Init, Queue, Segment, Taken
  <1>2. IInv /\ IInv' /\ [Next]_vars => [Fifo!Next]_(Fifo!vars)
    <2> SUFFICES ASSUME IInv, IInv', [Next]_vars
                 PROVE  Fifo!Next \/ UNCHANGED Fifo!vars
      OBVIOUS
    <2>1. CASE AddPublish
      BY <2>1, AddPublishIsPut DEF Fifo!Next
    <2>2. CASE RemoveLoad
      BY <2>2, RemoveLoadIsGet DEF Fifo!Next
    <2>3. ASSUME Queue' = Queue, sent' = sent, read_data' = read_data
          PROVE  UNCHANGED Fifo!vars
      BY <2>3 DEF Fifo!vars, Queue, Segment, Place, Slot, Taken
    <2>4. CASE AddStore
      BY <2>3, <2>4, AddStoreStutters DEF AddStore, child_vars
    <2>5. CASE RemoveAdvance
      BY <2>3, <2>5, RemoveAdvanceStutters DEF RemoveAdvance, parent_vars
    <2>6. CASE InitStore
      BY <2>3, <2>6, InitStoreStutters DEF InitStore, child_vars
    <2>7. CASE \/ ParentMapFails \/ InitLoad \/ AddTest \/ Remove
               \/ Attach \/ AttachFails \/ RemoveTest \/ UNCHANGED vars
      <3>1. sent' = sent /\ read_data' = read_data
        BY <2>7 DEF ParentMapFails, InitLoad, AddTest, Remove, Attach,
                    AttachFails, RemoveTest, vars, parent_vars, child_vars
      <3> QED
        BY <2>3, <2>7, <3>1, MovesStutter
    <2> QED
      BY <2>1, <2>2, <2>4, <2>5, <2>6, <2>7
         DEF Next, do_parent_process, do_child_process, AddSpin, RemoveSpin,
             Exited
  <1> QED
    BY <1>1, <1>2, Invariance, PTL DEF Spec, ImplementsFifo, Fifo!Spec
=============================================================================
