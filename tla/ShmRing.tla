------------------------------ MODULE ShmRing ------------------------------
(***************************************************************************)
(* IPC/sysvshm and IPC/posixshm: a parent that sends messages to its child *)
(* through a ring buffer in shared memory.  There is no lock: head is      *)
(* written by the parent only, tail by the child only, and a full or an    *)
(* empty ring is waited for by spinning.  Each access to a word of the     *)
(* segment that the other process can change is a step of its own; the     *)
(* programs are built without optimisation, so every test loads the word   *)
(* anew, and __sync_fetch_and_add orders the accesses around it.           *)
(***************************************************************************)
EXTENDS Integers

CONSTANTS Size,        (* R_BUFFER_SIZE                                     *)
          Wrap,        (* head and tail are unsigned: integers modulo Wrap  *)
          NMessages,   (* how many messages are sent before the end         *)
          Left,        (* the numbers of messages that the segment can hold *)
                       (*   at the start, left there by a run that was      *)
                       (*   killed: nothing ever removes it for that run    *)
          NoItem       (* memory of which this run has written nothing      *)

(* 512 divides 2^32: the index does not jump when a counter wraps.         *)
ASSUME SizesAssumption == /\ Size \in Nat \ {0} /\ Wrap \in Nat \ {0}
                          /\ Wrap % Size = 0 /\ Wrap > Size
                          /\ NMessages \in Nat /\ Left \subseteq 0 .. Size

VARIABLES head, tail, data,    (* struct rbuffer                           *)
          parent, child,       (* where the two processes are              *)
          old_tail,            (* what rb_init has loaded                  *)
          sent,                (* how many items the parent has added      *)
          read_data,           (* the child's variable                     *)
          count                (* the child's count of messages            *)

vars == <<head, tail, data, parent, child, old_tail, sent, read_data, count>>
parent_vars == <<head, parent, old_tail, sent>>
child_vars  == <<tail, child, read_data, count>>

(* The messages are told apart by their number; the last item sent is -1.  *)
End == <<"parent", NMessages>>
Items == {"parent"} \X (0 .. NMessages)

-----------------------------------------------------------------------------
(* Slips for the runs to refute: counters that are compared without regard *)
(* to the wrap, a full ring noticed one item late.                         *)
BugUsed == head - tail
BugSucc(n) == n + 1

Used == (head - tail) % Wrap
Slot(n) == n % Size
Succ(n) == (n + 1) % Wrap

BugFull == Used > Size
Full  == Used = Size
Empty == Used = 0

Init == /\ tail \in 0 .. Wrap - 1
        /\ \E n \in Left : head = (tail + n) % Wrap
        /\ data = [k \in 0 .. Size - 1 |-> NoItem]
        /\ parent = "start" /\ child = "start"
        /\ old_tail = 0 /\ sent = 0
        /\ read_data = NoItem /\ count = 0

Parent(from, to) == parent = from /\ parent' = to
Child(from, to)  == child = from /\ child' = to

-----------------------------------------------------------------------------
(* The parent.  Under POSIX it can fail to map the segment, after the fork *)
(* (under System V it attaches before).                                    *)
ParentMapFails == /\ Parent("start", "wait")
                  /\ UNCHANGED <<head, data, old_tail, sent, child_vars>>

(* rb_init: head = tail, a load and a store.                               *)
InitLoad == /\ Parent("start", "init")
            /\ old_tail' = tail
            /\ UNCHANGED <<head, data, sent, child_vars>>

InitStore == /\ Parent("init", "add")
             /\ head' = old_tail
             /\ UNCHANGED <<data, old_tail, sent, child_vars>>

(* rb_add: spin while the ring is full, store, publish.                    *)
AddSpin == parent = "add" /\ Full /\ UNCHANGED vars

AddTest == /\ Parent("add", "store") /\ ~ Full
           /\ UNCHANGED <<head, data, old_tail, sent, child_vars>>

AddStore == /\ Parent("store", "publish")
            /\ data' = [data EXCEPT ![Slot(head)] = <<"parent", sent>>]
            /\ UNCHANGED <<head, old_tail, sent, child_vars>>

(* The loop of do_parent_process goes on until the end has been added.     *)
AddPublish == /\ parent = "publish"
              /\ parent' = IF sent = NMessages THEN "wait" ELSE "add"
              /\ head' = Succ(head) /\ sent' = sent + 1
              /\ UNCHANGED <<data, old_tail, child_vars>>

(* wait for the child, then remove the segment.                            *)
Remove == /\ Parent("wait", "done") /\ child \in {"done", "failed"}
          /\ UNCHANGED <<head, data, old_tail, sent, child_vars>>

-----------------------------------------------------------------------------
(* The child.                                                              *)
Attach == /\ Child("start", "remove")
          /\ UNCHANGED <<tail, data, read_data, count, parent_vars>>

AttachFails == /\ Child("start", "failed")
               /\ UNCHANGED <<tail, data, read_data, count, parent_vars>>

(* rb_remove: spin while the ring is empty, load, give the slot back.      *)
RemoveSpin == child = "remove" /\ Empty /\ UNCHANGED vars

RemoveTest == /\ Child("remove", "load") /\ ~ Empty
              /\ UNCHANGED <<tail, data, read_data, count, parent_vars>>

RemoveLoad == /\ Child("load", "advance")
              /\ read_data' = data[Slot(tail)]
              /\ UNCHANGED <<tail, data, count, parent_vars>>

(* A slip: the end is counted as a message.                                *)
BugRemoveAdvance == /\ child = "advance"
                    /\ tail' = Succ(tail) /\ count' = count + 1
                    /\ child' = IF read_data = End THEN "done" ELSE "remove"
                    /\ UNCHANGED <<data, read_data, parent_vars>>

RemoveAdvance ==
  /\ child = "advance" /\ tail' = Succ(tail)
  /\ \/ /\ read_data = End /\ child' = "done" /\ UNCHANGED count
     \/ /\ read_data # End /\ child' = "remove" /\ count' = count + 1
  /\ UNCHANGED <<data, read_data, parent_vars>>

-----------------------------------------------------------------------------
Exited == parent = "done" /\ UNCHANGED vars

do_parent_process == \/ ParentMapFails \/ InitLoad \/ InitStore \/ AddSpin
                     \/ AddTest \/ AddStore \/ AddPublish \/ Remove

do_child_process == \/ Attach \/ AttachFails \/ RemoveSpin \/ RemoveTest
                    \/ RemoveLoad \/ RemoveAdvance

Next == do_parent_process \/ do_child_process \/ Exited

Spec == Init /\ [][Next]_vars

(* The kernel runs both processes.                                         *)
FairSpec == Spec /\ WF_vars(do_parent_process) /\ WF_vars(do_child_process)

-----------------------------------------------------------------------------
(* The counters stay unsigned integers, and the ring holds no more items   *)
(* than it has slots (rb_add, rb_remove).                                  *)
TypeOK == /\ head \in 0 .. Wrap - 1 /\ tail \in 0 .. Wrap - 1
          /\ old_tail \in 0 .. Wrap - 1
          /\ Used \in 0 .. Size
          /\ data \in [0 .. Size - 1 -> Items \cup {NoItem}]
          /\ parent \in {"start", "init", "add", "store", "publish", "wait",
                         "done"}
          /\ child \in {"start", "remove", "load", "advance", "done", "failed"}
          /\ sent \in 0 .. NMessages + 1 /\ count \in Nat
          /\ read_data \in Items \cup {NoItem}

(* The two processes are never at the same slot: whoever is about to store *)
(* (rb_add) and whoever is about to load or has not given the slot back    *)
(* (rb_remove) work on different ones, without a lock.                     *)
NoSharedSlot ==
  parent \in {"store", "publish"} /\ child \in {"load", "advance"}
    => Slot(head) # Slot(tail)

(* The messages arrive, in order, without loss or repetition: the ring     *)
(* implements a bounded queue.  A message leaves it when it is loaded, the *)
(* slot is free for the parent when tail has advanced.                     *)
Fifo == INSTANCE BoundedFifo WITH
          Producers <- {"parent"}, Consumers <- {"child"}, Length <- Size,
          sent <- [p \in {"parent"} |-> sent],
          received <- [c \in {"child"} |-> read_data],
          buffer <- LET taken == IF child = "advance" THEN 1 ELSE 0
                    IN  [k \in 1 .. Used - taken |->
                           data[Slot(tail + taken + k - 1)]]
ImplementsFifo == Fifo!Spec

(* Both processes end, unless one of them could not get the segment: no    *)
(* order of steps leaves one spinning for the other.  The child has then   *)
(* counted every message and not the end (the counts that are printed).    *)
Termination == <>(\/ parent = "done" /\ child = "done" /\ count = NMessages
                  \/ child = "failed"
                  \/ parent = "wait" /\ sent = 0)

(* rb_init leaves the ring empty, as its comment says: "set the ring       *)
(* buffer is empty, which means that head is equal to tail".               *)
InitEmpties == [][parent = "init" /\ parent' = "add" => head' = tail']_vars
=============================================================================
