----------------------------- MODULE TaskBoard -----------------------------
(***************************************************************************)
(* matrix/PMM/parmul.c: workers multiply two square matrices, one element  *)
(* of the result at a time.  The tasks are on a board that the workers     *)
(* scan from a random place, with its mutex held.  What an element is      *)
(* worth does not matter here: it depends on matrices nobody writes.       *)
(***************************************************************************)
EXTENDS Integers, FiniteSets

CONSTANTS Workers, Dimension,
          NoOne         (* the holder of a mutex that is free *)

(* parse_args takes positive numbers only.                                 *)
ASSUME SizesAssumption == Dimension \in Nat \ {0} /\ Workers # {}

ASSUME NoOneAssumption == NoOne \notin Workers

VARIABLES board,        (* board[t]: task t is available                   *)
          mutex,        (* who holds task_board->mutex                     *)
          pc,           (* where each worker is                            *)
          index, i,     (* getTask's place on the board and tests so far   *)
          matrixC       (* the elements of the result that are written     *)

vars == <<board, mutex, pc, index, i, matrixC>>

(* task_board->size.                                                       *)
Size == Dimension * Dimension
Tasks == 0 .. Size - 1
Cells == (0 .. Dimension - 1) \X (0 .. Dimension - 1)

(* *row and *col; a slip that forgets the row, for the runs to refute.     *)
BugCell(t) == <<t \div Size, t % Dimension>>
Cell(t) == <<t \div Dimension, t % Dimension>>

NextIndex(t) == (t + 1) % Size

make_taskboard == board = [t \in Tasks |-> 1]

Init == /\ make_taskboard
        /\ mutex = NoOne
        /\ pc = [w \in Workers |-> "choose"]
        /\ index = [w \in Workers |-> 0]
        /\ i = [w \in Workers |-> 0]
        /\ matrixC = {}

Goto(w, from, to) == pc[w] = from /\ pc' = [pc EXCEPT ![w] = to]

-----------------------------------------------------------------------------
(* getTask: rand() % n is read before the mutex is taken.                  *)
Choose(w) == /\ Goto(w, "choose", "lock")
             /\ \E t \in Tasks : index' = [index EXCEPT ![w] = t]
             /\ i' = [i EXCEPT ![w] = 0]
             /\ UNCHANGED <<board, mutex, matrixC>>

(* A slip: the worker does not wait for the mutex.                         *)
BugLock(w) == /\ Goto(w, "lock", "scan")
              /\ mutex' = w
              /\ UNCHANGED <<board, index, i, matrixC>>

Lock(w) == /\ Goto(w, "lock", "scan")
           /\ mutex = NoOne /\ mutex' = w
           /\ UNCHANGED <<board, index, i, matrixC>>

(* The head of the while: the task at index is taken, go on to the next.   *)
ScanOn(w) == /\ pc[w] = "scan" /\ board[index[w]] = 0
             /\ i[w] + 1 < Size
             /\ index' = [index EXCEPT ![w] = NextIndex(@)]
             /\ i' = [i EXCEPT ![w] = @ + 1]
             /\ UNCHANGED <<board, mutex, pc, matrixC>>

(* Slips: the scan ends one test too soon, or without giving the mutex     *)
(* back.                                                                   *)
BugNothingLeft(w) == /\ Goto(w, "scan", "end") /\ board[index[w]] = 0
                     /\ i[w] + 2 >= Size
                     /\ mutex' = NoOne
                     /\ UNCHANGED <<board, index, i, matrixC>>

BugKeepsMutex(w) == /\ Goto(w, "scan", "end") /\ board[index[w]] = 0
                    /\ i[w] + 1 >= Size
                    /\ UNCHANGED <<board, mutex, index, i, matrixC>>

(* All are tested: no task to do.                                          *)
NothingLeft(w) == /\ Goto(w, "scan", "end") /\ board[index[w]] = 0
                  /\ i[w] + 1 >= Size
                  /\ index' = [index EXCEPT ![w] = NextIndex(@)]
                  /\ i' = [i EXCEPT ![w] = @ + 1]
                  /\ mutex' = NoOne
                  /\ UNCHANGED <<board, matrixC>>

(* The test finds a task, which is then taken off the board.               *)
Found(w) == /\ Goto(w, "scan", "take") /\ board[index[w]] # 0
            /\ UNCHANGED <<board, mutex, index, i, matrixC>>

Take(w) == /\ Goto(w, "take", "compute")
           /\ board' = [board EXCEPT ![index[w]] = 0]
           /\ mutex' = NoOne
           /\ UNCHANGED <<index, i, matrixC>>

(* worker_entry: the element is computed and stored.                       *)
Compute(w) == /\ Goto(w, "compute", "choose")
              /\ matrixC' = matrixC \cup {Cell(index[w])}
              /\ UNCHANGED <<board, mutex, index, i>>

-----------------------------------------------------------------------------
worker_entry(w) == \/ Choose(w) \/ Lock(w) \/ ScanOn(w) \/ NothingLeft(w)
                   \/ Found(w) \/ Take(w) \/ Compute(w)

AllEnded == \A w \in Workers : pc[w] = "end"
Joined == AllEnded /\ UNCHANGED vars

Next == (\E w \in Workers : worker_entry(w)) \/ Joined

Spec == Init /\ [][Next]_vars

(* Every worker is a thread of its own.                                    *)
FairSpec == Spec /\ \A w \in Workers : WF_vars(worker_entry(w))

-----------------------------------------------------------------------------
(* The board, the workers' places on it and the result have their types:   *)
(* the index never leaves the board (getTask).                             *)
TypeOK == /\ board \in [Tasks -> {0, 1}]
          /\ mutex \in Workers \cup {NoOne}
          /\ pc \in [Workers -> {"choose", "lock", "scan", "take", "compute",
                                "end"}]
          /\ index \in [Workers -> Tasks]
          /\ i \in [Workers -> 0 .. Size]
          /\ matrixC \subseteq Cells

(* "each task is carried out only once" (parmul.h): what a worker computes *)
(* is off the board, is not in the result yet, and nobody else computes it.*)
OncePerTask ==
  \A w \in Workers : pc[w] = "compute" =>
    /\ board[index[w]] = 0
    /\ Cell(index[w]) \notin matrixC
    /\ \A v \in Workers \ {w} : pc[v] = "compute" => index[v] # index[w]

(* A task that is off the board is in the result or in a worker's hands,   *)
(* and a worker that has ended has left nothing on the board: it did not   *)
(* stop its scan too soon (getTask).                                       *)
NoneMissed ==
  /\ \A t \in Tasks : board[t] = 0 =>
       \/ Cell(t) \in matrixC
       \/ \E w \in Workers : pc[w] = "compute" /\ index[w] = t
  /\ (\E w \in Workers : pc[w] = "end") => \A t \in Tasks : board[t] = 0

(* When parallelMultiply has joined its workers the result is complete.    *)
ResultComplete == AllEnded => matrixC = Cells

(* Every worker ends, and parallelMultiply joins them all.                 *)
Termination == <>AllEnded
=============================================================================
