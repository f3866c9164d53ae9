-------------------------- MODULE TaskBoardProofs --------------------------
(***************************************************************************)
(* For any number of workers and any dimension: every element of the       *)
(* result is computed once and none is left out.  The argument is one      *)
(* inductive invariant, IInv: who is in the scan holds the mutex, what it  *)
(* has tested since its start is off the board for good, and what is in    *)
(* the result or in a worker's hands is off the board.                     *)
(***************************************************************************)
EXTENDS TaskBoard, TLAPS

(* One worker at a time is between mutex_lock and mutex_unlock.            *)
ScanHoldsMutex ==
  \A w \in Workers : pc[w] \in {"scan", "take"} <=> mutex = w

(* A task that is in the result is off the board; one that the scan found  *)
(* is still on it.                                                         *)
ResultOffBoard == \A t \in Tasks : Cell(t) \in matrixC => board[t] = 0
FoundOnBoard == \A w \in Workers : pc[w] = "take" => board[index[w]] = 1

(* How far before the place x of the board the task t lies.                *)
Behind(t, x) == IF t <= x THEN x - t ELSE x - t + Size

(* The scan has found the i tasks behind its index off the board.          *)
TestedOffBoard ==
  \A w \in Workers : pc[w] = "scan" =>
    \A t \in Tasks : Behind(t, index[w]) \in 1 .. i[w] => board[t] = 0

(* The scan starts with nothing tested and ends before it has tested the   *)
(* whole board.                                                            *)
ScanBounded == \A w \in Workers : /\ pc[w] = "lock" => i[w] = 0
                                  /\ pc[w] = "scan" => i[w] < Size

IInv == /\ TypeOK /\ ScanHoldsMutex /\ ResultOffBoard /\ FoundOnBoard
        /\ TestedOffBoard /\ ScanBounded /\ OncePerTask /\ NoneMissed

-----------------------------------------------------------------------------
(* The board is not empty (parse_args takes positive dimensions only).     *)
LEMMA SizePositive == Size \in Nat \ {0}
  <1>1. Dimension \in Nat \ {0}
    BY SizesAssumption
  <1> QED
    BY <1>1 DEF Size

(* The next place on the board (getTask's ++num % n).                      *)
LEMMA NextPlace ==
  ASSUME NEW t \in Tasks
  PROVE  /\ NextIndex(t) \in Tasks
         /\ NextIndex(t) = IF t + 1 = Size THEN 0 ELSE t + 1
  <1>1. Size \in Nat \ {0}
    BY SizePositive
  <1> QED
    BY <1>1 DEF NextIndex, Tasks

(* Division with remainder, as getTask's row and col use it.               *)
LEMMA DivMod ==
  ASSUME NEW d \in Nat \ {0}, NEW t \in Nat
  PROVE  t = d * (t \div d) + (t % d) /\ t % d \in 0 .. d - 1 /\ t \div d \in Nat
  OBVIOUS

(* A row and a column stand for one task: getTask's row and col.           *)
LEMMA CellInjective ==
  ASSUME NEW t \in Tasks
  PROVE  /\ Cell(t) \in Cells
         /\ \A u \in Tasks : Cell(t) = Cell(u) => t = u
  <1>1. Dimension \in Nat \ {0}
    BY SizesAssumption
  <1>2. t \in Nat /\ t \in 0 .. Dimension * Dimension - 1
    BY <1>1 DEF Tasks, Size
  <1>3. t \div Dimension \in 0 .. Dimension - 1
    BY <1>1, <1>2
  <1>4. t % Dimension \in 0 .. Dimension - 1
    BY <1>1, <1>2
  <1>5. Cell(t) \in Cells
    BY <1>3, <1>4 DEF Cell, Cells
  <1>6. ASSUME NEW u \in Tasks, Cell(t) = Cell(u) PROVE t = u
    <2>1. u \in Nat
      BY <1>1 DEF Tasks, Size
    <2>2. t \div Dimension = u \div Dimension /\ t % Dimension = u % Dimension
      BY <1>6 DEF Cell
    <2>3. t = Dimension * (t \div Dimension) + (t % Dimension)
      BY <1>1, <1>2, DivMod
    <2>4. u = Dimension * (u \div Dimension) + (u % Dimension)
      BY <1>1, <2>1, DivMod
    <2> QED
      BY <2>2, <2>3, <2>4
  <1> QED
    BY <1>5, <1>6

(* Every element of the result is the element of a task.                   *)
LEMMA CellOnto ==
  ASSUME NEW c \in Cells
  PROVE  \E t \in Tasks : Cell(t) = c
  <1>1. Dimension \in Nat \ {0}
    BY SizesAssumption
  <1>2. PICK r \in 0 .. Dimension - 1, q \in 0 .. Dimension - 1 : c = <<r, q>>
    BY DEF Cells
  <1> DEFINE t == Dimension * r + q
  <1>3. t \in Nat
    BY <1>1, <1>2
  <1>4. Dimension * r <= Dimension * (Dimension - 1)
    BY <1>1, <1>2
  <1>5. t <= Dimension * Dimension - 1
    BY <1>1, <1>2, <1>4
  <1>6. t \in Tasks
    BY <1>1, <1>3, <1>5 DEF Tasks, Size
  <1>7. t \div Dimension = r /\ t % Dimension = q
    BY <1>1, <1>2
  <1> QED
    BY <1>2, <1>6, <1>7 DEF Cell

(* The place a task lies behind grows by one when the scan goes on.        *)
LEMMA BehindNext ==
  ASSUME NEW t \in Tasks, NEW x \in Tasks
  PROVE  /\ Behind(t, x) \in 0 .. Size - 1
         /\ Behind(t, x) = 0 => t = x
         /\ Behind(t, NextIndex(x)) =
              IF Behind(t, x) = Size - 1 THEN 0 ELSE Behind(t, x) + 1
  <1>1. Size \in Nat \ {0}
    BY SizePositive
  <1>2. t \in 0 .. Size - 1 /\ x \in 0 .. Size - 1
    BY DEF Tasks
  <1>3. NextIndex(x) = IF x + 1 = Size THEN 0 ELSE x + 1
    BY NextPlace
  <1> QED
    BY <1>1, <1>2, <1>3 DEF Behind

-----------------------------------------------------------------------------
(* The invariant holds of a new board (make_taskboard) and of workers that *)
(* have not begun.                                                         *)
LEMMA Initially == Init => IInv
  <1> SUFFICES ASSUME Init PROVE IInv
    OBVIOUS
  <1> USE DEF Init, make_taskboard
  <1>1. Size \in Nat \ {0}
    BY SizePositive
  <1>2. TypeOK
    BY <1>1 DEF TypeOK, Tasks
  <1>3. ScanHoldsMutex
    BY NoOneAssumption DEF ScanHoldsMutex
  <1>4. ResultOffBoard /\ FoundOnBoard /\ TestedOffBoard
    BY DEF ResultOffBoard, FoundOnBoard, TestedOffBoard
  <1>5. ScanBounded
    BY <1>1 DEF ScanBounded
  <1>6. OncePerTask /\ NoneMissed
    BY DEF OncePerTask, NoneMissed
  <1> QED
    BY <1>2, <1>3, <1>4, <1>5, <1>6 DEF IInv

(* Every step of getTask and worker_entry keeps the types.                 *)
LEMMA TypeStep ==
  ASSUME IInv, NEW w \in Workers, worker_entry(w)
  PROVE  TypeOK'
  <1> USE DEF IInv, TypeOK, Goto
  <1>1. Size \in Nat \ {0}
    BY SizePositive
  <1>2. CASE Choose(w)
    BY <1>1, <1>2 DEF Choose
  <1>3. CASE Lock(w)
    BY <1>3 DEF Lock
  <1>4. CASE ScanOn(w)
    <2>1. NextIndex(index[w]) \in Tasks
      BY NextPlace
    <2>2. i[w] + 1 \in 0 .. Size
      BY <1>1, <1>4 DEF ScanOn
    <2> QED
      BY <1>4, <2>1, <2>2 DEF ScanOn
  <1>5. CASE NothingLeft(w)
    <2>1. NextIndex(index[w]) \in Tasks
      BY NextPlace
    <2>2. i[w] + 1 \in 0 .. Size
      BY <1>1, <1>5 DEF NothingLeft, ScanBounded
    <2> QED
      BY <1>5, <2>1, <2>2 DEF NothingLeft
  <1>6. CASE Found(w)
    BY <1>6 DEF Found
  <1>7. CASE Take(w)
    BY <1>7 DEF Take
  <1>8. CASE Compute(w)
    <2>1. Cell(index[w]) \in Cells
      BY CellInjective
    <2> QED
      BY <1>8, <2>1 DEF Compute
  <1> QED
    BY <1>2, <1>3, <1>4, <1>5, <1>6, <1>7, <1>8 DEF worker_entry

(* Every step leaves the mutex with whoever is in the scan.                *)
LEMMA MutexStep ==
  ASSUME IInv, NEW w \in Workers, worker_entry(w)
  PROVE  ScanHoldsMutex'
  <1> USE DEF IInv, TypeOK, Goto, ScanHoldsMutex
  <1>1. NoOne \notin Workers
    BY NoOneAssumption
  <1>2. CASE Choose(w)
    BY <1>2 DEF Choose
  <1>3. CASE Lock(w)
    BY <1>1, <1>3 DEF Lock
  <1>4. CASE ScanOn(w)
    BY <1>4 DEF ScanOn
  <1>5. CASE NothingLeft(w)
    BY <1>1, <1>5 DEF NothingLeft
  <1>6. CASE Found(w)
    BY <1>6 DEF Found
  <1>7. CASE Take(w)
    BY <1>1, <1>7 DEF Take
  <1>8. CASE Compute(w)
    BY <1>8 DEF Compute
  <1> QED
    BY <1>2, <1>3, <1>4, <1>5, <1>6, <1>7, <1>8 DEF worker_entry

(* Nothing comes back on the board, only Take takes a task off it, and     *)
(* only Compute writes the result.                                         *)
LEMMA BoardStep ==
  ASSUME IInv, NEW w \in Workers, worker_entry(w)
  PROVE  /\ \A t \in Tasks : board[t] = 0 => board'[t] = 0
         /\ ~ Take(w) => board' = board
         /\ ~ Compute(w) => matrixC' = matrixC
  BY DEF IInv, TypeOK, worker_entry, Choose, Lock, ScanOn, NothingLeft,
         Found, Take, Compute

(* Every step keeps what is in the result off the board.                   *)
LEMMA ResultStep ==
  ASSUME IInv, NEW w \in Workers, worker_entry(w)
  PROVE  ResultOffBoard'
  <1> USE DEF IInv, ResultOffBoard
  <1>1. CASE Compute(w)
    <2> SUFFICES ASSUME NEW t \in Tasks, Cell(t) \in matrixC'
                 PROVE  board'[t] = 0
      OBVIOUS
    <2>1. board[index[w]] = 0 /\ index[w] \in Tasks
      BY <1>1 DEF Compute, Goto, OncePerTask, TypeOK
    <2>2. Cell(t) \in matrixC \/ Cell(t) = Cell(index[w])
      BY <1>1 DEF Compute
    <2>3. Cell(t) \in matrixC \/ t = index[w]
      BY <2>1, <2>2, CellInjective
    <2> QED
      BY <2>1, <2>3, BoardStep
  <1>2. CASE ~ Compute(w)
    BY <1>2, BoardStep
  <1> QED
    BY <1>1, <1>2

(* A task that the scan has found stays on the board until it is taken.    *)
LEMMA FoundStep ==
  ASSUME IInv, NEW w \in Workers, worker_entry(w)
  PROVE  FoundOnBoard'
  <1> USE DEF IInv, TypeOK, Goto, FoundOnBoard
  <1>1. CASE Take(w)
    <2>1. \A v \in Workers \ {w} : pc[v] # "take"
      BY <1>1 DEF Take, ScanHoldsMutex
    <2> QED
      BY <1>1, <2>1 DEF Take
  <1>2. CASE Found(w)
    BY <1>2 DEF Found
  <1>3. CASE ~ Take(w) /\ ~ Found(w)
    BY <1>3 DEF worker_entry, Choose, Lock, ScanOn, NothingLeft, Compute
  <1> QED
    BY <1>1, <1>2, <1>3

(* The scan goes on over tasks that are off the board only.                *)
LEMMA TestedStep ==
  ASSUME IInv, NEW w \in Workers, worker_entry(w)
  PROVE  TestedOffBoard'
  <1> USE DEF IInv, TypeOK, Goto
  <1>1. CASE ScanOn(w)
    <2> SUFFICES ASSUME NEW v \in Workers, pc'[v] = "scan", NEW t \in Tasks,
                        Behind(t, index'[v]) \in 1 .. i'[v]
                 PROVE  board'[t] = 0
      BY DEF TestedOffBoard, Behind
    <2>1. CASE v = w
      <3>1. index'[w] = NextIndex(index[w]) /\ i'[w] = i[w] + 1
            /\ board[index[w]] = 0 /\ pc[w] = "scan" /\ board' = board
        BY <1>1 DEF ScanOn
      <3>2. Size \in Nat \ {0} /\ i[w] \in 0 .. Size
        BY SizePositive
      <3>3. Behind(t, index[w]) \in 0 .. i[w]
        BY <2>1, <3>1, <3>2, BehindNext
      <3>4. CASE Behind(t, index[w]) = 0
        BY <3>1, <3>4, BehindNext
      <3>5. CASE Behind(t, index[w]) \in 1 .. i[w]
        BY <3>1, <3>5 DEF TestedOffBoard
      <3> QED
        BY <3>2, <3>3, <3>4, <3>5
    <2>2. CASE v # w
      BY <1>1, <2>2 DEF ScanOn, TestedOffBoard
    <2> QED
      BY <2>1, <2>2
  <1>2. CASE Lock(w)
    <2>1. i[w] = 0
      BY <1>2 DEF Lock, ScanBounded
    <2> SUFFICES ASSUME NEW v \in Workers, pc'[v] = "scan", NEW t \in Tasks,
                        Behind(t, index[v]) \in 1 .. i[v]
                 PROVE  board[t] = 0
      BY <1>2 DEF Lock, TestedOffBoard, Behind
    <2>2. v # w
      BY <2>1
    <2> QED
      BY <1>2, <2>2 DEF Lock, TestedOffBoard
  <1>3. CASE ~ ScanOn(w) /\ ~ Lock(w)
    <2> SUFFICES ASSUME NEW v \in Workers, pc'[v] = "scan", NEW t \in Tasks,
                        Behind(t, index'[v]) \in 1 .. i'[v]
                 PROVE  board'[t] = 0
      BY DEF TestedOffBoard, Behind
    <2>1. pc[v] = "scan" /\ index'[v] = index[v] /\ i'[v] = i[v]
      BY <1>3 DEF worker_entry, Choose, NothingLeft, Found, Take, Compute
    <2> QED
      BY <2>1, BoardStep DEF TestedOffBoard
  <1> QED
    BY <1>1, <1>2, <1>3

(* Every step keeps the scan's count below the size of the board.          *)
LEMMA BoundStep ==
  ASSUME IInv, NEW w \in Workers, worker_entry(w)
  PROVE  ScanBounded'
  <1>1. Size \in Nat \ {0}
    BY SizePositive
  <1> QED
    BY <1>1 DEF IInv, TypeOK, ScanBounded, worker_entry, Goto, Choose, Lock,
                ScanOn, NothingLeft, Found, Take, Compute

(* Every step keeps tasks apart: one worker computes each, and once.       *)
LEMMA OnceStep ==
  ASSUME IInv, NEW w \in Workers, worker_entry(w)
  PROVE  OncePerTask'
  <1> USE DEF IInv, TypeOK, Goto
  <1>1. CASE Take(w)
    <2>1. board[index[w]] = 1 /\ index[w] \in Tasks
      BY <1>1 DEF Take, FoundOnBoard
    <2>2. Cell(index[w]) \notin matrixC
      BY <2>1 DEF ResultOffBoard
    <2>3. \A v \in Workers : pc[v] = "compute" => index[v] # index[w]
      BY <2>1 DEF OncePerTask
    <2> QED
      BY <1>1, <2>1, <2>2, <2>3 DEF Take, OncePerTask
  <1>2. CASE Compute(w)
    <2> SUFFICES ASSUME NEW v \in Workers, pc'[v] = "compute"
                 PROVE  /\ board[index[v]] = 0
                        /\ Cell(index[v]) \notin matrixC'
                        /\ \A u \in Workers \ {v} :
                             pc'[u] = "compute" => index[u] # index[v]
      BY <1>2 DEF Compute, OncePerTask
    <2>1. v # w /\ pc[v] = "compute"
      BY <1>2 DEF Compute
    <2>2. index[v] # index[w]
      BY <1>2, <2>1 DEF Compute, OncePerTask
    <2>3. Cell(index[v]) # Cell(index[w])
      BY <2>2, CellInjective
    <2> QED
      BY <1>2, <2>1, <2>3 DEF Compute, OncePerTask
  <1>3. CASE ~ Take(w) /\ ~ Compute(w)
    BY <1>3 DEF worker_entry, Choose, Lock, ScanOn, NothingLeft, Found,
                OncePerTask
  <1> QED
    BY <1>1, <1>2, <1>3

(* Every step leaves a task on the board, in a worker's hands or in the    *)
(* result, and a worker ends with an empty board only.                     *)
LEMMA MissedStep ==
  ASSUME IInv, NEW w \in Workers, worker_entry(w)
  PROVE  NoneMissed'
  <1> USE DEF IInv, TypeOK, Goto
  <1>1. ASSUME NEW t \in Tasks, board'[t] = 0
        PROVE  \/ Cell(t) \in matrixC'
               \/ \E v \in Workers : pc'[v] = "compute" /\ index'[v] = t
    <2>1. CASE Take(w)
      BY <1>1, <2>1 DEF Take, NoneMissed
    <2>2. CASE Compute(w)
      BY <1>1, <2>2 DEF Compute, NoneMissed
    <2>3. CASE ~ Take(w) /\ ~ Compute(w)
      <3>1. board[t] = 0 /\ matrixC' = matrixC
        BY <1>1, <2>3, BoardStep
      <3>2. \A v \in Workers : pc[v] = "compute" =>
              pc'[v] = "compute" /\ index'[v] = index[v]
        BY <2>3 DEF worker_entry, Choose, Lock, ScanOn, NothingLeft, Found
      <3> QED
        BY <3>1, <3>2 DEF NoneMissed
    <2> QED
      BY <2>1, <2>2, <2>3
  <1>2. ASSUME NEW v \in Workers, pc'[v] = "end", NEW t \in Tasks
        PROVE  board'[t] = 0
    <2>1. CASE NothingLeft(w)
      <3>1. board[index[w]] = 0 /\ pc[w] = "scan" /\ i[w] + 1 >= Size
            /\ board' = board
        BY <2>1 DEF NothingLeft
      <3>2. Size \in Nat \ {0} /\ i[w] \in 0 .. Size
        BY SizePositive
      <3>3. Behind(t, index[w]) = 0 \/ Behind(t, index[w]) \in 1 .. i[w]
        BY <3>1, <3>2, BehindNext
      <3> QED
        BY <3>1, <3>3, BehindNext DEF TestedOffBoard
    <2>2. CASE ~ NothingLeft(w)
      <3>1. pc[v] = "end"
        BY <1>2, <2>2 DEF worker_entry, Choose, Lock, ScanOn, Found, Take,
                          Compute
      <3> QED
        BY <3>1, BoardStep DEF NoneMissed
    <2> QED
      BY <2>1, <2>2
  <1> QED
    BY <1>1, <1>2 DEF NoneMissed

-----------------------------------------------------------------------------
(* The invariant holds in every state (parallelMultiply's workers).        *)
THEOREM Invariance == Spec => []IInv
  <1>1. Init => IInv
    BY Initially
  <1>2. IInv /\ [Next]_vars => IInv'
    <2> SUFFICES ASSUME IInv, [Next]_vars PROVE IInv'
      OBVIOUS
    <2>1. CASE \E w \in Workers : worker_entry(w)
      BY <2>1, TypeStep, MutexStep, ResultStep, FoundStep, TestedStep,
         BoundStep, OnceStep, MissedStep DEF IInv
    <2>2. CASE UNCHANGED vars
      BY <2>2 DEF vars, IInv, TypeOK, ScanHoldsMutex, ResultOffBoard,
                  FoundOnBoard, TestedOffBoard, ScanBounded, OncePerTask,
                  NoneMissed, Behind
    <2> QED
      BY <2>1, <2>2 DEF Next, Joined
  <1> QED
    BY <1>1, <1>2, PTL DEF Spec

(* The board, the places on it and the result keep their types, whatever   *)
(* getTask's rand() returns.                                               *)
THEOREM TypeCorrect == Spec => []TypeOK
  <1>1. IInv => TypeOK
    BY DEF IInv
  <1> QED
    BY <1>1, Invariance, PTL

(* "each task is carried out only once" (parmul.h).                        *)
THEOREM EachTaskOnce == Spec => []OncePerTask
  <1>1. IInv => OncePerTask
    BY DEF IInv
  <1> QED
    BY <1>1, Invariance, PTL

(* No task is lost, and no worker stops while one is on the board.         *)
THEOREM NoTaskMissed == Spec => []NoneMissed
  <1>1. IInv => NoneMissed
    BY DEF IInv
  <1> QED
    BY <1>1, Invariance, PTL

(* The result that main compares with the sequential one is complete when  *)
(* all workers are joined.                                                 *)
THEOREM ResultIsComplete == Spec => []ResultComplete
  <1>1. IInv => ResultComplete
    <2> SUFFICES ASSUME IInv, AllEnded PROVE matrixC = Cells
      BY DEF ResultComplete
    <2>1. matrixC \subseteq Cells
      BY DEF IInv, TypeOK
    <2>2. ASSUME NEW c \in Cells PROVE c \in matrixC
      <3>1. PICK t \in Tasks : Cell(t) = c
        BY CellOnto
      <3>2. board[t] = 0
        BY SizesAssumption DEF IInv, NoneMissed, AllEnded
      <3> QED
        BY <3>1, <3>2 DEF IInv, NoneMissed, AllEnded
    <2> QED
      BY <2>1, <2>2
  <1> QED
    BY <1>1, Invariance, PTL
=============================================================================
