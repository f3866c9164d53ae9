----------------------------- MODULE MPMCProofs -----------------------------
(***************************************************************************)
(* What holds of matrix/MPMC for any number of producers, consumers,       *)
(* products and slots.                                                     *)
(***************************************************************************)
EXTENDS MPMC, FiniteSetTheorems, DataLemmas

MutexSteps  == INSTANCE SemaphoreProofs WITH sem <- mutex, granted <- 0,
                                            Value <- 0, MaxValue <- 0
ItemsSteps  == INSTANCE SemaphoreProofs WITH sem <- items, granted <- 0,
                                            Value <- 0, MaxValue <- 0
SpacesSteps == INSTANCE SemaphoreProofs WITH sem <- spaces, granted <- 0,
                                            Value <- 0, MaxValue <- 0

-----------------------------------------------------------------------------
(* main makes finitely many threads, so they can be counted.               *)
LEMMA ThreadsFinite == IsFiniteSet(Threads)
BY ThreadsAssumption, FS_Union DEF Threads

(* So the lemmas of module SemaphoreProofs apply to the three semaphores;  *)
(* its constants for a client have no part in them.                        *)
LEMMA StepsApply ==
  /\ MutexSteps!ValueAssumption /\ MutexSteps!ThreadsAssumption
  /\ ItemsSteps!ValueAssumption /\ ItemsSteps!ThreadsAssumption
  /\ SpacesSteps!ValueAssumption /\ SpacesSteps!ThreadsAssumption
BY ThreadsFinite
   DEF MutexSteps!ValueAssumption, MutexSteps!ThreadsAssumption,
       ItemsSteps!ValueAssumption, ItemsSteps!ThreadsAssumption,
       SpacesSteps!ValueAssumption, SpacesSteps!ThreadsAssumption,
       IsFiniteSet, MutexSteps!IsFiniteSet, ItemsSteps!IsFiniteSet,
       SpacesSteps!IsFiniteSet

(* What the operations of each semaphore do to its permits.                *)
LEMMA MutexPermits ==
  ASSUME Mutex!WellFormed, NEW t \in Threads
  PROVE  /\ Mutex!Permits \in Nat
         /\ Mutex!PReturn(t) =>
              /\ Mutex!WellFormed' /\ Mutex!Permits > 0
              /\ Mutex!Permits' = Mutex!Permits - 1
         /\ Mutex!PBlock(t) \/ Mutex!SpuriousWakeup(t) =>
              Mutex!WellFormed' /\ Mutex!Permits' = Mutex!Permits
         /\ Mutex!semaphore_V(t) =>
              Mutex!WellFormed' /\ Mutex!Permits' = Mutex!Permits + 1
<1> USE DEF Mutex!WellFormed, MutexSteps!WellFormed,
            Mutex!Semaphores, MutexSteps!Semaphores,
            Mutex!Permits, MutexSteps!Permits,
            Mutex!Blocked, MutexSteps!Blocked
<1>1. Mutex!Permits \in Nat
  BY MutexSteps!PermitsType
<1>2. Mutex!PReturn(t) => MutexSteps!PReturn(t)
  BY DEF Mutex!PReturn, MutexSteps!PReturn,
         Mutex!PTake, MutexSteps!PTake,
         Mutex!PWake, MutexSteps!PWake
<1>3. Mutex!PBlock(t) => MutexSteps!PBlock(t)
  BY DEF Mutex!PBlock, MutexSteps!PBlock,
         Mutex!PWait, MutexSteps!PWait,
         Mutex!PAgain, MutexSteps!PAgain
<1>4. Mutex!SpuriousWakeup(t) => MutexSteps!SpuriousWakeup(t)
  BY DEF Mutex!SpuriousWakeup, MutexSteps!SpuriousWakeup
<1>5. Mutex!semaphore_V(t) => MutexSteps!semaphore_V(t)
  BY DEF Mutex!semaphore_V, MutexSteps!semaphore_V,
         Mutex!Signalled, MutexSteps!Signalled
<1> QED
  BY <1>1, <1>2, <1>3, <1>4, <1>5, StepsApply, MutexSteps!PReturnPermits,
     MutexSteps!PBlockPermits, MutexSteps!SpuriousPermits, MutexSteps!VPermits

(* make_semaphore(v) makes a mutex semaphore with v permits.               *)
LEMMA MutexMade ==
  ASSUME NEW v \in Nat, mutex = Mutex!make_semaphore(v)
  PROVE  Mutex!WellFormed /\ Mutex!Permits = v
BY MutexSteps!MakePermits
   DEF Mutex!make_semaphore, MutexSteps!make_semaphore, Mutex!WellFormed,
       MutexSteps!WellFormed, Mutex!Semaphores, MutexSteps!Semaphores,
       Mutex!Permits, MutexSteps!Permits

(* The same for the semaphore of items.                                    *)
LEMMA ItemsPermits ==
  ASSUME Items!WellFormed, NEW t \in Threads
  PROVE  /\ Items!Permits \in Nat
         /\ Items!PReturn(t) =>
              /\ Items!WellFormed' /\ Items!Permits > 0
              /\ Items!Permits' = Items!Permits - 1
         /\ Items!PBlock(t) \/ Items!SpuriousWakeup(t) =>
              Items!WellFormed' /\ Items!Permits' = Items!Permits
         /\ Items!semaphore_V(t) =>
              Items!WellFormed' /\ Items!Permits' = Items!Permits + 1
<1> USE DEF Items!WellFormed, ItemsSteps!WellFormed,
            Items!Semaphores, ItemsSteps!Semaphores,
            Items!Permits, ItemsSteps!Permits,
            Items!Blocked, ItemsSteps!Blocked
<1>1. Items!Permits \in Nat
  BY ItemsSteps!PermitsType
<1>2. Items!PReturn(t) => ItemsSteps!PReturn(t)
  BY DEF Items!PReturn, ItemsSteps!PReturn,
         Items!PTake, ItemsSteps!PTake,
         Items!PWake, ItemsSteps!PWake
<1>3. Items!PBlock(t) => ItemsSteps!PBlock(t)
  BY DEF Items!PBlock, ItemsSteps!PBlock,
         Items!PWait, ItemsSteps!PWait,
         Items!PAgain, ItemsSteps!PAgain
<1>4. Items!SpuriousWakeup(t) => ItemsSteps!SpuriousWakeup(t)
  BY DEF Items!SpuriousWakeup, ItemsSteps!SpuriousWakeup
<1>5. Items!semaphore_V(t) => ItemsSteps!semaphore_V(t)
  BY DEF Items!semaphore_V, ItemsSteps!semaphore_V,
         Items!Signalled, ItemsSteps!Signalled
<1> QED
  BY <1>1, <1>2, <1>3, <1>4, <1>5, StepsApply, ItemsSteps!PReturnPermits,
     ItemsSteps!PBlockPermits, ItemsSteps!SpuriousPermits, ItemsSteps!VPermits

(* make_semaphore(v) makes an items semaphore with v permits.              *)
LEMMA ItemsMade ==
  ASSUME NEW v \in Nat, items = Items!make_semaphore(v)
  PROVE  Items!WellFormed /\ Items!Permits = v
BY ItemsSteps!MakePermits
   DEF Items!make_semaphore, ItemsSteps!make_semaphore, Items!WellFormed,
       ItemsSteps!WellFormed, Items!Semaphores, ItemsSteps!Semaphores,
       Items!Permits, ItemsSteps!Permits

(* The same for the semaphore of spaces.                                   *)
LEMMA SpacesPermits ==
  ASSUME Spaces!WellFormed, NEW t \in Threads
  PROVE  /\ Spaces!Permits \in Nat
         /\ Spaces!PReturn(t) =>
              /\ Spaces!WellFormed' /\ Spaces!Permits > 0
              /\ Spaces!Permits' = Spaces!Permits - 1
         /\ Spaces!PBlock(t) \/ Spaces!SpuriousWakeup(t) =>
              Spaces!WellFormed' /\ Spaces!Permits' = Spaces!Permits
         /\ Spaces!semaphore_V(t) =>
              Spaces!WellFormed' /\ Spaces!Permits' = Spaces!Permits + 1
<1> USE DEF Spaces!WellFormed, SpacesSteps!WellFormed,
            Spaces!Semaphores, SpacesSteps!Semaphores,
            Spaces!Permits, SpacesSteps!Permits,
            Spaces!Blocked, SpacesSteps!Blocked
<1>1. Spaces!Permits \in Nat
  BY SpacesSteps!PermitsType
<1>2. Spaces!PReturn(t) => SpacesSteps!PReturn(t)
  BY DEF Spaces!PReturn, SpacesSteps!PReturn,
         Spaces!PTake, SpacesSteps!PTake,
         Spaces!PWake, SpacesSteps!PWake
<1>3. Spaces!PBlock(t) => SpacesSteps!PBlock(t)
  BY DEF Spaces!PBlock, SpacesSteps!PBlock,
         Spaces!PWait, SpacesSteps!PWait,
         Spaces!PAgain, SpacesSteps!PAgain
<1>4. Spaces!SpuriousWakeup(t) => SpacesSteps!SpuriousWakeup(t)
  BY DEF Spaces!SpuriousWakeup, SpacesSteps!SpuriousWakeup
<1>5. Spaces!semaphore_V(t) => SpacesSteps!semaphore_V(t)
  BY DEF Spaces!semaphore_V, SpacesSteps!semaphore_V,
         Spaces!Signalled, SpacesSteps!Signalled
<1> QED
  BY <1>1, <1>2, <1>3, <1>4, <1>5, StepsApply, SpacesSteps!PReturnPermits,
     SpacesSteps!PBlockPermits, SpacesSteps!SpuriousPermits, SpacesSteps!VPermits

(* make_semaphore(v) makes a spaces semaphore with v permits.              *)
LEMMA SpacesMade ==
  ASSUME NEW v \in Nat, spaces = Spaces!make_semaphore(v)
  PROVE  Spaces!WellFormed /\ Spaces!Permits = v
BY SpacesSteps!MakePermits
   DEF Spaces!make_semaphore, SpacesSteps!make_semaphore, Spaces!WellFormed,
       SpacesSteps!WellFormed, Spaces!Semaphores, SpacesSteps!Semaphores,
       Spaces!Permits, SpacesSteps!Permits

-----------------------------------------------------------------------------
(* How many threads are at one of some labels, and how that number changes *)
(* when one thread goes from one label to another.                         *)
Count(L) == Cardinality(At(L))

In(label, L) == IF label \in L THEN 1 ELSE 0

(* The number of threads at some labels is a natural number.               *)
LEMMA CountType == ASSUME NEW L PROVE Count(L) \in Nat
BY ThreadsFinite, FS_Subset, FS_CardinalityType DEF Count, At

(* A thread that goes from label a to label b changes the count of a set   *)
(* of labels by what b and a have to do with it.                           *)
LEMMA Moved ==
  ASSUME pc \in [Threads -> PcLabels], NEW t \in Threads,
         NEW a \in PcLabels, NEW b \in PcLabels, Goto(t, a, b), NEW L
  PROVE  Count(L)' = Count(L) - In(a, L) + In(b, L)
<1>1. /\ pc[t] = a /\ pc'[t] = b
      /\ \A u \in Threads \ {t} : pc'[u] = pc[u]
  BY DEF Goto
<1>2. IsFiniteSet(At(L)) /\ Cardinality(At(L)) \in Nat
  BY ThreadsFinite, FS_Subset, FS_CardinalityType DEF At
<1>3. CASE a \in L /\ b \in L
  <2>1. At(L)' = At(L)
    BY <1>1, <1>3 DEF At
  <2> QED
    BY <1>2, <1>3, <2>1 DEF Count, In
<1>4. CASE a \in L /\ b \notin L
  <2>1. At(L)' = At(L) \ {t} /\ t \in At(L)
    BY <1>1, <1>4 DEF At
  <2>2. Cardinality(At(L) \ {t}) = Cardinality(At(L)) - 1
    BY <1>2, <2>1, FS_RemoveElement
  <2> QED
    BY <1>2, <1>4, <2>1, <2>2 DEF Count, In
<1>5. CASE a \notin L /\ b \in L
  <2>1. At(L)' = At(L) \cup {t} /\ t \notin At(L)
    BY <1>1, <1>5 DEF At
  <2>2. Cardinality(At(L) \cup {t}) = Cardinality(At(L)) + 1
    BY <1>2, <2>1, FS_AddElement
  <2> QED
    BY <1>2, <1>5, <2>1, <2>2 DEF Count, In
<1>6. CASE a \notin L /\ b \notin L
  <2>1. At(L)' = At(L)
    BY <1>1, <1>6 DEF At
  <2> QED
    BY <1>2, <1>6, <2>1 DEF Count, In
<1> QED
  BY <1>3, <1>4, <1>5, <1>6

(* When no thread moves, no count changes.                                 *)
LEMMA Unmoved ==
  ASSUME UNCHANGED pc, NEW L
  PROVE  Count(L)' = Count(L)
BY DEF Count, At

(* A thread at one of the labels makes their count positive.               *)
LEMMA AtLeastOne ==
  ASSUME NEW t \in Threads, NEW L, pc[t] \in L
  PROVE  Count(L) >= 1
<1>1. t \in At(L) /\ IsFiniteSet(At(L))
  BY ThreadsFinite, FS_Subset DEF At
<1>2. At(L) # {} => Cardinality(At(L)) # 0
  BY <1>1, FS_EmptySet
<1> QED
  BY <1>1, <1>2, CountType DEF Count

-----------------------------------------------------------------------------
(* The mutex: its permit is there, or with exactly one thread.             *)
OneHolder == Mutex!Permits + Count(Holding) = 1

(* The counters of the ring buffer follow the two ends of the buffer.      *)
Counters == /\ head + num_rest_to_produce = NumAll
            /\ tail + num_rest_to_consume = NumAll
            /\ tail <= head

IInv == TypeOK /\ OneHolder /\ SpacesAccounted /\ ItemsAccounted /\ Counters

(* make_rbuffer and the start of the threads establish the invariant.      *)
LEMMA InitIInv == Init => IInv
<1> SUFFICES ASSUME Init PROVE IInv
  OBVIOUS
<1>1. \A L \in {Holding, WithSpace, WithItem} :
         Count(L) = 0
  <2>1. ASSUME NEW L, "p_spaces" \notin L, "c_items" \notin L
        PROVE  Count(L) = 0
    <3>1. At(L) = {}
      BY <2>1 DEF Init, At
    <3> QED
      BY <3>1, FS_EmptySet DEF Count
  <2> QED
    BY <2>1 DEF Holding, WithSpace, WithItem
<1>2. /\ Mutex!WellFormed /\ Mutex!Permits = 1
      /\ Items!WellFormed /\ Items!Permits = 0
      /\ Spaces!WellFormed /\ Spaces!Permits = Length
  BY MutexMade, ItemsMade, SpacesMade, SizesAssumption
     DEF Init, make_rbuffer
<1>3. TypeOK
  BY <1>2, SizesAssumption DEF Init, make_rbuffer, TypeOK, PcLabels
<1>4. OneHolder /\ SpacesAccounted /\ ItemsAccounted
  BY <1>1, <1>2, SizesAssumption
     DEF Init, make_rbuffer, OneHolder, SpacesAccounted, ItemsAccounted, Extra, Count
<1>5. Counters
  BY SizesAssumption DEF Init, make_rbuffer, Counters
<1> QED
  BY <1>3, <1>4, <1>5 DEF IInv

-----------------------------------------------------------------------------
(* Under the type invariant the numbers in the accounts are integers.      *)
LEMMA NumbersTyped ==
  /\ TypeOK => /\ Mutex!Permits \in Nat /\ Items!Permits \in Nat
               /\ Spaces!Permits \in Nat
               /\ head \in Int /\ tail \in Int /\ Extra \in Int
  /\ TypeOK' => /\ Mutex!Permits' \in Nat /\ Items!Permits' \in Nat
                /\ Spaces!Permits' \in Nat
                /\ head' \in Int /\ tail' \in Int /\ Extra' \in Int
<1>1. /\ Mutex!WellFormed => Mutex!Permits \in Nat
      /\ Mutex!WellFormed' => Mutex!Permits' \in Nat
  BY DEF Mutex!WellFormed, Mutex!Semaphores, Mutex!Permits
<1>2. /\ Items!WellFormed => Items!Permits \in Nat
      /\ Items!WellFormed' => Items!Permits' \in Nat
  BY DEF Items!WellFormed, Items!Semaphores, Items!Permits
<1>3. /\ Spaces!WellFormed => Spaces!Permits \in Nat
      /\ Spaces!WellFormed' => Spaces!Permits' \in Nat
  BY DEF Spaces!WellFormed, Spaces!Semaphores, Spaces!Permits
<1>4. Extra \in Int /\ Extra' \in Int
  BY DEF Extra
<1> QED
  BY <1>1, <1>2, <1>3, <1>4 DEF TypeOK

(* A step that moves thread t from a to b keeps the accounts, if the       *)
(* permits and the ends of the buffer make up for what t takes or gives.   *)
LEMMA AccountsKept ==
  ASSUME IInv, NEW t \in Threads, NEW a \in PcLabels, NEW b \in PcLabels,
         Goto(t, a, b), TypeOK', Counters',
         Mutex!Permits' + In(b, Holding) = Mutex!Permits + In(a, Holding),
         Spaces!Permits' + In(b, WithSpace) + (head' - tail')
           = Spaces!Permits + In(a, WithSpace) + (head - tail),
         Items!Permits' + In(b, WithItem) - (head' - tail') - Extra'
           = Items!Permits + In(a, WithItem) - (head - tail) - Extra
  PROVE  IInv'
<1>1. ASSUME NEW L
      PROVE  /\ Count(L)' = Count(L) - In(a, L) + In(b, L)
             /\ Count(L) \in Nat /\ In(a, L) \in Nat /\ In(b, L) \in Nat
  <2>1. pc \in [Threads -> PcLabels]
    BY DEF IInv, TypeOK
  <2>2. Count(L)' = Count(L) - In(a, L) + In(b, L)
    BY <2>1, Moved
  <2> QED
    BY <2>2, CountType DEF In
<1>2. /\ Mutex!Permits \in Nat /\ Items!Permits \in Nat /\ Spaces!Permits \in Nat
      /\ head \in Int /\ tail \in Int /\ Extra \in Int
  BY NumbersTyped DEF IInv
<1>3. /\ Mutex!Permits' \in Nat /\ Items!Permits' \in Nat /\ Spaces!Permits' \in Nat
      /\ head' \in Int /\ tail' \in Int /\ Extra' \in Int
  BY NumbersTyped
<1>4. OneHolder'
  BY <1>1, <1>2, <1>3 DEF IInv, OneHolder
<1>5. SpacesAccounted'
  <2>1. Spaces!Permits + Count(WithSpace) + (head - tail) = Length
    BY DEF IInv, SpacesAccounted, Count
  <2>2. Spaces!Permits' + Count(WithSpace)' + (head' - tail') = Length
    BY <1>1, <1>2, <1>3, <2>1, SizesAssumption
  <2> QED
    BY <2>2 DEF SpacesAccounted, Count
<1>6. ItemsAccounted'
  <2>1. Items!Permits + Count(WithItem) = (head - tail) + Extra
    BY DEF IInv, ItemsAccounted, Count
  <2>2. Items!Permits' + Count(WithItem)' = (head' - tail') + Extra'
    BY <1>1, <1>2, <1>3, <2>1
  <2> QED
    BY <2>2 DEF ItemsAccounted, Count
<1> QED
  BY <1>4, <1>5, <1>6 DEF IInv

(* A step that moves no thread and no permit keeps the accounts.           *)
LEMMA AccountsIdle ==
  ASSUME IInv, UNCHANGED <<pc, buffer_vars>>, TypeOK',
         Mutex!Permits' = Mutex!Permits, Items!Permits' = Items!Permits,
         Spaces!Permits' = Spaces!Permits
  PROVE  IInv'
<1>1. /\ head' = head /\ tail' = tail
      /\ num_rest_to_produce' = num_rest_to_produce
      /\ num_rest_to_consume' = num_rest_to_consume
  BY DEF buffer_vars
<1>2. \A L : At(L)' = At(L)
  BY DEF At
<1> QED
  BY <1>1, <1>2
     DEF IInv, OneHolder, Count, SpacesAccounted, ItemsAccounted, Extra, Counters

(* A step outside the buffer's own code needs to make up for the permits   *)
(* alone.                                                                  *)
LEMMA AccountsMoved ==
  ASSUME IInv, NEW t \in Threads, NEW a \in PcLabels, NEW b \in PcLabels,
         Goto(t, a, b), UNCHANGED buffer_vars, TypeOK',
         Mutex!Permits' + In(b, Holding) = Mutex!Permits + In(a, Holding),
         Spaces!Permits' + In(b, WithSpace) = Spaces!Permits + In(a, WithSpace),
         Items!Permits' + In(b, WithItem) = Items!Permits + In(a, WithItem)
  PROVE  IInv'
<1>1. /\ head' = head /\ tail' = tail /\ Extra' = Extra
      /\ Counters' = Counters
  BY DEF buffer_vars, Extra, Counters
<1>2. \A x, L : In(x, L) \in Nat
  BY DEF In
<1> QED
  BY <1>1, <1>2, AccountsKept, NumbersTyped DEF IInv

(* Which labels are in which of the three sets.                            *)
LEMMA Places ==
  LET In3(l, h, s, m) == /\ l \in PcLabels /\ In(l, Holding) = h
                         /\ In(l, WithSpace) = s /\ In(l, WithItem) = m
  IN /\ In3("p_spaces", 0, 0, 0) /\ In3("p_mutex", 0, 1, 0)
     /\ In3("p_body", 1, 1, 0) /\ In3("p_unlock", 1, 0, 1)
     /\ In3("p_items", 0, 0, 1) /\ In3("p_end_mutex", 1, 1, 0)
     /\ In3("p_end_spaces", 0, 1, 0) /\ In3("p_report", 0, 0, 0)
     /\ In3("c_items", 0, 0, 0) /\ In3("c_mutex", 0, 0, 1)
     /\ In3("c_body", 1, 0, 1) /\ In3("c_wake", 1, 1, 1)
     /\ In3("c_unlock", 1, 1, 0) /\ In3("c_spaces", 0, 1, 0)
     /\ In3("c_end_mutex", 1, 0, 1) /\ In3("c_end_items", 0, 0, 1)
     /\ In3("c_report", 0, 0, 0) /\ In3("done", 0, 0, 0)
BY DEF In, Holding, WithSpace, WithItem, PcLabels

(* What does not touch a semaphore leaves its permits alone.               *)
LEMMA SemaphoresUnchanged ==
  /\ UNCHANGED mutex =>
       Mutex!Permits' = Mutex!Permits /\ Mutex!WellFormed' = Mutex!WellFormed
  /\ UNCHANGED items =>
       Items!Permits' = Items!Permits /\ Items!WellFormed' = Items!WellFormed
  /\ UNCHANGED spaces =>
       Spaces!Permits' = Spaces!Permits /\ Spaces!WellFormed' = Spaces!WellFormed
BY DEF Mutex!Permits, Mutex!WellFormed, Mutex!Semaphores,
       Items!Permits, Items!WellFormed, Items!Semaphores,
       Spaces!Permits, Spaces!WellFormed, Spaces!Semaphores

(* The labels of the code are labels of the type invariant.                *)
LEMMA GotoTyped ==
  ASSUME TypeOK, NEW t, NEW a, NEW b \in PcLabels, Goto(t, a, b)
  PROVE  pc' \in [Threads -> PcLabels]
BY DEF TypeOK, Goto

(* rbuffer_push taking a place keeps the invariant (rbuffer.c:67).         *)
LEMMA PushSpacesKeeps ==
  ASSUME IInv, NEW p \in Producers, PushSpaces(p)
  PROVE  IInv'
<1>1. p \in Threads /\ TypeOK /\ Counters
  BY DEF Threads, IInv
<1>2. CASE Spaces!PReturn(p) /\ Goto(p, "p_spaces", "p_mutex")
  <2>1. TypeOK'
    BY <1>1, <1>2, GotoTyped, SpacesPermits, SemaphoresUnchanged, SizesAssumption
       DEF PushSpaces, TypeOK, buffer_vars, local_vars, totals, PcLabels
  <2>2. /\ Mutex!Permits' = Mutex!Permits
       /\ Items!Permits' = Items!Permits
       /\ Spaces!Permits' = Spaces!Permits - 1
    BY <1>1, <1>2, SpacesPermits, SemaphoresUnchanged DEF PushSpaces, TypeOK
  <2>3. Goto(p, "p_spaces", "p_mutex") /\ UNCHANGED buffer_vars
    BY <1>2 DEF PushSpaces
  <2> QED
    BY <1>1, <2>1, <2>2, <2>3, AccountsMoved, Places, NumbersTyped
<1>3. CASE Spaces!PBlock(p) /\ Stay(p, "p_spaces")
  <2>1. TypeOK'
    BY <1>1, <1>3, SpacesPermits, SemaphoresUnchanged, SizesAssumption
       DEF PushSpaces, TypeOK, buffer_vars, local_vars, totals, PcLabels, Stay
  <2>2. /\ Mutex!Permits' = Mutex!Permits
       /\ Items!Permits' = Items!Permits
       /\ Spaces!Permits' = Spaces!Permits
    BY <1>1, <1>3, SpacesPermits, SemaphoresUnchanged DEF PushSpaces, TypeOK
  <2>3. UNCHANGED <<pc, buffer_vars>>
    BY <1>3 DEF PushSpaces, Stay
  <2> QED
    BY <2>1, <2>2, <2>3, AccountsIdle
<1> QED
  BY <1>2, <1>3 DEF PushSpaces

(* rbuffer_push taking the mutex keeps it (rbuffer.c:68).                  *)
LEMMA PushMutexKeeps ==
  ASSUME IInv, NEW p \in Producers, PushMutex(p)
  PROVE  IInv'
<1>1. p \in Threads /\ TypeOK /\ Counters
  BY DEF Threads, IInv
<1>2. CASE Mutex!PReturn(p) /\ Goto(p, "p_mutex", "p_body")
  <2>1. TypeOK'
    BY <1>1, <1>2, GotoTyped, MutexPermits, SemaphoresUnchanged, SizesAssumption
       DEF PushMutex, TypeOK, buffer_vars, local_vars, totals, PcLabels
  <2>2. /\ Mutex!Permits' = Mutex!Permits - 1
       /\ Items!Permits' = Items!Permits
       /\ Spaces!Permits' = Spaces!Permits
    BY <1>1, <1>2, MutexPermits, SemaphoresUnchanged DEF PushMutex, TypeOK
  <2>3. Goto(p, "p_mutex", "p_body") /\ UNCHANGED buffer_vars
    BY <1>2 DEF PushMutex
  <2> QED
    BY <1>1, <2>1, <2>2, <2>3, AccountsMoved, Places, NumbersTyped
<1>3. CASE Mutex!PBlock(p) /\ Stay(p, "p_mutex")
  <2>1. TypeOK'
    BY <1>1, <1>3, MutexPermits, SemaphoresUnchanged, SizesAssumption
       DEF PushMutex, TypeOK, buffer_vars, local_vars, totals, PcLabels, Stay
  <2>2. /\ Mutex!Permits' = Mutex!Permits
       /\ Items!Permits' = Items!Permits
       /\ Spaces!Permits' = Spaces!Permits
    BY <1>1, <1>3, MutexPermits, SemaphoresUnchanged DEF PushMutex, TypeOK
  <2>3. UNCHANGED <<pc, buffer_vars>>
    BY <1>3 DEF PushMutex, Stay
  <2> QED
    BY <2>1, <2>2, <2>3, AccountsIdle
<1> QED
  BY <1>2, <1>3 DEF PushMutex

(* rbuffer_push finding the objective reached keeps it (rbuffer.c:70).     *)
LEMMA NothingToDoKeeps ==
  ASSUME IInv, NEW p \in Producers, NothingToDo(p)
  PROVE  IInv'
<1>1. p \in Threads /\ TypeOK /\ Counters
  BY DEF Threads, IInv
<1>2. TypeOK'
  BY <1>1, GotoTyped, SemaphoresUnchanged, SizesAssumption
     DEF NothingToDo, TypeOK, buffer_vars, local_vars, totals, PcLabels
<1>3. /\ Mutex!Permits' = Mutex!Permits
     /\ Items!Permits' = Items!Permits
     /\ Spaces!Permits' = Spaces!Permits
  BY <1>1, SemaphoresUnchanged DEF NothingToDo, TypeOK
<1>4. Goto(p, "p_body", "p_end_mutex") /\ UNCHANGED buffer_vars
  BY DEF NothingToDo
<1> QED
  BY <1>1, <1>2, <1>3, <1>4, AccountsMoved, Places, NumbersTyped

(* rbuffer_push giving up the mutex keeps it (rbuffer.c:74, :84).          *)
LEMMA PushUnlockKeeps ==
  ASSUME IInv, NEW p \in Producers, PushUnlock(p)
  PROVE  IInv'
<1>1. p \in Threads /\ TypeOK /\ Counters
  BY DEF Threads, IInv
<1>2. CASE Goto(p, "p_unlock", "p_items")
  <2>1. TypeOK'
    BY <1>1, <1>2, GotoTyped, MutexPermits, SemaphoresUnchanged, SizesAssumption
       DEF PushUnlock, TypeOK, buffer_vars, local_vars, totals, PcLabels
  <2>2. /\ Mutex!Permits' = Mutex!Permits + 1
       /\ Items!Permits' = Items!Permits
       /\ Spaces!Permits' = Spaces!Permits
    BY <1>1, <1>2, MutexPermits, SemaphoresUnchanged DEF PushUnlock, TypeOK
  <2>3. Goto(p, "p_unlock", "p_items") /\ UNCHANGED buffer_vars
    BY <1>2 DEF PushUnlock
  <2> QED
    BY <1>1, <2>1, <2>2, <2>3, AccountsMoved, Places, NumbersTyped
<1>3. CASE Goto(p, "p_end_mutex", "p_end_spaces")
  <2>1. TypeOK'
    BY <1>1, <1>3, GotoTyped, MutexPermits, SemaphoresUnchanged, SizesAssumption
       DEF PushUnlock, TypeOK, buffer_vars, local_vars, totals, PcLabels
  <2>2. /\ Mutex!Permits' = Mutex!Permits + 1
       /\ Items!Permits' = Items!Permits
       /\ Spaces!Permits' = Spaces!Permits
    BY <1>1, <1>3, MutexPermits, SemaphoresUnchanged DEF PushUnlock, TypeOK
  <2>3. Goto(p, "p_end_mutex", "p_end_spaces") /\ UNCHANGED buffer_vars
    BY <1>3 DEF PushUnlock
  <2> QED
    BY <1>1, <2>1, <2>2, <2>3, AccountsMoved, Places, NumbersTyped
<1> QED
  BY <1>2, <1>3 DEF PushUnlock

(* rbuffer_push giving an item to the consumers keeps it (rbuffer.c:85).   *)
LEMMA PushDoneKeeps ==
  ASSUME IInv, NEW p \in Producers, PushDone(p)
  PROVE  IInv'
<1>1. p \in Threads /\ TypeOK /\ Counters
  BY DEF Threads, IInv
<1>2. TypeOK'
  BY <1>1, GotoTyped, ItemsPermits, SemaphoresUnchanged, SizesAssumption
     DEF PushDone, TypeOK, buffer_vars, local_vars, totals, PcLabels
<1>3. /\ Mutex!Permits' = Mutex!Permits
     /\ Items!Permits' = Items!Permits + 1
     /\ Spaces!Permits' = Spaces!Permits
  BY <1>1, ItemsPermits, SemaphoresUnchanged DEF PushDone, TypeOK
<1>4. Goto(p, "p_items", "p_spaces") /\ UNCHANGED buffer_vars
  BY DEF PushDone
<1> QED
  BY <1>1, <1>2, <1>3, <1>4, AccountsMoved, Places, NumbersTyped

(* rbuffer_push giving its place back keeps it (rbuffer.c:75).             *)
LEMMA PushRefusedKeeps ==
  ASSUME IInv, NEW p \in Producers, PushRefused(p)
  PROVE  IInv'
<1>1. p \in Threads /\ TypeOK /\ Counters
  BY DEF Threads, IInv
<1>2. TypeOK'
  BY <1>1, GotoTyped, SpacesPermits, SemaphoresUnchanged, SizesAssumption
     DEF PushRefused, TypeOK, buffer_vars, local_vars, totals, PcLabels
<1>3. /\ Mutex!Permits' = Mutex!Permits
     /\ Items!Permits' = Items!Permits
     /\ Spaces!Permits' = Spaces!Permits + 1
  BY <1>1, SpacesPermits, SemaphoresUnchanged DEF PushRefused, TypeOK
<1>4. Goto(p, "p_end_spaces", "p_report") /\ UNCHANGED buffer_vars
  BY DEF PushRefused
<1> QED
  BY <1>1, <1>2, <1>3, <1>4, AccountsMoved, Places, NumbersTyped

(* A producer that hands in its count keeps it (main.c:165).               *)
LEMMA update_producedKeeps ==
  ASSUME IInv, NEW p \in Producers, update_produced(p)
  PROVE  IInv'
<1>1. p \in Threads /\ TypeOK /\ Counters
  BY DEF Threads, IInv
<1>2. TypeOK'
  BY <1>1, GotoTyped, SemaphoresUnchanged, SizesAssumption
     DEF update_produced, TypeOK, buffer_vars, local_vars, totals, PcLabels
<1>3. /\ Mutex!Permits' = Mutex!Permits
     /\ Items!Permits' = Items!Permits
     /\ Spaces!Permits' = Spaces!Permits
  BY <1>1, SemaphoresUnchanged DEF update_produced, TypeOK
<1>4. Goto(p, "p_report", "done") /\ UNCHANGED buffer_vars
  BY DEF update_produced
<1> QED
  BY <1>1, <1>2, <1>3, <1>4, AccountsMoved, Places, NumbersTyped

(* rbuffer_pop taking an item permit keeps it (rbuffer.c:106).             *)
LEMMA PopItemsKeeps ==
  ASSUME IInv, NEW c \in Consumers, PopItems(c)
  PROVE  IInv'
<1>1. c \in Threads /\ TypeOK /\ Counters
  BY DEF Threads, IInv
<1>2. CASE Items!PReturn(c) /\ Goto(c, "c_items", "c_mutex")
  <2>1. TypeOK'
    BY <1>1, <1>2, GotoTyped, ItemsPermits, SemaphoresUnchanged, SizesAssumption
       DEF PopItems, TypeOK, buffer_vars, local_vars, totals, PcLabels
  <2>2. /\ Mutex!Permits' = Mutex!Permits
       /\ Items!Permits' = Items!Permits - 1
       /\ Spaces!Permits' = Spaces!Permits
    BY <1>1, <1>2, ItemsPermits, SemaphoresUnchanged DEF PopItems, TypeOK
  <2>3. Goto(c, "c_items", "c_mutex") /\ UNCHANGED buffer_vars
    BY <1>2 DEF PopItems
  <2> QED
    BY <1>1, <2>1, <2>2, <2>3, AccountsMoved, Places, NumbersTyped
<1>3. CASE Items!PBlock(c) /\ Stay(c, "c_items")
  <2>1. TypeOK'
    BY <1>1, <1>3, ItemsPermits, SemaphoresUnchanged, SizesAssumption
       DEF PopItems, TypeOK, buffer_vars, local_vars, totals, PcLabels, Stay
  <2>2. /\ Mutex!Permits' = Mutex!Permits
       /\ Items!Permits' = Items!Permits
       /\ Spaces!Permits' = Spaces!Permits
    BY <1>1, <1>3, ItemsPermits, SemaphoresUnchanged DEF PopItems, TypeOK
  <2>3. UNCHANGED <<pc, buffer_vars>>
    BY <1>3 DEF PopItems, Stay
  <2> QED
    BY <2>1, <2>2, <2>3, AccountsIdle
<1> QED
  BY <1>2, <1>3 DEF PopItems

(* rbuffer_pop taking the mutex keeps it (rbuffer.c:107).                  *)
LEMMA PopMutexKeeps ==
  ASSUME IInv, NEW c \in Consumers, PopMutex(c)
  PROVE  IInv'
<1>1. c \in Threads /\ TypeOK /\ Counters
  BY DEF Threads, IInv
<1>2. CASE Mutex!PReturn(c) /\ Goto(c, "c_mutex", "c_body")
  <2>1. TypeOK'
    BY <1>1, <1>2, GotoTyped, MutexPermits, SemaphoresUnchanged, SizesAssumption
       DEF PopMutex, TypeOK, buffer_vars, local_vars, totals, PcLabels
  <2>2. /\ Mutex!Permits' = Mutex!Permits - 1
       /\ Items!Permits' = Items!Permits
       /\ Spaces!Permits' = Spaces!Permits
    BY <1>1, <1>2, MutexPermits, SemaphoresUnchanged DEF PopMutex, TypeOK
  <2>3. Goto(c, "c_mutex", "c_body") /\ UNCHANGED buffer_vars
    BY <1>2 DEF PopMutex
  <2> QED
    BY <1>1, <2>1, <2>2, <2>3, AccountsMoved, Places, NumbersTyped
<1>3. CASE Mutex!PBlock(c) /\ Stay(c, "c_mutex")
  <2>1. TypeOK'
    BY <1>1, <1>3, MutexPermits, SemaphoresUnchanged, SizesAssumption
       DEF PopMutex, TypeOK, buffer_vars, local_vars, totals, PcLabels, Stay
  <2>2. /\ Mutex!Permits' = Mutex!Permits
       /\ Items!Permits' = Items!Permits
       /\ Spaces!Permits' = Spaces!Permits
    BY <1>1, <1>3, MutexPermits, SemaphoresUnchanged DEF PopMutex, TypeOK
  <2>3. UNCHANGED <<pc, buffer_vars>>
    BY <1>3 DEF PopMutex, Stay
  <2> QED
    BY <2>1, <2>2, <2>3, AccountsIdle
<1> QED
  BY <1>2, <1>3 DEF PopMutex

(* rbuffer_pop finding the job done keeps it (rbuffer.c:110).              *)
LEMMA JobDoneKeeps ==
  ASSUME IInv, NEW c \in Consumers, JobDone(c)
  PROVE  IInv'
<1>1. c \in Threads /\ TypeOK /\ Counters
  BY DEF Threads, IInv
<1>2. TypeOK'
  BY <1>1, GotoTyped, SemaphoresUnchanged, SizesAssumption
     DEF JobDone, TypeOK, buffer_vars, local_vars, totals, PcLabels
<1>3. /\ Mutex!Permits' = Mutex!Permits
     /\ Items!Permits' = Items!Permits
     /\ Spaces!Permits' = Spaces!Permits
  BY <1>1, SemaphoresUnchanged DEF JobDone, TypeOK
<1>4. Goto(c, "c_body", "c_end_mutex") /\ UNCHANGED buffer_vars
  BY DEF JobDone
<1> QED
  BY <1>1, <1>2, <1>3, <1>4, AccountsMoved, Places, NumbersTyped

(* The extra permit of the last pop keeps it (rbuffer.c:123).              *)
LEMMA WakeOthersKeeps ==
  ASSUME IInv, NEW c \in Consumers, WakeOthers(c)
  PROVE  IInv'
<1>1. c \in Threads /\ TypeOK /\ Counters
  BY DEF Threads, IInv
<1>2. TypeOK'
  BY <1>1, GotoTyped, ItemsPermits, SemaphoresUnchanged, SizesAssumption
     DEF WakeOthers, TypeOK, buffer_vars, local_vars, totals, PcLabels
<1>3. /\ Mutex!Permits' = Mutex!Permits
     /\ Items!Permits' = Items!Permits + 1
     /\ Spaces!Permits' = Spaces!Permits
  BY <1>1, ItemsPermits, SemaphoresUnchanged DEF WakeOthers, TypeOK
<1>4. Goto(c, "c_wake", "c_unlock") /\ UNCHANGED buffer_vars
  BY DEF WakeOthers
<1> QED
  BY <1>1, <1>2, <1>3, <1>4, AccountsMoved, Places, NumbersTyped

(* rbuffer_pop giving up the mutex keeps it (rbuffer.c:112, :127).         *)
LEMMA PopUnlockKeeps ==
  ASSUME IInv, NEW c \in Consumers, PopUnlock(c)
  PROVE  IInv'
<1>1. c \in Threads /\ TypeOK /\ Counters
  BY DEF Threads, IInv
<1>2. CASE Goto(c, "c_unlock", "c_spaces")
  <2>1. TypeOK'
    BY <1>1, <1>2, GotoTyped, MutexPermits, SemaphoresUnchanged, SizesAssumption
       DEF PopUnlock, TypeOK, buffer_vars, local_vars, totals, PcLabels
  <2>2. /\ Mutex!Permits' = Mutex!Permits + 1
       /\ Items!Permits' = Items!Permits
       /\ Spaces!Permits' = Spaces!Permits
    BY <1>1, <1>2, MutexPermits, SemaphoresUnchanged DEF PopUnlock, TypeOK
  <2>3. Goto(c, "c_unlock", "c_spaces") /\ UNCHANGED buffer_vars
    BY <1>2 DEF PopUnlock
  <2> QED
    BY <1>1, <2>1, <2>2, <2>3, AccountsMoved, Places, NumbersTyped
<1>3. CASE Goto(c, "c_end_mutex", "c_end_items")
  <2>1. TypeOK'
    BY <1>1, <1>3, GotoTyped, MutexPermits, SemaphoresUnchanged, SizesAssumption
       DEF PopUnlock, TypeOK, buffer_vars, local_vars, totals, PcLabels
  <2>2. /\ Mutex!Permits' = Mutex!Permits + 1
       /\ Items!Permits' = Items!Permits
       /\ Spaces!Permits' = Spaces!Permits
    BY <1>1, <1>3, MutexPermits, SemaphoresUnchanged DEF PopUnlock, TypeOK
  <2>3. Goto(c, "c_end_mutex", "c_end_items") /\ UNCHANGED buffer_vars
    BY <1>3 DEF PopUnlock
  <2> QED
    BY <1>1, <2>1, <2>2, <2>3, AccountsMoved, Places, NumbersTyped
<1> QED
  BY <1>2, <1>3 DEF PopUnlock

(* rbuffer_pop giving its place to the producers keeps it (rbuffer.c:128). *)
LEMMA PopDoneKeeps ==
  ASSUME IInv, NEW c \in Consumers, PopDone(c)
  PROVE  IInv'
<1>1. c \in Threads /\ TypeOK /\ Counters
  BY DEF Threads, IInv
<1>2. TypeOK'
  BY <1>1, GotoTyped, SpacesPermits, SemaphoresUnchanged, SizesAssumption
     DEF PopDone, TypeOK, buffer_vars, local_vars, totals, PcLabels
<1>3. /\ Mutex!Permits' = Mutex!Permits
     /\ Items!Permits' = Items!Permits
     /\ Spaces!Permits' = Spaces!Permits + 1
  BY <1>1, SpacesPermits, SemaphoresUnchanged DEF PopDone, TypeOK
<1>4. Goto(c, "c_spaces", "c_items") /\ UNCHANGED buffer_vars
  BY DEF PopDone
<1> QED
  BY <1>1, <1>2, <1>3, <1>4, AccountsMoved, Places, NumbersTyped

(* rbuffer_pop handing the extra permit on keeps it (rbuffer.c:113).       *)
LEMMA PassOnKeeps ==
  ASSUME IInv, NEW c \in Consumers, PassOn(c)
  PROVE  IInv'
<1>1. c \in Threads /\ TypeOK /\ Counters
  BY DEF Threads, IInv
<1>2. TypeOK'
  BY <1>1, GotoTyped, ItemsPermits, SemaphoresUnchanged, SizesAssumption
     DEF PassOn, TypeOK, buffer_vars, local_vars, totals, PcLabels
<1>3. /\ Mutex!Permits' = Mutex!Permits
     /\ Items!Permits' = Items!Permits + 1
     /\ Spaces!Permits' = Spaces!Permits
  BY <1>1, ItemsPermits, SemaphoresUnchanged DEF PassOn, TypeOK
<1>4. Goto(c, "c_end_items", "c_report") /\ UNCHANGED buffer_vars
  BY DEF PassOn
<1> QED
  BY <1>1, <1>2, <1>3, <1>4, AccountsMoved, Places, NumbersTyped

(* A consumer that hands in its count keeps it (main.c:187).               *)
LEMMA update_consumedKeeps ==
  ASSUME IInv, NEW c \in Consumers, update_consumed(c)
  PROVE  IInv'
<1>1. c \in Threads /\ TypeOK /\ Counters
  BY DEF Threads, IInv
<1>2. TypeOK'
  BY <1>1, GotoTyped, SemaphoresUnchanged, SizesAssumption
     DEF update_consumed, TypeOK, buffer_vars, local_vars, totals, PcLabels
<1>3. /\ Mutex!Permits' = Mutex!Permits
     /\ Items!Permits' = Items!Permits
     /\ Spaces!Permits' = Spaces!Permits
  BY <1>1, SemaphoresUnchanged DEF update_consumed, TypeOK
<1>4. Goto(c, "c_report", "done") /\ UNCHANGED buffer_vars
  BY DEF update_consumed
<1> QED
  BY <1>1, <1>2, <1>3, <1>4, AccountsMoved, Places, NumbersTyped

(* rbuffer_push writing its item keeps it: the place in its hands is a     *)
(* free slot (rbuffer.c:79-81).                                            *)
LEMMA PushItemKeeps ==
  ASSUME IInv, NEW p \in Producers, PushItem(p)
  PROVE  IInv'
<1>1. p \in Threads /\ TypeOK /\ Counters
  BY DEF Threads, IInv
<1>2. /\ Goto(p, "p_body", "p_unlock")
      /\ head' = head + 1 /\ tail' = tail
      /\ num_rest_to_produce' = num_rest_to_produce - 1
      /\ num_rest_to_produce >= 1
      /\ num_rest_to_consume' = num_rest_to_consume
  BY <1>1 DEF PushItem, TypeOK
<1>3. TypeOK'
  <2>1. array' \in [0 .. Length - 1 -> Products \cup {NoItem}]
    <3>1. <<p, i[p]>> \in Products
      BY <1>1 DEF TypeOK, Products
    <3> QED
      BY <1>1, <3>1 DEF PushItem, TypeOK
  <2>2. pc' \in [Threads -> PcLabels]
    BY <1>1, <1>2, GotoTyped, Places
  <2>3. head' \in Nat /\ num_rest_to_produce' \in 0 .. NumAll
    BY <1>1, <1>2, SizesAssumption DEF TypeOK
  <2> QED
    BY <1>1, <2>1, <2>2, <2>3, SemaphoresUnchanged
       DEF PushItem, TypeOK, local_vars, totals
<1>4. Counters' /\ Extra' = Extra
  BY <1>1, <1>2, SizesAssumption DEF Counters, TypeOK, Extra
<1>5. /\ Mutex!Permits' = Mutex!Permits
      /\ Items!Permits' = Items!Permits
      /\ Spaces!Permits' = Spaces!Permits
  BY SemaphoresUnchanged DEF PushItem
<1> QED
  BY <1>1, <1>2, <1>3, <1>4, <1>5, AccountsKept, Places, NumbersTyped

(* A consumer that passed the test of rbuffer.c:110 finds an item: its     *)
(* permit stands for one, or for the extra permit, which is made only      *)
(* when everything was produced and popped.                                *)
LEMMA ItemToPop ==
  ASSUME IInv, NEW c \in Consumers, pc[c] = "c_body",
         ~(num_rest_to_produce <= 0 /\ rbuffer_empty)
  PROVE  tail < head /\ num_rest_to_consume > 0
<1>1. c \in Threads /\ TypeOK /\ Counters
  BY DEF Threads, IInv
<1>2. Count(WithItem) >= 1
  BY <1>1, AtLeastOne DEF WithItem
<1>3. Items!Permits + Count(WithItem) = (head - tail) + Extra
  BY DEF IInv, ItemsAccounted, Count
<1>4. Items!Permits \in Nat /\ Count(WithItem) \in Nat
  BY <1>1, CountType, NumbersTyped
<1>5. CASE num_rest_to_consume = 0
  BY <1>1, <1>5, SizesAssumption DEF Counters, TypeOK, rbuffer_empty
<1>6. CASE num_rest_to_consume # 0
  BY <1>1, <1>2, <1>3, <1>4, <1>6, SizesAssumption DEF TypeOK, Extra
<1> QED
  BY <1>5, <1>6

(* The index of a slot is an index of the array.                           *)
LEMMA SlotInRange ==
  ASSUME NEW n \in Nat
  PROVE  n % Length \in 0 .. Length - 1
BY SizesAssumption

(* rbuffer_pop reading an item keeps it: the permit in its hands is an     *)
(* item, since the job is not done (rbuffer.c:117-121).                    *)
LEMMA PopItemKeeps ==
  ASSUME IInv, NEW c \in Consumers, PopItem(c)
  PROVE  IInv'
<1>1. c \in Threads /\ TypeOK /\ Counters
  BY DEF Threads, IInv
<1>2. /\ pc[c] = "c_body"
      /\ head' = head /\ tail' = tail + 1
      /\ num_rest_to_produce' = num_rest_to_produce
      /\ num_rest_to_consume' = num_rest_to_consume - 1
  BY DEF PopItem, Goto
<1>3. tail < head /\ num_rest_to_consume > 0
  BY <1>2, ItemToPop DEF PopItem
<1>4. \/ /\ Goto(c, "c_body", "c_wake")
         /\ num_rest_to_consume - 1 <= 0
      \/ /\ Goto(c, "c_body", "c_unlock")
         /\ ~(num_rest_to_consume - 1 <= 0)
  BY DEF PopItem
<1>5. TypeOK'
  <2>1. array[tail % Length] \in Products \cup {NoItem}
    BY <1>1, SlotInRange DEF TypeOK
  <2>2. item' \in [Consumers -> Products \cup {NoItem}]
    BY <1>1, <2>1 DEF PopItem, TypeOK
  <2>3. pc' \in [Threads -> PcLabels]
    BY <1>1, <1>4, GotoTyped, Places
  <2>4. tail' \in Nat /\ num_rest_to_consume' \in 0 .. NumAll
    BY <1>1, <1>2, <1>3, SizesAssumption DEF TypeOK
  <2> QED
    BY <1>1, <2>2, <2>3, <2>4, SemaphoresUnchanged
       DEF PopItem, TypeOK, local_vars, totals
<1>6. Counters'
  BY <1>1, <1>2, <1>3, SizesAssumption DEF Counters, TypeOK
<1>7. /\ Mutex!Permits' = Mutex!Permits
      /\ Items!Permits' = Items!Permits
      /\ Spaces!Permits' = Spaces!Permits
  BY SemaphoresUnchanged DEF PopItem
<1>8. CASE Goto(c, "c_body", "c_wake") /\ num_rest_to_consume - 1 <= 0
  <2>1. Extra = 0 /\ Extra' = 1
    BY <1>1, <1>2, <1>3, <1>8 DEF Extra, TypeOK
  <2> QED
    BY <1>1, <1>2, <1>5, <1>6, <1>7, <1>8, <2>1, AccountsKept, Places,
       NumbersTyped
<1>9. CASE Goto(c, "c_body", "c_unlock") /\ ~(num_rest_to_consume - 1 <= 0)
  <2>1. Extra = 0 /\ Extra' = 0
    BY <1>1, <1>2, <1>3, <1>9, SizesAssumption DEF Extra, TypeOK
  <2> QED
    BY <1>1, <1>2, <1>5, <1>6, <1>7, <1>9, <2>1, AccountsKept, Places,
       NumbersTyped
<1> QED
  BY <1>4, <1>8, <1>9

(* A wake-up without a signal keeps it (sem.c:42-44).                      *)
LEMMA SpuriousWakeupKeeps ==
  ASSUME IInv, SpuriousWakeup
  PROVE  IInv'
<1>1. TypeOK
  BY DEF IInv
<1>2. PICK t \in Threads :
        \/ Mutex!SpuriousWakeup(t) /\ UNCHANGED <<items, spaces>>
        \/ Items!SpuriousWakeup(t) /\ UNCHANGED <<mutex, spaces>>
        \/ Spaces!SpuriousWakeup(t) /\ UNCHANGED <<mutex, items>>
  BY DEF SpuriousWakeup
<1>3. /\ Mutex!WellFormed' /\ Mutex!Permits' = Mutex!Permits
      /\ Items!WellFormed' /\ Items!Permits' = Items!Permits
      /\ Spaces!WellFormed' /\ Spaces!Permits' = Spaces!Permits
  BY <1>1, <1>2, MutexPermits, ItemsPermits, SpacesPermits,
     SemaphoresUnchanged DEF TypeOK
<1>4. UNCHANGED <<buffer_vars, pc, local_vars, totals>>
  BY DEF SpuriousWakeup
<1>5. TypeOK'
  BY <1>1, <1>3, <1>4 DEF TypeOK, buffer_vars, local_vars, totals
<1> QED
  BY <1>3, <1>4, <1>5, AccountsIdle

(* Every step keeps the invariant.                                         *)
LEMMA StepIInv == IInv /\ [Next]_vars => IInv'
<1> SUFFICES ASSUME IInv, [Next]_vars PROVE IInv'
  OBVIOUS
<1>1. CASE UNCHANGED vars
  <2>1. UNCHANGED <<buffer_vars, mutex, items, spaces, pc, local_vars, totals>>
    BY <1>1 DEF vars
  <2>2. TypeOK'
    BY <2>1, SemaphoresUnchanged
       DEF IInv, TypeOK, buffer_vars, local_vars, totals
  <2> QED
    BY <2>1, <2>2, AccountsIdle, SemaphoresUnchanged
<1>2. ASSUME NEW p \in Producers, Produce(p) PROVE IInv'
  BY <1>2, PushSpacesKeeps, PushMutexKeeps, NothingToDoKeeps, PushItemKeeps,
     PushUnlockKeeps, PushDoneKeeps, PushRefusedKeeps, update_producedKeeps
     DEF Produce
<1>3. ASSUME NEW c \in Consumers, Consume(c) PROVE IInv'
  BY <1>3, PopItemsKeeps, PopMutexKeeps, JobDoneKeeps, PopItemKeeps,
     WakeOthersKeeps, PopUnlockKeeps, PopDoneKeeps, PassOnKeeps,
     update_consumedKeeps
     DEF Consume
<1>4. CASE SpuriousWakeup
  BY <1>4, SpuriousWakeupKeeps
<1>5. CASE Joined
  BY <1>1, <1>5 DEF Joined
<1> QED
  BY <1>1, <1>2, <1>3, <1>4, <1>5 DEF Next

-----------------------------------------------------------------------------
(* The inductive invariant holds throughout, for any number of producers,  *)
(* consumers, items and slots (rbuffer.c, sem.c).                          *)
THEOREM Invariance == Spec => []IInv
BY InitIInv, StepIInv, PTL DEF Spec

(* Every variable keeps its type, for any number of threads and any size:  *)
(* the counters of the buffer never leave 0 .. NumAll.                     *)
THEOREM TypeCorrect == Spec => []TypeOK
<1>1. IInv => TypeOK
  BY DEF IInv
<1> QED
  BY <1>1, Invariance, PTL

(* At most one thread is between P and V of the mutex.                     *)
THEOREM Exclusive == Spec => []MutualExclusion
<1>1. ASSUME IInv, NEW t \in Threads, NEW u \in Threads,
             pc[t] \in Holding, pc[u] \in Holding, t # u
      PROVE  FALSE
  <2>1. IsFiniteSet(At(Holding)) /\ {t, u} \subseteq At(Holding)
    BY <1>1, ThreadsFinite, FS_Subset DEF At
  <2>2. Cardinality({t, u}) <= Cardinality(At(Holding))
    BY <2>1, FS_Subset
  <2>3. Cardinality({t, u}) = 2
    <3>1. IsFiniteSet({t}) /\ Cardinality({t}) = 1
      BY FS_Singleton
    <3>2. {t, u} = {t} \cup {u} /\ u \notin {t}
      BY <1>1
    <3> QED
      BY <3>1, <3>2, FS_AddElement
  <2>4. Mutex!Permits + Count(Holding) = 1 /\ Mutex!Permits \in Nat
    BY <1>1, NumbersTyped DEF IInv, OneHolder
  <2> QED
    BY <2>2, <2>3, <2>4, CountType DEF Count
<1>2. IInv => MutualExclusion
  BY <1>1 DEF MutualExclusion
<1> QED
  BY <1>2, Invariance, PTL

(* Free permits, permits in hand and used slots make up the buffer.        *)
THEOREM SpacesBalance == Spec => []SpacesAccounted
<1>1. IInv => SpacesAccounted
  BY DEF IInv
<1> QED
  BY <1>1, Invariance, PTL

(* Permits of items stand for items, but for the one extra at the end.     *)
THEOREM ItemsBalance == Spec => []ItemsAccounted
<1>1. IInv => ItemsAccounted
  BY DEF IInv
<1> QED
  BY <1>1, Invariance, PTL

-----------------------------------------------------------------------------
(* The mapping to BoundedFifo: the items between tail and head, which are  *)
(* sent when head has moved, though the producer counts them later.        *)
Entries == Products \cup {NoItem}
Queue == Segment(array, tail, head - tail, Length)

(* The counts and the queue, as the mapping has them.                      *)
Mapped == <<[p \in Producers |-> Sent(p)], Queue, item>>

LEMMA QueueIsBuffered == Buffered = Queue /\ Buffered' = Queue'
BY DEF Buffered, Queue, Segment, Place

(* rbuffer_push puts an item in: the permit in the producer's hands is a   *)
(* free slot, so the queue is not full and nothing in it is written over.  *)
LEMMA PushItemIsPut ==
  ASSUME IInv, NEW p \in Producers, PushItem(p)
  PROVE  Fifo!Put(p)
<1> DEFINE n == head - tail
           e == <<p, i[p]>>
<1>1. p \in Threads /\ TypeOK /\ Counters
  BY DEF Threads, IInv
<1>2. /\ Length \in Nat \ {0} /\ array \in Rings(Length, Entries)
      /\ head \in Nat /\ tail \in Nat /\ tail \in Int /\ n \in Nat
      /\ e \in Entries
  BY <1>1, SizesAssumption
     DEF TypeOK, Counters, Rings, Entries, Products
<1>3. n < Length
  <2>1. Count(WithSpace) >= 1 /\ Count(WithSpace) \in Nat
    BY <1>1, AtLeastOne, CountType DEF PushItem, Goto, WithSpace
  <2>2. Spaces!Permits + Count(WithSpace) + (head - tail) = Length
    BY DEF IInv, SpacesAccounted, Count
  <2>3. Spaces!Permits \in Nat
    BY <1>1, NumbersTyped
  <2> QED
    BY <1>2, <2>1, <2>2, <2>3
<1>4. tail + n = head /\ (head + 1) - tail = n + 1
  BY <1>2
<1>5. /\ array' = [array EXCEPT ![Place(tail + n, Length)] = e]
      /\ head' = head + 1 /\ tail' = tail /\ item' = item /\ i' = i
      /\ pc[p] = "p_body" /\ pc' = [pc EXCEPT ![p] = "p_unlock"]
  BY <1>4 DEF PushItem, Place, Goto, local_vars
<1>6. /\ array' \in Rings(Length, Entries)
      /\ array'[Place(tail + n, Length)] = e
      /\ \A m \in (0 .. Length - 1) \ {Place(tail + n, Length)} :
           array'[m] = array[m]
  <2>1. Place(tail + n, Length) \in 0 .. Length - 1
    BY <1>2, PlaceBounds
  <2> HIDE DEF n, e
  <2> QED
    BY <1>2, <1>5, <2>1 DEF Rings
<1>7. Queue' = Segment(array', tail, n + 1, Length)
  BY <1>4, <1>5 DEF Queue, Segment, Place
<1>8. Queue' = Append(Queue, e) /\ Len(Queue) < Length
  <2> HIDE DEF n, e
  <2>1. Segment(array', tail, n + 1, Length)
          = Append(Segment(array, tail, n, Length), e)
    <3>1. Length \in Nat \ {0} /\ tail \in Int /\ n \in Nat /\ n < Length
      BY <1>2, <1>3
    <3>2. Segment(array', tail, n + 1, Length)
            = Append(Segment(array, tail, n, Length),
                     array'[Place(tail + n, Length)])
      <4>1. /\ array \in Rings(Length, Entries)
            /\ array' \in Rings(Length, Entries)
        BY <1>2, <1>6
      <4>2. \A m \in (0 .. Length - 1) \ {Place(tail + n, Length)} :
              array'[m] = array[m]
        BY <1>6
      <4> QED
        BY <3>1, <4>1, <4>2, SegmentPushed
    <3> QED
      BY <1>6, <3>2
  <2>2. Len(Segment(array, tail, n, Length)) = n
    BY <1>2, SegmentIsSeq
  <2> QED
    BY <1>3, <1>7, <2>1, <2>2 DEF Queue, n
<1>9. Sent(p) = i[p] /\ Sent(p)' = i[p] + 1
  BY <1>1, <1>5 DEF Sent, TypeOK
<1>10. \A q \in Producers : q # p => Sent(q)' = Sent(q)
  BY <1>1, <1>5 DEF Sent, TypeOK, Threads
<1>11. [q \in Producers |-> Sent(q)]'
        = [[q \in Producers |-> Sent(q)] EXCEPT ![p] = @ + 1]
  BY <1>9, <1>10
<1> QED
  BY <1>5, <1>8, <1>9, <1>11, QueueIsBuffered DEF Fifo!Put

(* rbuffer_pop takes the oldest item.                                      *)
LEMMA PopItemIsGet ==
  ASSUME IInv, NEW c \in Consumers, PopItem(c)
  PROVE  Fifo!Get(c)
<1> DEFINE n == head - tail
<1>1. c \in Threads /\ TypeOK /\ Counters
  BY DEF Threads, IInv
<1>2. /\ Length \in Nat \ {0} /\ array \in Rings(Length, Entries)
      /\ head \in Nat /\ tail \in Int /\ tail \in Nat
  BY <1>1, SizesAssumption DEF TypeOK, Rings, Entries
<1>3. n \in Nat /\ n > 0
  <2>1. tail < head
    BY ItemToPop DEF PopItem, Goto
  <2> QED
    BY <1>2, <2>1
<1>4. /\ item' = [item EXCEPT ![c] = array[Place(tail, Length)]]
      /\ tail' = tail + 1 /\ head' = head /\ array' = array /\ i' = i
  BY DEF PopItem, Place
<1>5. head - (tail + 1) = n - 1
  BY <1>2
<1>6. Queue' = Segment(array, tail + 1, n - 1, Length)
  BY <1>4, <1>5 DEF Queue, Segment, Place
<1>7. /\ Queue # <<>> /\ Head(Queue) = array[Place(tail, Length)]
      /\ Tail(Queue) = Queue'
  <2> HIDE DEF n
  <2>1. /\ Segment(array, tail, n, Length) # <<>>
        /\ Head(Segment(array, tail, n, Length)) = array[Place(tail, Length)]
        /\ Tail(Segment(array, tail, n, Length))
             = Segment(array, tail + 1, n - 1, Length)
    BY <1>2, <1>3, SegmentTaken
  <2> QED
    BY <1>6, <2>1 DEF Queue, n
<1>8. \A p \in Producers : Sent(p)' = Sent(p)
  <2>1. \A p \in Producers : p # c
    BY ThreadsAssumption
  <2>2. \A p \in Producers : pc'[p] = pc[p]
    BY <1>1, <2>1 DEF PopItem, Goto, TypeOK, Threads
  <2> QED
    BY <1>4, <2>2 DEF Sent
<1>9. [p \in Producers |-> Sent(p)]' = [p \in Producers |-> Sent(p)]
  BY <1>8
<1> QED
  BY <1>4, <1>7, <1>9, QueueIsBuffered DEF Fifo!Get

(* A step that moves one thread, neither to nor from the labels at which a *)
(* producer has sent more than it has counted.                             *)
LEMMA MoveStutters ==
  ASSUME TypeOK, NEW t \in Threads, NEW a, NEW b, Goto(t, a, b),
         UNCHANGED <<buffer_vars, local_vars>>,
         \/ t \in Consumers
         \/ a \in {"p_unlock", "p_items"} <=> b \in {"p_unlock", "p_items"}
  PROVE  UNCHANGED Mapped
<1>1. /\ array' = array /\ head' = head /\ tail' = tail
      /\ item' = item /\ i' = i
  BY DEF buffer_vars, local_vars
<1>2. Queue' = Queue
  BY <1>1 DEF Queue, Segment, Place
<1>3. pc[t] = a /\ pc'[t] = b /\ \A u \in Threads \ {t} : pc'[u] = pc[u]
  BY DEF TypeOK, Goto
<1>4. ASSUME NEW p \in Producers PROVE Sent(p)' = Sent(p)
  <2>1. CASE p = t
    <3>1. t \notin Consumers
      BY <2>1, ThreadsAssumption
    <3> QED
      BY <1>1, <1>3, <2>1, <3>1 DEF Sent
  <2>2. CASE p # t
    BY <1>1, <1>3, <2>2 DEF Sent, Threads
  <2> QED
    BY <2>1, <2>2
<1>5. [p \in Producers |-> Sent(p)]' = [p \in Producers |-> Sent(p)]
  BY <1>4
<1> QED
  BY <1>1, <1>2, <1>5 DEF Mapped

(* A step that moves no thread.                                            *)
LEMMA IdleStutters ==
  ASSUME UNCHANGED <<pc, buffer_vars, local_vars>>
  PROVE  UNCHANGED Mapped
BY DEF Mapped, Queue, Segment, Place, Sent, buffer_vars, local_vars

(* The push returns: the producer's count catches up with what it sent.    *)
LEMMA PushDoneStutters ==
  ASSUME TypeOK, NEW p \in Producers, PushDone(p)
  PROVE  UNCHANGED Mapped
<1>1. /\ array' = array /\ head' = head /\ tail' = tail /\ item' = item
      /\ i' = [i EXCEPT ![p] = @ + 1] /\ p \in Threads
      /\ pc[p] = "p_items" /\ pc' = [pc EXCEPT ![p] = "p_spaces"]
  BY DEF PushDone, Goto, buffer_vars, Threads
<1>2. Queue' = Queue
  BY <1>1 DEF Queue, Segment, Place
<1>3. \A q \in Producers : Sent(q)' = Sent(q)
  BY <1>1 DEF Sent, TypeOK, Threads
<1>4. [q \in Producers |-> Sent(q)]' = [q \in Producers |-> Sent(q)]
  BY <1>3
<1> QED
  BY <1>1, <1>2, <1>4 DEF Mapped

(* A consumer counts its item, which changes no producer's count.          *)
LEMMA PopDoneStutters ==
  ASSUME TypeOK, NEW c \in Consumers, PopDone(c)
  PROVE  UNCHANGED Mapped
<1>1. /\ array' = array /\ head' = head /\ tail' = tail /\ item' = item
      /\ i' = [i EXCEPT ![c] = @ + 1] /\ c \in Threads
      /\ pc' = [pc EXCEPT ![c] = "c_items"]
  BY DEF PopDone, Goto, buffer_vars, Threads
<1>2. Queue' = Queue
  BY <1>1 DEF Queue, Segment, Place
<1>3. \A p \in Producers : p # c
  BY ThreadsAssumption
<1>4. \A p \in Producers : Sent(p)' = Sent(p)
  BY <1>1, <1>3 DEF Sent, TypeOK, Threads
<1>5. [p \in Producers |-> Sent(p)]' = [p \in Producers |-> Sent(p)]
  BY <1>4
<1> QED
  BY <1>1, <1>2, <1>5 DEF Mapped

(* What the other steps of rbuffer_push and of its producer leave alone.   *)
LEMMA ProduceStutters ==
  ASSUME TypeOK, NEW p \in Producers,
         \/ PushSpaces(p) \/ PushMutex(p) \/ NothingToDo(p) \/ PushUnlock(p)
         \/ PushRefused(p) \/ update_produced(p)
  PROVE  UNCHANGED Mapped
<1>1. p \in Threads /\ UNCHANGED <<buffer_vars, local_vars>>
  BY DEF Threads, PushSpaces, PushMutex, NothingToDo, PushUnlock, PushRefused,
         update_produced
<1>2. \/ UNCHANGED pc
      \/ \E a \in {"p_unlock", "p_items"}, b \in {"p_unlock", "p_items"} :
           Goto(p, a, b)
      \/ \E a \in PcLabels \ {"p_unlock", "p_items"},
            b \in PcLabels \ {"p_unlock", "p_items"} : Goto(p, a, b)
  <2>1. CASE PushUnlock(p)
    BY <2>1 DEF PushUnlock, PcLabels
  <2>2. CASE PushSpaces(p) \/ PushMutex(p)
    BY <2>2 DEF PushSpaces, PushMutex, Stay, PcLabels
  <2>3. CASE NothingToDo(p) \/ PushRefused(p) \/ update_produced(p)
    BY <2>3 DEF NothingToDo, PushRefused, update_produced, PcLabels
  <2> QED
    BY <2>1, <2>2, <2>3
<1> QED
  BY <1>1, <1>2, MoveStutters, IdleStutters

(* The same for rbuffer_pop and its consumer.                              *)
LEMMA ConsumeStutters ==
  ASSUME TypeOK, NEW c \in Consumers,
         \/ PopItems(c) \/ PopMutex(c) \/ JobDone(c) \/ WakeOthers(c)
         \/ PopUnlock(c) \/ PassOn(c) \/ update_consumed(c)
  PROVE  UNCHANGED Mapped
<1>1. c \in Threads /\ UNCHANGED <<buffer_vars, local_vars>>
  BY DEF Threads, PopItems, PopMutex, JobDone, WakeOthers, PopUnlock, PassOn,
         update_consumed
<1>2. UNCHANGED pc \/ \E a, b : Goto(c, a, b)
  BY DEF PopItems, PopMutex, JobDone, WakeOthers, PopUnlock, PassOn,
         update_consumed, Stay
<1> QED
  BY <1>1, <1>2, MoveStutters, IdleStutters

(* The ring buffer implements a bounded queue, for any number of           *)
(* producers, consumers, items and slots: no interleaving of pushes and    *)
(* pops loses, doubles or reorders an item (rbuffer.c).                    *)
THEOREM RingIsFifo == Spec => ImplementsFifo
<1>1. Init => Fifo!Init
  <2> SUFFICES ASSUME Init PROVE Fifo!Init
    OBVIOUS
  <2>1. Queue = <<>>
    BY DEF Init, make_rbuffer, Queue, Segment
  <2>2. \A p \in Producers : Sent(p) = 0
    BY DEF Init, Sent, Threads
  <2> QED
    BY <2>1, <2>2, QueueIsBuffered DEF Init, Fifo!Init
<1>2. IInv /\ [Next]_vars => [Fifo!Next]_(Fifo!vars)
  <2> SUFFICES ASSUME IInv, [Next]_vars
               PROVE  Fifo!Next \/ UNCHANGED Fifo!vars
    OBVIOUS
  <2>1. TypeOK
    BY DEF IInv
  <2>2. UNCHANGED Mapped => UNCHANGED Fifo!vars
    BY QueueIsBuffered DEF Mapped, Fifo!vars
  <2>3. ASSUME NEW p \in Producers, Produce(p)
        PROVE  Fifo!Next \/ UNCHANGED Mapped
    BY <2>1, <2>3, PushItemIsPut, PushDoneStutters, ProduceStutters
       DEF Produce, Fifo!Next
  <2>4. ASSUME NEW c \in Consumers, Consume(c)
        PROVE  Fifo!Next \/ UNCHANGED Mapped
    BY <2>1, <2>4, PopItemIsGet, PopDoneStutters, ConsumeStutters
       DEF Consume, Fifo!Next
  <2>5. CASE SpuriousWakeup \/ Joined \/ UNCHANGED vars
    <3>1. UNCHANGED <<pc, buffer_vars, local_vars>>
      BY <2>5 DEF SpuriousWakeup, Joined, vars
    <3> QED
      BY <2>2, <3>1, IdleStutters
  <2> QED
    BY <2>2, <2>3, <2>4, <2>5 DEF Next
<1> QED
  BY <1>1, <1>2, Invariance, PTL DEF Spec, ImplementsFifo, Fifo!Spec
=============================================================================
