--------------------------- MODULE SemaphoreProofs ---------------------------
(***************************************************************************)
(* What holds of the semaphore of sem.c for any finite set of threads and  *)
(* any initial value.  First come the steps of module Semaphore field by   *)
(* field, and what they do to the permits: the form in which the proofs    *)
(* about its users need them (MPMCProofs instantiates this module for each *)
(* of its semaphores).                                                     *)
(***************************************************************************)
EXTENDS SemaphoreClient, FiniteSetTheorems, TLAPS

(* semaphore_P returning at once (sem.c:38-39, :47).                       *)
LEMMA PTakeEffect ==
  ASSUME WellFormed, NEW t \in Threads, PTake(t)
  PROVE  /\ sem.value > 0
         /\ sem'.value = sem.value - 1
         /\ sem'.wakeups = sem.wakeups
         /\ sem'.asleep = sem.asleep
         /\ sem'.awake = sem.awake
         /\ WellFormed'
<1>1. sem' = [value |-> sem.value - 1, wakeups |-> sem.wakeups,
              asleep |-> sem.asleep, awake |-> sem.awake]
  BY DEF WellFormed, PTake, Semaphores
<1> QED
  BY <1>1 DEF WellFormed, PTake, Semaphores

(* semaphore_P going to sleep (sem.c:41-43).                               *)
LEMMA PWaitEffect ==
  ASSUME WellFormed, NEW t \in Threads, PWait(t)
  PROVE  /\ t \notin Blocked
         /\ sem.value <= 0
         /\ sem'.value = sem.value - 1
         /\ sem'.wakeups = sem.wakeups
         /\ sem'.asleep = sem.asleep \cup {t}
         /\ sem'.awake = sem.awake
         /\ WellFormed'
<1>1. sem' = [value |-> sem.value - 1, wakeups |-> sem.wakeups,
              asleep |-> sem.asleep \cup {t}, awake |-> sem.awake]
  BY DEF WellFormed, PWait, Semaphores
<1>2. sem.value \in Int /\ sem.wakeups \in Nat
  BY DEF WellFormed, Semaphores
<1> QED
  BY <1>1, <1>2 DEF WellFormed, PWait, Semaphores, Blocked

(* semaphore_P returning on a wakeup (sem.c:44-47).                        *)
LEMMA PWakeEffect ==
  ASSUME WellFormed, NEW t \in Threads, PWake(t)
  PROVE  /\ t \in sem.awake
         /\ sem.wakeups >= 1
         /\ sem'.value = sem.value
         /\ sem'.wakeups = sem.wakeups - 1
         /\ sem'.asleep = sem.asleep
         /\ sem'.awake = sem.awake \ {t}
         /\ WellFormed'
<1>1. sem' = [value |-> sem.value, wakeups |-> sem.wakeups - 1,
              asleep |-> sem.asleep, awake |-> sem.awake \ {t}]
  BY DEF WellFormed, PWake, Semaphores
<1>2. sem.wakeups - 1 \in Nat
  BY DEF WellFormed, PWake, Semaphores
<1> QED
  BY <1>1, <1>2 DEF WellFormed, PWake, Semaphores

(* semaphore_P going back to sleep (sem.c:44).                             *)
LEMMA PAgainEffect ==
  ASSUME WellFormed, NEW t \in Threads, PAgain(t)
  PROVE  /\ t \in sem.awake
         /\ sem.wakeups = 0
         /\ sem'.value = sem.value
         /\ sem'.wakeups = sem.wakeups
         /\ sem'.asleep = sem.asleep \cup {t}
         /\ sem'.awake = sem.awake \ {t}
         /\ WellFormed'
<1>1. sem' = [value |-> sem.value, wakeups |-> sem.wakeups,
              asleep |-> sem.asleep \cup {t}, awake |-> sem.awake \ {t}]
  BY DEF WellFormed, PAgain, Semaphores
<1> QED
  BY <1>1 DEF WellFormed, PAgain, Semaphores

(* cv_wait returning without a signal (sem.c:43).                          *)
LEMMA SpuriousEffect ==
  ASSUME WellFormed, NEW t \in Threads, SpuriousWakeup(t)
  PROVE  /\ t \in sem.asleep
         /\ sem'.value = sem.value
         /\ sem'.wakeups = sem.wakeups
         /\ sem'.asleep = sem.asleep \ {t}
         /\ sem'.awake = sem.awake \cup {t}
         /\ WellFormed'
<1>1. sem' = [value |-> sem.value, wakeups |-> sem.wakeups,
              asleep |-> sem.asleep \ {t}, awake |-> sem.awake \cup {t}]
  BY DEF WellFormed, SpuriousWakeup, Semaphores
<1> QED
  BY <1>1 DEF WellFormed, SpuriousWakeup, Semaphores

(* The three outcomes of semaphore_V: nobody is owed a wakeup; one is and  *)
(* somebody sleeps; one is and nobody sleeps (the signal is lost).         *)
LEMMA VEffect ==
  ASSUME WellFormed, NEW t \in Threads, semaphore_V(t)
  PROVE  /\ sem'.value = sem.value + 1
         /\ WellFormed'
         /\ \/ /\ sem.value >= 0
               /\ sem'.wakeups = sem.wakeups
               /\ sem'.asleep = sem.asleep
               /\ sem'.awake = sem.awake
            \/ /\ sem.value < 0
               /\ sem'.wakeups = sem.wakeups + 1
               /\ \E u \in sem.asleep :
                     /\ sem'.asleep = sem.asleep \ {u}
                     /\ sem'.awake = sem.awake \cup {u}
            \/ /\ sem.value < 0
               /\ sem'.wakeups = sem.wakeups + 1
               /\ sem.asleep = {}
               /\ sem'.asleep = {}
               /\ sem'.awake = sem.awake
<1> DEFINE s == [sem EXCEPT !.value = @ + 1]
           w == [s EXCEPT !.wakeups = @ + 1]
<1>1. s = [value |-> sem.value + 1, wakeups |-> sem.wakeups,
           asleep |-> sem.asleep, awake |-> sem.awake]
  BY DEF WellFormed, Semaphores
<1>2. w = [value |-> sem.value + 1, wakeups |-> sem.wakeups + 1,
           asleep |-> sem.asleep, awake |-> sem.awake]
  <2> HIDE DEF s
  <2> QED
    BY <1>1
<1>3. sem.value \in Int /\ sem.wakeups \in Nat
      /\ sem.asleep \subseteq Threads /\ sem.awake \subseteq Threads
      /\ sem.asleep \cap sem.awake = {}
  BY DEF WellFormed, Semaphores
<1>4. CASE s.value <= 0
  <2>1. sem' \in Signalled(w)
    BY <1>4 DEF semaphore_V
  <2>2. CASE sem.asleep = {}
    <3>1. sem' = w
      BY <1>2, <2>1, <2>2 DEF Signalled
    <3> QED
      BY <1>1, <1>2, <1>3, <1>4, <2>2, <3>1 DEF WellFormed, Semaphores
  <2>3. CASE sem.asleep # {}
    <3>1. PICK u \in w.asleep :
             sem' = [w EXCEPT !.asleep = @ \ {u}, !.awake = @ \cup {u}]
      BY <1>2, <2>1, <2>3 DEF Signalled
    <3>2. sem' = [value |-> sem.value + 1, wakeups |-> sem.wakeups + 1,
                  asleep |-> sem.asleep \ {u}, awake |-> sem.awake \cup {u}]
      BY <1>2, <3>1
    <3>3. u \in sem.asleep
      BY <1>2
    <3>4. WellFormed'
      BY <1>3, <3>2, <3>3 DEF WellFormed, Semaphores
    <3> QED
      BY <1>1, <1>3, <1>4, <3>2, <3>3, <3>4
  <2> QED
    BY <2>2, <2>3
<1>5. CASE ~(s.value <= 0)
  <2>1. sem' = s
    BY <1>5 DEF semaphore_V
  <2> QED
    BY <1>1, <1>3, <1>5, <2>1 DEF WellFormed, Semaphores
<1> QED
  BY <1>4, <1>5

-----------------------------------------------------------------------------
(* What the steps do to the permits.                                       *)
LEMMA PermitsType == ASSUME WellFormed PROVE Permits \in Nat
BY DEF WellFormed, Semaphores, Permits

(* A return of semaphore_P uses one permit, and there was one.             *)
LEMMA PReturnPermits ==
  ASSUME WellFormed, NEW t \in Threads, PReturn(t)
  PROVE  WellFormed' /\ Permits > 0 /\ Permits' = Permits - 1
<1>1. sem.value \in Int /\ sem.wakeups \in Nat
  BY DEF WellFormed, Semaphores
<1>2. CASE PTake(t)
  BY <1>1, <1>2, PTakeEffect DEF Permits
<1>3. CASE PWake(t)
  BY <1>1, <1>3, PWakeEffect DEF Permits
<1> QED
  BY <1>2, <1>3 DEF PReturn

(* A semaphore_P that goes to sleep uses none.                             *)
LEMMA PBlockPermits ==
  ASSUME WellFormed, NEW t \in Threads, PBlock(t)
  PROVE  WellFormed' /\ Permits' = Permits
<1>1. sem.value \in Int /\ sem.wakeups \in Nat
  BY DEF WellFormed, Semaphores
<1>2. CASE PWait(t)
  BY <1>1, <1>2, PWaitEffect DEF Permits
<1>3. CASE PAgain(t)
  BY <1>1, <1>3, PAgainEffect DEF Permits
<1> QED
  BY <1>2, <1>3 DEF PBlock

(* Neither does a wake-up without a signal.                                *)
LEMMA SpuriousPermits ==
  ASSUME WellFormed, NEW t \in Threads, SpuriousWakeup(t)
  PROVE  WellFormed' /\ Permits' = Permits
BY SpuriousEffect DEF Permits

(* semaphore_V makes one permit, whether it signals or not.                *)
LEMMA VPermits ==
  ASSUME WellFormed, NEW t \in Threads, semaphore_V(t)
  PROVE  WellFormed' /\ Permits' = Permits + 1
<1>1. sem.value \in Int /\ sem.wakeups \in Nat
  BY DEF WellFormed, Semaphores
<1>2. sem'.value = sem.value + 1 /\ WellFormed'
  BY VEffect
<1>3. \/ sem.value >= 0 /\ sem'.wakeups = sem.wakeups
      \/ sem.value < 0 /\ sem'.wakeups = sem.wakeups + 1
  BY VEffect
<1> QED
  BY <1>1, <1>2, <1>3 DEF Permits

(* make_semaphore makes as many permits as its argument says.              *)
LEMMA MakePermits ==
  ASSUME NEW v \in Nat, sem = make_semaphore(v)
  PROVE  WellFormed /\ Permits = v
BY DEF make_semaphore, WellFormed, Semaphores, Permits

-----------------------------------------------------------------------------
(* A step of Next is one of the operators of module Semaphore, and what it  *)
(* does to the history.                                                    *)
LEMMA NextCases ==
  ASSUME Next
  PROVE  \E t \in Threads :
           \/ PTake(t) /\ granted' = granted + 1
           \/ PWake(t) /\ granted' = granted + 1
           \/ PWait(t) /\ granted' = granted
           \/ PAgain(t) /\ granted' = granted
           \/ semaphore_V(t) /\ granted' = granted - 1
           \/ SpuriousWakeup(t) /\ granted' = granted
BY DEF Next, PReturn, PBlock

(* A new semaphore has the types of the struct (sem.c:21).                 *)
LEMMA TypeInit == Init => TypeOK
BY ValueAssumption DEF Init, TypeOK, WellFormed, make_semaphore, Semaphores

(* semaphore_P and semaphore_V keep them.                                  *)
LEMMA TypeStep == TypeOK /\ [Next]_vars => TypeOK'
<1> SUFFICES ASSUME TypeOK, [Next]_vars PROVE WellFormed' /\ granted' \in Int
  BY DEF TypeOK
<1>0. WellFormed /\ granted \in Int
  BY DEF TypeOK
<1>1. CASE UNCHANGED vars
  BY <1>0, <1>1 DEF WellFormed, vars
<1>2. CASE Next
  BY <1>0, <1>2, NextCases, PTakeEffect, PWaitEffect, PWakeEffect,
     PAgainEffect, VEffect, SpuriousEffect
<1> QED
  BY <1>1, <1>2

(* The struct keeps its types, and a thread waits in one place at most.    *)
THEOREM TypeCorrect == Spec => []TypeOK
BY TypeInit, TypeStep, PTL DEF Spec

-----------------------------------------------------------------------------
(* The accounting of the blocked callers.  WaitersAccounted and            *)
(* NoStrandedWakeup are inductive only together: a semaphore_V that finds  *)
(* nobody asleep grants a wakeup without moving anyone, and it is the      *)
(* accounting that then guarantees an awake thread to use it.              *)
Accounting == TypeOK /\ WaitersAccounted /\ NoStrandedWakeup

(* The callers still owed a wakeup.                                        *)
Owed == IF sem.value < 0 THEN - sem.value ELSE 0

(* The threads that wait can be counted, asleep and awake apart.           *)
LEMMA WaitSetsFinite ==
  ASSUME NEW s \in Semaphores, s.asleep \cap s.awake = {}
  PROVE  /\ IsFiniteSet(s.asleep) /\ IsFiniteSet(s.awake)
         /\ Cardinality(s.asleep) \in Nat /\ Cardinality(s.awake) \in Nat
         /\ Cardinality(s.asleep \cup s.awake)
              = Cardinality(s.asleep) + Cardinality(s.awake)
<1>1. IsFiniteSet(s.asleep) /\ IsFiniteSet(s.awake)
  BY ThreadsAssumption, FS_Subset DEF Semaphores
<1>2. Cardinality(s.asleep) \in Nat /\ Cardinality(s.awake) \in Nat
  BY <1>1, FS_CardinalityType
<1>3. Cardinality(s.asleep \cap s.awake) = 0
  BY FS_EmptySet
<1>4. Cardinality(s.asleep \cup s.awake)
        = Cardinality(s.asleep) + Cardinality(s.awake)
            - Cardinality(s.asleep \cap s.awake)
  BY <1>1, FS_Union
<1> QED
  BY <1>1, <1>2, <1>3, <1>4

(* Nobody waits for a new semaphore.                                       *)
LEMMA AccountingInit == Init => Accounting
<1> SUFFICES ASSUME Init PROVE Accounting
  OBVIOUS
<1>1. Cardinality({}) = 0
  BY FS_EmptySet
<1>2. Blocked = {} /\ sem.awake = {} /\ sem.wakeups = 0 /\ sem.value = Value
  BY DEF Init, make_semaphore, Blocked
<1> QED
  BY <1>1, <1>2, ValueAssumption, TypeInit
     DEF Accounting, WaitersAccounted, NoStrandedWakeup

(* Every step of semaphore_P and semaphore_V keeps the accounts.           *)
LEMMA AccountingStep == Accounting /\ [Next]_vars => Accounting'
<1> SUFFICES ASSUME Accounting, [Next]_vars PROVE Accounting'
  OBVIOUS
<1> DEFINE sleepers == Cardinality(sem.asleep)
           woken    == Cardinality(sem.awake)
<1>1. TypeOK' /\ WellFormed /\ WellFormed'
  BY TypeStep DEF Accounting, TypeOK
<1>2. /\ IsFiniteSet(sem.asleep) /\ IsFiniteSet(sem.awake)
      /\ sleepers \in Nat /\ woken \in Nat
      /\ Cardinality(Blocked) = sleepers + woken
  BY <1>1, WaitSetsFinite DEF WellFormed, Blocked
<1>3. sleepers' \in Nat /\ woken' \in Nat
      /\ Cardinality(Blocked)' = sleepers' + woken'
  BY <1>1, WaitSetsFinite DEF WellFormed, Blocked
<1>4. sleepers + woken = sem.wakeups + Owed /\ sem.wakeups <= woken
  BY <1>2 DEF Accounting, WaitersAccounted, NoStrandedWakeup, Owed
<1>5. sem.value \in Int /\ sem.wakeups \in Nat
  BY <1>1 DEF WellFormed, Semaphores
<1> SUFFICES sleepers' + woken' = sem'.wakeups + Owed' /\ sem'.wakeups <= woken'
  BY <1>1, <1>3 DEF Accounting, WaitersAccounted, NoStrandedWakeup, Owed
<1> HIDE DEF sleepers, woken
(* How a set of the struct changes size when one thread enters or leaves.  *)
<1>6. ASSUME NEW t, t \in sem.asleep, sem'.asleep = sem.asleep \ {t}
      PROVE  sleepers' = sleepers - 1
  BY <1>2, <1>6, FS_RemoveElement DEF sleepers
<1>7. ASSUME NEW t, t \notin sem.asleep, sem'.asleep = sem.asleep \cup {t}
      PROVE  sleepers' = sleepers + 1
  BY <1>2, <1>7, FS_AddElement DEF sleepers
<1>8. ASSUME NEW t, t \in sem.awake, sem'.awake = sem.awake \ {t}
      PROVE  woken' = woken - 1
  BY <1>2, <1>8, FS_RemoveElement DEF woken
<1>9. ASSUME NEW t, t \notin sem.awake, sem'.awake = sem.awake \cup {t}
      PROVE  woken' = woken + 1
  BY <1>2, <1>9, FS_AddElement DEF woken
<1>10. sem'.asleep = sem.asleep => sleepers' = sleepers
  BY DEF sleepers
<1>11. sem'.awake = sem.awake => woken' = woken
  BY DEF woken
<1>12. sem.asleep \cap sem.awake = {}
  BY <1>1 DEF WellFormed
<1>13. CASE UNCHANGED vars
  BY <1>4, <1>10, <1>11, <1>13 DEF Owed, vars
<1>14. ASSUME NEW t \in Threads, PTake(t)
       PROVE  sleepers' + woken' = sem'.wakeups + Owed'
              /\ sem'.wakeups <= woken'
  BY <1>1, <1>4, <1>5, <1>10, <1>11, <1>14, PTakeEffect DEF Owed
<1>15. ASSUME NEW t \in Threads, PWait(t)
       PROVE  sleepers' + woken' = sem'.wakeups + Owed'
              /\ sem'.wakeups <= woken'
  <2>1. sleepers' = sleepers + 1 /\ woken' = woken
    BY <1>1, <1>7, <1>11, <1>15, PWaitEffect DEF Blocked
  <2> QED
    BY <1>1, <1>2, <1>4, <1>5, <1>15, <2>1, PWaitEffect DEF Owed
<1>16. ASSUME NEW t \in Threads, PWake(t)
       PROVE  sleepers' + woken' = sem'.wakeups + Owed'
              /\ sem'.wakeups <= woken'
  <2>1. sleepers' = sleepers /\ woken' = woken - 1
    BY <1>1, <1>8, <1>10, <1>16, PWakeEffect
  <2> QED
    BY <1>1, <1>2, <1>4, <1>5, <1>16, <2>1, PWakeEffect DEF Owed
<1>17. ASSUME NEW t \in Threads, PAgain(t)
       PROVE  sleepers' + woken' = sem'.wakeups + Owed'
              /\ sem'.wakeups <= woken'
  <2>1. t \in sem.awake /\ t \notin sem.asleep
    BY <1>1, <1>12, <1>17, PAgainEffect
  <2>2. sleepers' = sleepers + 1 /\ woken' = woken - 1
    BY <1>1, <1>7, <1>8, <1>17, <2>1, PAgainEffect
  <2> QED
    BY <1>1, <1>2, <1>3, <1>4, <1>5, <1>17, <2>2, PAgainEffect DEF Owed
<1>18. ASSUME NEW t \in Threads, semaphore_V(t)
       PROVE  sleepers' + woken' = sem'.wakeups + Owed'
              /\ sem'.wakeups <= woken'
  <2>1. sem'.value = sem.value + 1
    BY <1>1, <1>18, VEffect
  <2>2. CASE /\ sem.value >= 0
             /\ sem'.wakeups = sem.wakeups
             /\ sem'.asleep = sem.asleep
             /\ sem'.awake = sem.awake
    BY <1>4, <1>5, <1>10, <1>11, <2>1, <2>2 DEF Owed
  <2>3. CASE /\ sem.value < 0
             /\ sem'.wakeups = sem.wakeups + 1
             /\ \E u \in sem.asleep :
                   /\ sem'.asleep = sem.asleep \ {u}
                   /\ sem'.awake = sem.awake \cup {u}
    <3>1. PICK u \in sem.asleep : /\ sem'.asleep = sem.asleep \ {u}
                                  /\ sem'.awake = sem.awake \cup {u}
      BY <2>3
    <3>2. sleepers' = sleepers - 1 /\ woken' = woken + 1
      BY <1>6, <1>9, <1>12, <3>1
    <3> QED
      BY <1>2, <1>4, <1>5, <2>1, <2>3, <3>2 DEF Owed
  <2>4. CASE /\ sem.value < 0
             /\ sem'.wakeups = sem.wakeups + 1
             /\ sem.asleep = {}
             /\ sem'.asleep = {}
             /\ sem'.awake = sem.awake
    <3>1. sleepers = 0
      BY <2>4, FS_EmptySet DEF sleepers
    <3>2. sleepers' = sleepers /\ woken' = woken
      BY <1>10, <1>11, <2>4
    <3> QED
      BY <1>2, <1>4, <1>5, <2>1, <2>4, <3>1, <3>2 DEF Owed
  <2> QED
    BY <1>1, <1>18, <2>2, <2>3, <2>4, VEffect
<1>19. ASSUME NEW t \in Threads, SpuriousWakeup(t)
       PROVE  sleepers' + woken' = sem'.wakeups + Owed'
              /\ sem'.wakeups <= woken'
  <2>1. t \in sem.asleep /\ t \notin sem.awake
    BY <1>1, <1>12, <1>19, SpuriousEffect
  <2>2. sleepers' = sleepers - 1 /\ woken' = woken + 1
    BY <1>1, <1>6, <1>9, <1>19, <2>1, SpuriousEffect
  <2> QED
    BY <1>1, <1>2, <1>4, <1>5, <1>19, <2>2, SpuriousEffect DEF Owed
<1> QED
  BY <1>13, <1>14, <1>15, <1>16, <1>17, <1>18, <1>19, NextCases

(* Every blocked caller is owed a wakeup or has one waiting for it.        *)
THEOREM WaitersAlwaysAccounted == Spec => []WaitersAccounted
<1>1. Accounting => WaitersAccounted
  BY DEF Accounting
<1> QED
  BY <1>1, AccountingInit, AccountingStep, PTL DEF Spec

(* Every wakeup granted has a thread out of cv_wait to use it.             *)
THEOREM NoWakeupStranded == Spec => []NoStrandedWakeup
<1>1. Accounting => NoStrandedWakeup
  BY DEF Accounting
<1> QED
  BY <1>1, AccountingInit, AccountingStep, PTL DEF Spec

-----------------------------------------------------------------------------
(* The permits and the calls balance; from this the refinement follows,    *)
(* for a semaphore_P that returns has found a permit.                      *)
Balance == TypeOK /\ PermitsAccounted

(* A new semaphore has its value as permits.                               *)
LEMMA BalanceInit == Init => Balance
BY TypeInit, MakePermits, ValueAssumption DEF Init, Balance, PermitsAccounted

(* Every step changes the permits by what it grants or gives back.         *)
LEMMA BalanceStep ==
  Balance /\ [Next]_vars => Balance' /\ [Counting!Next]_granted
<1> SUFFICES ASSUME Balance, [Next]_vars
             PROVE  PermitsAccounted' /\ [Counting!Next]_granted
  BY TypeStep DEF Balance
<1>1. WellFormed /\ granted \in Int /\ Permits + granted = Value
  BY DEF Balance, TypeOK, PermitsAccounted
<1>2. Permits \in Nat
  BY <1>1, PermitsType
<1>3. CASE UNCHANGED vars
  BY <1>1, <1>3 DEF vars, PermitsAccounted, Permits
<1>4. ASSUME NEW t \in Threads, PTake(t) \/ PWake(t), granted' = granted + 1
      PROVE  PermitsAccounted' /\ Counting!Take
  BY <1>1, <1>2, <1>4, PReturnPermits
     DEF PReturn, Counting!Take, PermitsAccounted
<1>5. ASSUME NEW t \in Threads, PWait(t) \/ PAgain(t), granted' = granted
      PROVE  PermitsAccounted'
  BY <1>1, <1>2, <1>5, PBlockPermits DEF PBlock, PermitsAccounted
<1>6. ASSUME NEW t \in Threads, semaphore_V(t), granted' = granted - 1
      PROVE  PermitsAccounted' /\ Counting!Give
  BY <1>1, <1>2, <1>6, VPermits DEF Counting!Give, PermitsAccounted
<1>7. ASSUME NEW t \in Threads, SpuriousWakeup(t), granted' = granted
      PROVE  PermitsAccounted'
  BY <1>1, <1>2, <1>7, SpuriousPermits DEF PermitsAccounted
<1> QED
  BY <1>3, <1>4, <1>5, <1>6, <1>7, NextCases DEF Counting!Next, vars

(* No permit is ever lost or made up.                                      *)
THEOREM PermitsAlwaysAccounted == Spec => []PermitsAccounted
<1>1. Balance => PermitsAccounted
  BY DEF Balance
<1> QED
  BY <1>1, BalanceInit, BalanceStep, PTL DEF Spec

(* The semaphore of sem.c is a counting semaphore.                         *)
THEOREM SemaphoreCounts == Spec => ImplementsCounting
<1>1. Init => Counting!Init
  BY DEF Init, Counting!Init
<1> QED
  BY <1>1, BalanceInit, BalanceStep, PTL
     DEF Spec, ImplementsCounting, Counting!Spec

=============================================================================
