--------------------------- MODULE ElevatorProofs ---------------------------
(***************************************************************************)
(* What holds of the two elevator simulations for any number of elevators, *)
(* floors and people.  The first part is about what they share: the queue, *)
(* and the accounts of who is where.                                       *)
(***************************************************************************)
EXTENDS ElevatorImproved, ElevatorBasic, DataLemmas

-----------------------------------------------------------------------------
(* Without, and the sequence it builds in its one pass.                    *)
IsRest(g, s, T, m) ==
  g = [n \in 0 .. m |-> IF n = 0 THEN <<>>
                        ELSE IF s[n] \in T THEN g[n - 1]
                        ELSE Append(g[n - 1], s[n])]

(* What it has when it has come to the n-th.                               *)
LEMMA RestAt ==
  ASSUME NEW g, NEW s, NEW T, NEW m \in Nat, IsRest(g, s, T, m),
         NEW n \in 0 .. m
  PROVE  /\ n = 0 => g[n] = <<>>
         /\ n # 0 /\ s[n] \in T => g[n] = g[n - 1]
         /\ n # 0 /\ s[n] \notin T => g[n] = Append(g[n - 1], s[n])
  <1>1. g[n] = IF n = 0 THEN <<>>
               ELSE IF s[n] \in T THEN g[n - 1] ELSE Append(g[n - 1], s[n])
    BY DEF IsRest
  <1> QED
    BY <1>1

(* The pass can be made as far as one likes.                               *)
LEMMA RestExists ==
  ASSUME NEW s, NEW T, NEW m \in Nat
  PROVE  \E g : IsRest(g, s, T, m)
  <1> DEFINE E == {n \in Nat : \E g : IsRest(g, s, T, n)}
  <1>1. 0 \in E
    <2> DEFINE g == [n \in 0 .. 0 |-> <<>>]
    <2>1. IsRest(g, s, T, 0)
      BY DEF IsRest
    <2> QED
      BY <2>1
  <1>2. ASSUME NEW n \in Nat, n \in E PROVE n + 1 \in E
    <2>1. PICK g : IsRest(g, s, T, n)
      BY <1>2
    <2> DEFINE last == IF s[n + 1] \in T THEN g[n] ELSE Append(g[n], s[n + 1])
               h == [k \in 0 .. n + 1 |-> IF k = n + 1 THEN last ELSE g[k]]
    <2>2. ASSUME NEW k \in 0 .. n + 1
          PROVE  h[k] = IF k = 0 THEN <<>>
                        ELSE IF s[k] \in T THEN h[k - 1]
                        ELSE Append(h[k - 1], s[k])
      <3>1. CASE k = n + 1
        <4>1. h[k - 1] = g[n] /\ k # 0
          BY <3>1
        <4> QED
          BY <3>1, <4>1
      <3>2. CASE k = 0
        <4>1. h[k] = g[0] /\ g[0] = <<>>
          BY <2>1, <3>2 DEF IsRest
        <4> QED
          BY <3>2, <4>1
      <3>3. CASE k \in 1 .. n
        <4>1. h[k] = g[k] /\ h[k - 1] = g[k - 1]
          BY <3>3
        <4>2. g[k] = IF s[k] \in T THEN g[k - 1] ELSE Append(g[k - 1], s[k])
          <5>1. k \in 0 .. n /\ k # 0
            BY <3>3
          <5>2. /\ s[k] \in T => g[k] = g[k - 1]
                /\ s[k] \notin T => g[k] = Append(g[k - 1], s[k])
            BY <2>1, <5>1, RestAt
          <5> QED
            BY <5>2
        <4> QED
          BY <3>3, <4>1, <4>2
      <3> QED
        BY <3>1, <3>2, <3>3
    <2>3. IsRest(h, s, T, n + 1)
      <3> HIDE DEF last
      <3> QED
        BY <2>2 DEF IsRest
    <2> QED
      BY <2>3
  <1> HIDE DEF E
  <1>3. Nat \subseteq E
    BY <1>1, <1>2, SetInduction
  <1> QED
    BY <1>3 DEF E

(* Nobody but those in T is left out, and nobody comes in twice.           *)
LEMMA WithoutLeaves ==
  ASSUME NEW A, NEW s \in Seq(A), NEW T, IsInjective(s)
  PROVE  /\ Without(s, T) \in Seq(A)
         /\ Range(Without(s, T)) = Range(s) \ T
         /\ IsInjective(Without(s, T))
  <1> DEFINE g == CHOOSE h : IsRest(h, s, T, Len(s))
             Left(n) == {s[k] : k \in 1 .. n} \ T
             Good(r, n) == r \in Seq(A) /\ Range(r) = Left(n) /\ IsInjective(r)
             E == {n \in Nat : n <= Len(s) => Good(g[n], n)}
  <1>1. Len(s) \in Nat /\ DOMAIN s = 1 .. Len(s)
    OBVIOUS
  <1>2. Without(s, T) = g[Len(s)]
    BY DEF Without, IsRest
  <1>3. IsRest(g, s, T, Len(s))
    BY <1>1, RestExists
  <1> HIDE DEF g
  <1>4. 0 \in E
    <2>1. g[0] = <<>>
      BY <1>1, <1>3 DEF IsRest
    <2>2. <<>> \in Seq(A) /\ Range(<<>>) = {} /\ IsInjective(<<>>)
      BY DEF Range, IsInjective
    <2>3. Left(0) = {}
      OBVIOUS
    <2> QED
      BY <2>1, <2>2, <2>3
  <1>5. ASSUME NEW n \in Nat, n \in E PROVE n + 1 \in E
    <2> SUFFICES ASSUME n + 1 <= Len(s) PROVE Good(g[n + 1], n + 1)
      OBVIOUS
    <2> DEFINE x == s[n + 1]
    <2>1. Good(g[n], n)
      BY <1>1, <1>5
    <2>2. n + 1 \in 0 .. Len(s) /\ n + 1 # 0 /\ n + 1 - 1 = n
      BY <1>1
    <2>3. g[n + 1] = IF x \in T THEN g[n] ELSE Append(g[n], x)
      <3>1. /\ x \in T => g[n + 1] = g[n + 1 - 1]
            /\ x \notin T => g[n + 1] = Append(g[n + 1 - 1], x)
        BY <1>1, <1>3, <2>2, RestAt
      <3> QED
        BY <2>2, <3>1
    <2>4. x \in A
      BY <1>1
    <2>5. Left(n + 1) = Left(n) \cup ({x} \ T)
      <3>1. 1 .. n + 1 = (1 .. n) \cup {n + 1}
        OBVIOUS
      <3> QED
        BY <3>1
    <2>6. x \notin Left(n)
      <3>1. ASSUME NEW k \in 1 .. n PROVE s[k] # x
        BY <1>1 DEF IsInjective
      <3> QED
        BY <3>1
    <2> HIDE DEF x, Left
    <2>7. CASE x \in T
      BY <2>1, <2>3, <2>5, <2>7
    <2>8. CASE x \notin T
      <3>1. g[n + 1] = Append(g[n], x) /\ Left(n + 1) = Left(n) \cup {x}
        BY <2>3, <2>5, <2>8
      <3>2. /\ Append(g[n], x) \in Seq(A)
            /\ Range(Append(g[n], x)) = Range(g[n]) \cup {x}
            /\ IsInjective(Append(g[n], x))
        BY <2>1, <2>4, <2>6, DistinctAppend
      <3> QED
        BY <2>1, <3>1, <3>2
    <2> QED
      BY <2>7, <2>8
  <1>6. Nat \subseteq E
    <2> HIDE DEF E
    <2> QED
      BY <1>4, <1>5, SetInduction
  <1>7. Good(g[Len(s)], Len(s))
    BY <1>1, <1>6
  <1>8. Left(Len(s)) = Range(s) \ T
    BY <1>1 DEF Range
  <1> QED
    BY <1>2, <1>7, <1>8

-----------------------------------------------------------------------------
(* The accounts: whom the list q and the elevators H have, and how many    *)
(* have been delivered, l, of the n people made so far.                    *)
Present(q, H) == Range(q) \cup UNION {H[e] : e \in Elevators}

Accounted(q, H, l, n) ==
  /\ IsInjective(q)
  /\ \A e, f \in Elevators : e # f => H[e] \cap H[f] = {}
  /\ \A e \in Elevators : H[e] \cap Range(q) = {}
  /\ IsFiniteSet(Present(q, H))
  /\ Cardinality(Present(q, H)) + SumOver(l) = n
  /\ \A p \in Present(q, H) : p.id < n

Delivered == [Elevators -> 0 .. MaxPeople]

(* h differs from g at e at most.                                          *)
ChangedAt(e, h, g) ==
  /\ DOMAIN h = Elevators /\ h = [f \in Elevators |-> h[f]]
  /\ \A f \in Elevators \ {e} : h[f] = g[f]

(* An array that is left alone, or assigned to at e, is one of those.      *)
LEMMA ChangeAt ==
  ASSUME NEW S, NEW g \in [Elevators -> S], NEW e \in Elevators, NEW v
  PROVE  /\ ChangedAt(e, g, g)
         /\ ChangedAt(e, [g EXCEPT ![e] = v], g)
         /\ [g EXCEPT ![e] = v][e] = v
  BY DEF ChangedAt

(* The sum over the elevators is the sum of DataLemmas.                    *)
LEMMA SumIsTotal ==
  ASSUME NEW f
  PROVE  SumOver(f) = Total(f, Elevators) /\ IsFiniteSet(Elevators)
  BY SimulationAssumption DEF SumOver, Total

(* It starts with nobody anywhere.                                         *)
LEMMA AccountedAtFirst ==
  ASSUME NEW H, \A e \in Elevators : H[e] = {},
         NEW l \in [Elevators -> {0}]
  PROVE  Accounted(<<>>, H, l, 0)
  <1>1. Range(<<>>) = {} /\ IsInjective(<<>>)
    BY DEF Range, IsInjective
  <1>2. Present(<<>>, H) = {}
    BY <1>1 DEF Present
  <1>3. SumOver(l) = 0
    BY SumIsTotal, TotalZero
  <1>4. IsFiniteSet(Present(<<>>, H)) /\ Cardinality(Present(<<>>, H)) = 0
    BY <1>2, FS_EmptySet
  <1>5. Cardinality(Present(<<>>, H)) + SumOver(l) = 0
    BY <1>3, <1>4
  <1> QED
    BY <1>1, <1>2, <1>4, <1>5 DEF Accounted

(* A new person, with the next id, is nowhere yet and joins the queue.     *)
LEMMA AccountedArrival ==
  ASSUME NEW q \in Seq(People), NEW H, \A e \in Elevators : H[e] \subseteq People,
         NEW l \in Delivered, NEW n \in Nat, Accounted(q, H, l, n),
         NEW p \in People, p.id = n
  PROVE  Accounted(Append(q, p), H, l, n + 1)
  <1> DEFINE r == Append(q, p)
  <1>1. p \notin Present(q, H)
    BY DEF Accounted
  <1>2. p \notin Range(q) /\ \A e \in Elevators : p \notin H[e]
    BY <1>1 DEF Present
  <1>3. Range(r) = Range(q) \cup {p} /\ IsInjective(r)
    BY <1>2, DistinctAppend DEF Accounted
  <1> HIDE DEF r
  <1>4. Present(r, H) = Present(q, H) \cup {p}
    BY <1>3 DEF Present
  <1>5. /\ IsFiniteSet(Present(r, H))
        /\ Cardinality(Present(r, H)) = Cardinality(Present(q, H)) + 1
    BY <1>1, <1>4, FS_AddElement DEF Accounted
  <1>6. SumOver(l) \in Nat /\ Cardinality(Present(q, H)) \in Nat
    BY SumIsTotal, TotalCounts, SimulationAssumption, FS_CardinalityType
       DEF Delivered, Accounted
  <1>7. Cardinality(Present(r, H)) + SumOver(l) = n + 1
    BY <1>5, <1>6 DEF Accounted
  <1>8. \A x \in Present(r, H) : x.id < n + 1
    <2>1. ASSUME NEW x \in Present(q, H) PROVE x.id < n + 1
      <3>1. x.id < n
        BY DEF Accounted
      <3>2. x \in People
        BY DEF Present, Range
      <3>3. x.id \in Int
        BY <3>2, SimulationAssumption DEF People
      <3> QED
        BY <3>1, <3>3
    <2> QED
      BY <1>4, <2>1
  <1>9. \A e \in Elevators : H[e] \cap Range(r) = {}
    BY <1>2, <1>3 DEF Accounted
  <1> QED
    BY <1>3, <1>5, <1>7, <1>8, <1>9 DEF Accounted, r

(* People go from the queue to one elevator.                               *)
LEMMA AccountedTaken ==
  ASSUME NEW q, NEW H, NEW l, NEW n, Accounted(q, H, l, n),
         NEW r, IsInjective(r), NEW T, T \subseteq Range(q),
         Range(r) = Range(q) \ T,
         NEW G, NEW e \in Elevators, ChangedAt(e, G, H), G[e] = H[e] \cup T
  PROVE  Accounted(r, G, l, n)
  <1> USE DEF ChangedAt
  <1>1. Present(r, G) = Present(q, H)
    BY DEF Present
  <1>2. ASSUME NEW f \in Elevators, NEW g \in Elevators, f # g
        PROVE  G[f] \cap G[g] = {}
    BY <1>2 DEF Accounted
  <1>3. ASSUME NEW f \in Elevators PROVE G[f] \cap Range(r) = {}
    BY DEF Accounted
  <1> QED
    BY <1>1, <1>2, <1>3 DEF Accounted

(* People get off an elevator, which counts them.                          *)
LEMMA AccountedDropped ==
  ASSUME NEW q, NEW H, NEW l \in Delivered, NEW n \in 0 .. MaxPeople,
         Accounted(q, H, l, n),
         NEW e \in Elevators, NEW D, D \subseteq H[e],
         NEW G, ChangedAt(e, G, H), G[e] = H[e] \ D,
         NEW m, ChangedAt(e, m, l), m[e] = l[e] + Cardinality(D)
  PROVE  Accounted(q, G, m, n) /\ m \in Delivered
  <1>0. /\ \A f \in Elevators \ {e} : G[f] = H[f]
        /\ m = [f \in Elevators |-> m[f]]
        /\ \A f \in Elevators \ {e} : m[f] = l[f]
    BY DEF ChangedAt
  <1> DEFINE P == Present(q, H)
             c == Cardinality(D)
  <1>1. D \subseteq P /\ IsFiniteSet(P)
    BY DEF Present, Accounted
  <1>2. IsFiniteSet(D) /\ c \in Nat /\ Cardinality(P) \in Nat
    BY <1>1, FS_Subset, FS_CardinalityType
  <1>3. Present(q, G) = P \ D
    BY <1>0 DEF Present, Accounted
  <1>4. IsFiniteSet(P \ D) /\ Cardinality(P \ D) = Cardinality(P) - c
    <2> HIDE DEF P
    <2>1. /\ IsFiniteSet(P \ D)
          /\ Cardinality(P \ D) = Cardinality(P) - Cardinality(P \cap D)
      BY <1>1, FS_Difference
    <2>2. P \cap D = D
      BY <1>1
    <2> QED
      BY <2>1, <2>2
  <1>5. l \in [Elevators -> 0 .. MaxPeople] /\ MaxPeople \in Nat
    BY SimulationAssumption DEF Delivered
  <1> HIDE DEF P, c
  <1>6. m \in [Elevators -> Nat]
    <2>1. m[e] = l[e] + c
      BY DEF c
    <2>2. ASSUME NEW f \in Elevators PROVE m[f] \in Nat
      <3>1. CASE f = e
        BY <1>2, <1>5, <2>1, <3>1
      <3>2. CASE f # e
        BY <1>0, <1>5, <3>2
      <3> QED
        BY <3>1, <3>2
    <2> QED
      BY <1>0, <2>2
  <1>7. /\ m \in [Elevators -> 0 .. MaxPeople + c]
        /\ Total(m, Elevators) = Total(l, Elevators) + c
    <2>1. m[e] = l[e] + c
      BY DEF c
    <2> QED
      BY <1>0, <1>2, <1>5, <1>6, <2>1, SumIsTotal, TotalAdded
  <1>8. Total(l, Elevators) \in Nat
    BY <1>5, SumIsTotal, TotalCounts
  <1>9. Cardinality(P) + Total(l, Elevators) = n
    BY SumIsTotal DEF Accounted, P
  <1>10. Cardinality(P \ D) + Total(m, Elevators) = n
    BY <1>2, <1>4, <1>7, <1>8, <1>9
  <1>11. Cardinality(P \ D) \in Nat
    BY <1>4, FS_CardinalityType
  <1>12. Total(m, Elevators) <= MaxPeople
    BY <1>2, <1>5, <1>7, <1>8, <1>10, <1>11
  <1>13. ASSUME NEW f \in Elevators PROVE m[f] \in 0 .. MaxPeople
    <2>1. MaxPeople + c \in Nat
      BY <1>2, <1>5
    <2>2. m[f] <= Total(m, Elevators)
      BY <1>7, <2>1, SumIsTotal, PartOfTotal
    <2> QED
      BY <1>2, <1>5, <1>6, <1>7, <1>8, <1>12, <2>2
  <1>14. \A f, g \in Elevators : f # g => G[f] \cap G[g] = {}
    BY <1>0 DEF Accounted
  <1>15. \A f \in Elevators : G[f] \cap Range(q) = {}
    BY <1>0 DEF Accounted
  <1>16. \A p \in P \ D : p.id < n
    BY DEF Accounted, P
  <1>17. Accounted(q, G, m, n)
    BY <1>3, <1>4, <1>10, <1>14, <1>15, <1>16, SumIsTotal DEF Accounted
  <1> QED
    BY <1>0, <1>13, <1>17 DEF Delivered

-----------------------------------------------------------------------------
(* What the two simulations have in common: the maker, the clock, and the  *)
(* end of the elevator threads.  What the elevators have handed in.        *)
HandedIn(at, l) ==
  [e \in Elevators |-> IF at[e] = "done" THEN l[e] ELSE 0]

(* The maker has made person_id people, and counted the last one unless it *)
(* is about to.                                                            *)
Making(at, made, started) ==
  /\ at \in {"check", "sleep", "count", "done"}
  /\ at = "sleep" => made < MaxPeople
  /\ at = "count" => made > 0
  /\ started = IF at = "count" THEN made - 1 ELSE made

Makes == Making(maker, person_id, num_people_started)

(* The flag is set after the time is over, by elevators on their way out.  *)
Stops ==
  /\ timesup \in BOOLEAN /\ timeOver \in BOOLEAN
  /\ lock \in Elevators \cup {NoOne} /\ waiting \subseteq Elevators
  /\ timesup => timeOver
  /\ \A e \in Elevators :
       pc[e] \in {"stop", "signal", "hand_in", "done"} => timeOver

Counts == num_people_finished = SumOver(HandedIn(pc, l_num_people_finished))

Common ==
  /\ pc = [e \in Elevators |-> pc[e]]
  /\ l_num_people_finished \in Delivered /\ person_id \in Nat
  /\ Makes /\ Stops /\ Counts

(* What the work of an elevator leaves alone; and that it ends up outside  *)
(* the labels of the end, or at the first of them because time is over.    *)
Works(e) ==
  /\ UNCHANGED <<timesup, timeOver, maker, person_id, num_people_started,
                 num_people_finished>>
  /\ lock' \in Elevators \cup {NoOne} /\ waiting' \subseteq Elevators
  /\ pc[e] \notin {"stop", "signal", "hand_in", "done"}
  /\ pc'[e] \notin {"signal", "hand_in", "done"}
  /\ pc'[e] = "stop" => timeOver
  /\ \A f \in Elevators \ {e} :
       /\ pc'[f] = pc[f]
       /\ l_num_people_finished'[f] = l_num_people_finished[f]

CommonStep ==
  \/ \E e \in Elevators : Works(e) \/ Stop(e) \/ Wait(e) \/ Wakeup(e)
  \/ people_maker_entry
  \/ Tick
  \/ UNCHANGED <<queue_vars, timeOver, maker_vars, num_people_finished, pc,
                 l_num_people_finished>>

(* It holds at first.                                                      *)
LEMMA CommonInit == SimulationInit => Common
  <1> SUFFICES ASSUME SimulationInit PROVE Common
    OBVIOUS
  <1> USE DEF SimulationInit, PersonQueue_make_queue
  <1>1. l_num_people_finished \in Delivered
    BY SimulationAssumption DEF Delivered
  <1>2. Makes /\ Stops
    BY DEF Makes, Making, Stops
  <1>3. Counts
    <2>1. HandedIn(pc, l_num_people_finished) \in [Elevators -> {0}]
      BY DEF HandedIn
    <2> QED
      BY <2>1, SumIsTotal, TotalZero DEF Counts
  <1> QED
    BY <1>1, <1>2, <1>3 DEF Common

(* The signal on the condition variable wakes elevators or nobody.         *)
LEMMA SignalWakes ==
  ASSUME waiting \subseteq Elevators, cv_signal
  PROVE  waiting' \subseteq Elevators
  BY DEF cv_signal

(* The maker keeps its count.                                              *)
LEMMA MakesStep ==
  ASSUME Common, CommonStep
  PROVE  Makes'
  <1>1. Makes /\ person_id \in Nat
    BY DEF Common
  <1>2. CASE UNCHANGED maker_vars
    BY <1>1, <1>2 DEF Makes, maker_vars
  <1>3. CASE people_maker_entry
    BY <1>1, <1>3 DEF Makes, Making, people_maker_entry, CheckBeforeMaking,
                      MakePerson, CountPerson
  <1> QED
    BY <1>2, <1>3 DEF CommonStep, Works, Stop, Wait, Wakeup, Tick, maker_vars

(* The flag comes after the end of the time.                               *)
LEMMA StopsStep ==
  ASSUME Common, CommonStep
  PROVE  Stops'
  <1>1. Stops /\ pc = [e \in Elevators |-> pc[e]]
    BY DEF Common
  <1>2. ASSUME NEW e \in Elevators, Works(e) PROVE Stops'
    <2>1. UNCHANGED <<timesup, timeOver>>
      BY <1>2 DEF Works
    <2>2. lock' \in Elevators \cup {NoOne} /\ waiting' \subseteq Elevators
      BY <1>2 DEF Works
    <2>3. ASSUME NEW f \in Elevators,
                 pc'[f] \in {"stop", "signal", "hand_in", "done"}
          PROVE  timeOver
      <3>1. CASE f = e
        BY <1>2, <2>3, <3>1 DEF Works
      <3>2. CASE f # e
        BY <1>1, <1>2, <2>3, <3>2 DEF Stops, Works
      <3> QED
        BY <3>1, <3>2
    <2> QED
      BY <1>1, <2>1, <2>2, <2>3 DEF Stops
  <1>3. ASSUME NEW e \in Elevators, Stop(e) PROVE Stops'
    <2>1. timeOver /\ UNCHANGED <<timeOver, lock>>
      BY <1>1, <1>3 DEF Stops, Stop, SetTimesup, SignalOthers,
                        update_global_num_people_finished, Goto, queue_vars,
                        PersonQueue_set_timesup, signal_others
    <2>2. timesup' \in BOOLEAN
      BY <1>1, <1>3 DEF Stops, Stop, SetTimesup, SignalOthers,
                        update_global_num_people_finished, queue_vars,
                        PersonQueue_set_timesup, signal_others
    <2>3. waiting' \subseteq Elevators
      BY <1>1, <1>3, SignalWakes
         DEF Stops, Stop, SetTimesup, SignalOthers,
             update_global_num_people_finished, queue_vars,
             PersonQueue_set_timesup, signal_others
    <2> QED
      BY <1>1, <2>1, <2>2, <2>3 DEF Stops
  <1>4. ASSUME NEW e \in Elevators, Wait(e) \/ Wakeup(e) PROVE Stops'
    BY <1>1, <1>4 DEF Stops, Wait, cv_wait, Wakeup, SpuriousWakeup
  <1>5. CASE people_maker_entry
    <2>1. UNCHANGED <<timesup, timeOver, lock, pc>>
      BY <1>5 DEF people_maker_entry, CheckBeforeMaking, MakePerson,
                  CountPerson, PersonQueue_add_person, queue_vars
    <2>2. waiting' \subseteq Elevators
      BY <1>1, <1>5, SignalWakes
         DEF Stops, people_maker_entry, CheckBeforeMaking, MakePerson,
             CountPerson, PersonQueue_add_person, queue_vars
    <2> QED
      BY <1>1, <2>1, <2>2 DEF Stops
  <1>6. CASE Tick
    BY <1>1, <1>6 DEF Stops, Tick, queue_vars
  <1>7. CASE UNCHANGED <<queue_vars, timeOver, pc>>
    BY <1>1, <1>7 DEF Stops, queue_vars
  <1> QED
    BY <1>2, <1>3, <1>4, <1>5, <1>6, <1>7 DEF CommonStep

(* What is handed in is added to the total.                                *)
LEMMA HandedInOnce ==
  ASSUME NEW S, NEW at \in [Elevators -> S], NEW l \in Delivered,
         NEW e \in Elevators, at[e] # "done"
  PROVE  SumOver(HandedIn([at EXCEPT ![e] = "done"], l)) =
           SumOver(HandedIn(at, l)) + l[e]
  <1> DEFINE f == HandedIn(at, l)
             g == HandedIn([at EXCEPT ![e] = "done"], l)
  <1>1. MaxPeople \in Nat /\ l[e] \in Nat
    BY SimulationAssumption DEF Delivered
  <1>2. f \in [Elevators -> 0 .. MaxPeople] /\ g \in [Elevators -> Nat]
    BY SimulationAssumption DEF HandedIn, Delivered
  <1>3. g[e] = f[e] + l[e]
    BY <1>1 DEF HandedIn
  <1>4. \A x \in Elevators \ {e} : g[x] = f[x]
    BY DEF HandedIn
  <1> HIDE DEF f, g
  <1>5. Total(g, Elevators) = Total(f, Elevators) + l[e]
    BY <1>1, <1>2, <1>3, <1>4, SumIsTotal, TotalAdded
  <1> QED
    BY <1>5, SumIsTotal DEF f, g

(* So the total is what the elevators that are done have handed in.        *)
LEMMA CountsStep ==
  ASSUME Common, CommonStep
  PROVE  Counts'
  <1>1. /\ Counts /\ pc = [e \in Elevators |-> pc[e]]
        /\ l_num_people_finished \in Delivered
    BY DEF Common
  <1>2. CASE UNCHANGED <<pc, num_people_finished, l_num_people_finished>>
    BY <1>1, <1>2 DEF Counts
  <1>3. ASSUME NEW e \in Elevators, Works(e) PROVE Counts'
    <2>1. ASSUME NEW f \in Elevators
          PROVE  (IF pc'[f] = "done" THEN l_num_people_finished'[f] ELSE 0) =
                 (IF pc[f] = "done" THEN l_num_people_finished[f] ELSE 0)
      <3>1. CASE f = e
        BY <1>3, <3>1 DEF Works
      <3>2. CASE f # e
        BY <1>3, <3>2 DEF Works
      <3> QED
        BY <3>1, <3>2
    <2>2. HandedIn(pc', l_num_people_finished')
            = HandedIn(pc, l_num_people_finished)
      BY <2>1 DEF HandedIn
    <2>3. UNCHANGED num_people_finished
      BY <1>3 DEF Works
    <2> QED
      BY <1>1, <2>2, <2>3 DEF Counts
  <1>4. ASSUME NEW e \in Elevators, SetTimesup(e) \/ SignalOthers(e)
        PROVE  Counts'
    <2>1. UNCHANGED <<num_people_finished, l_num_people_finished>>
      BY <1>4 DEF SetTimesup, SignalOthers
    <2>2. \A f \in Elevators : pc'[f] = "done" <=> pc[f] = "done"
      BY <1>1, <1>4 DEF SetTimesup, SignalOthers, Goto
    <2>3. HandedIn(pc', l_num_people_finished)
            = HandedIn(pc, l_num_people_finished)
      BY <2>2 DEF HandedIn
    <2> QED
      BY <1>1, <2>1, <2>3 DEF Counts
  <1>5. ASSUME NEW e \in Elevators, update_global_num_people_finished(e)
        PROVE  Counts'
    <2>1. /\ pc[e] = "hand_in" /\ pc' = [pc EXCEPT ![e] = "done"]
          /\ num_people_finished' = num_people_finished + l_num_people_finished[e]
          /\ UNCHANGED l_num_people_finished
      BY <1>5 DEF update_global_num_people_finished, Goto
    <2>2. SumOver(HandedIn(pc', l_num_people_finished)) =
            SumOver(HandedIn(pc, l_num_people_finished))
              + l_num_people_finished[e]
      <3>1. pc \in [Elevators -> {pc[f] : f \in Elevators}]
        BY <1>1
      <3> QED
        BY <1>1, <2>1, <3>1, HandedInOnce
    <2> QED
      BY <1>1, <2>1, <2>2 DEF Counts
  <1> QED
    BY <1>2, <1>3, <1>4, <1>5
       DEF CommonStep, Stop, Wait, Wakeup, people_maker_entry, Tick

(* What the elevators have handed in is not more than they have delivered, *)
(* and that not more than the people that were made.                       *)
LEMMA HandedInAtMost ==
  ASSUME Common, NEW H, person_id \in 0 .. MaxPeople,
         Accounted(queue, H, l_num_people_finished, person_id)
  PROVE  num_people_finished \in 0 .. MaxPeople
  <1> DEFINE l == l_num_people_finished
             h == HandedIn(pc, l)
  <1>1. MaxPeople \in Nat /\ l \in [Elevators -> 0 .. MaxPeople]
    BY SimulationAssumption DEF Common, Delivered
  <1>2. h \in [Elevators -> 0 .. MaxPeople] /\ \A e \in Elevators : h[e] <= l[e]
    BY <1>1 DEF HandedIn
  <1>3. num_people_finished = Total(h, Elevators)
    BY SumIsTotal DEF Common, Counts
  <1>4. /\ IsFiniteSet(Present(queue, H))
        /\ Cardinality(Present(queue, H)) + Total(l, Elevators) = person_id
        /\ person_id \in 0 .. MaxPeople
    BY SumIsTotal DEF Accounted
  <1> HIDE DEF h, l
  <1>5. /\ Total(h, Elevators) \in Nat /\ Total(l, Elevators) \in Nat
        /\ Total(h, Elevators) <= Total(l, Elevators)
    BY <1>1, <1>2, SumIsTotal, TotalCounts, TotalGrows
  <1>6. Cardinality(Present(queue, H)) \in Nat
    BY <1>4, FS_CardinalityType
  <1> QED
    BY <1>1, <1>3, <1>4, <1>5, <1>6

(* Those in the queue and those with the elevators, counted.               *)
LEMMA PresentCounted ==
  ASSUME NEW q \in Seq(People), NEW H, NEW l, NEW n, Accounted(q, H, l, n)
  PROVE  LET carried == UNION {H[e] : e \in Elevators}
         IN  Len(q) + Cardinality(carried) = Cardinality(Present(q, H))
  <1> DEFINE C == UNION {H[e] : e \in Elevators}
             R == Range(q)
  <1>1. Present(q, H) = R \cup C /\ R \cap C = {}
    BY DEF Present, Accounted
  <1>2. IsFiniteSet(R) /\ Cardinality(R) = Len(q)
    BY DistinctLength DEF Accounted
  <1>3. IsFiniteSet(C)
    <2>1. C \subseteq Present(q, H) /\ IsFiniteSet(Present(q, H))
      BY <1>1 DEF Accounted
    <2> QED
      BY <2>1, FS_Subset
  <1> HIDE DEF C, R
  <1>4. Cardinality(C) \in Nat /\ Cardinality(R) \in Nat
    BY <1>2, <1>3, FS_CardinalityType
  <1>5. Cardinality(R \cup C)
          = Cardinality(R) + Cardinality(C) - Cardinality(R \cap C)
    BY <1>2, <1>3, FS_Union
  <1>6. Cardinality(R \cap C) = 0
    BY <1>1, FS_EmptySet
  <1> QED
    BY <1>1, <1>2, <1>4, <1>5, <1>6 DEF C

(* The maker adds the people it makes to the queue and to the accounts.    *)
LEMMA MakerAccounts ==
  ASSUME people_maker_entry, Makes,
         queue \in Seq(People), l_num_people_finished \in Delivered,
         person_id \in 0 .. MaxPeople,
         NEW H, \A e \in Elevators : H[e] \subseteq People,
         Accounted(queue, H, l_num_people_finished, person_id)
  PROVE  /\ queue' \in Seq(People) /\ person_id' \in 0 .. MaxPeople
         /\ UNCHANGED l_num_people_finished
         /\ Accounted(queue', H, l_num_people_finished, person_id')
  <1>1. UNCHANGED l_num_people_finished
    BY DEF people_maker_entry
  <1>2. CASE MakePerson
    <2>1. PICK from \in Floors, to \in Floors :
             /\ from # to
             /\ queue' = Append(queue, [id |-> person_id, from |-> from,
                                        to |-> to])
      BY <1>2 DEF MakePerson, PersonQueue_add_person
    <2> DEFINE p == [id |-> person_id, from |-> from, to |-> to]
    <2>2. person_id < MaxPeople /\ person_id' = person_id + 1
      BY <1>2 DEF MakePerson, Makes, Making
    <2>3. person_id \in Nat /\ person_id' \in 0 .. MaxPeople
      BY <2>2, SimulationAssumption
    <2>4. p \in People /\ p.id = person_id
      BY <2>1, <2>2, <2>3, SimulationAssumption DEF People
    <2> HIDE DEF p
    <2>5. queue' = Append(queue, p)
      BY <2>1 DEF p
    <2>6. Accounted(queue', H, l_num_people_finished, person_id')
      BY <2>2, <2>3, <2>4, <2>5, AccountedArrival
    <2>7. queue' \in Seq(People)
      BY <2>4, <2>5
    <2> QED
      BY <1>1, <2>3, <2>6, <2>7
  <1>3. CASE CheckBeforeMaking \/ CountPerson
    BY <1>1, <1>3 DEF CheckBeforeMaking, CountPerson, queue_vars
  <1> QED
    BY <1>2, <1>3 DEF people_maker_entry

-----------------------------------------------------------------------------
(* The improved elevator: where one may be with whom aboard.  Here loc is  *)
(* its place in the program, f its floor, P who is aboard, d its           *)
(* direction, t the floor it is to move to, B who is boarding, and up      *)
(* whether the time is up.                                                 *)
Labels == StopLabels \cup {"direction", "move", "arrive", "drop", "pop", "board"}

(* The floor to move to is the nearest that anybody aboard wants to go to. *)
IsNearest(t, f, P) ==
  \E p \in P : t = p.to /\ \A q \in P : Distance(f, p.to) <= Distance(f, q.to)

Ahead(x, f, d) == (x - f) * d > 0

Travelling(loc, f, P, d, t, B, up) ==
  /\ loc \in Labels /\ f \in Floors /\ P \subseteq People /\ d \in {-1, 0, 1}
  /\ t \in Floors \cup {-1} /\ B \subseteq People
  /\ B # {} => loc = "board"
  /\ P \cap B = {}
  /\ loc = "direction" => P = {}
  /\ P # {} \/ loc \in {"move", "arrive", "drop", "pop", "board"} => d # 0
  /\ loc \in {"check", "move", "arrive"} /\ ~up /\ P # {} => IsNearest(t, f, P)
  /\ loc \in {"move", "arrive"} => t >= 0
  /\ \A p \in P \cup B : \/ Ahead(p.to, f, d)
                         \/ p.to = f /\ (loc = "drop" \/ up)

(* A floor that is ahead is above an elevator that goes up, and below one  *)
(* that goes down.                                                         *)
LEMMA AheadMeans ==
  ASSUME NEW x \in Floors, NEW f \in Floors, NEW d \in {-1, 0, 1}
  PROVE  /\ d = 1 => (Ahead(x, f, d) <=> x > f)
         /\ d = -1 => (Ahead(x, f, d) <=> x < f)
         /\ d = 0 => ~ Ahead(x, f, d)
  <1>1. x \in Int /\ f \in Int
    BY SimulationAssumption DEF Floors
  <1>2. CASE d = 1
    <2>1. (x - f) * d = x - f
      BY <1>1, <1>2
    <2> QED
      BY <1>1, <1>2, <2>1 DEF Ahead
  <1>3. CASE d = -1
    <2>1. (x - f) * d = f - x
      BY <1>1, <1>3
    <2> QED
      BY <1>1, <1>3, <2>1 DEF Ahead
  <1>4. CASE d = 0
    <2>1. (x - f) * d = 0
      BY <1>1, <1>4
    <2> QED
      BY <1>1, <1>4, <2>1 DEF Ahead
  <1> QED
    BY <1>2, <1>3, <1>4

(* Whoever is made has a floor to wait on and another to go to.            *)
LEMMA PersonFloors ==
  ASSUME NEW p \in People
  PROVE  /\ p.id \in 0 .. MaxPeople - 1 /\ p.from \in Floors /\ p.to \in Floors
         /\ p.from # p.to
  BY DEF People

(* Floors are whole numbers, and so are the distances between them.        *)
LEMMA FloorNumbers ==
  ASSUME NEW f \in Floors, NEW g \in Floors
  PROVE  f \in Int /\ f >= 0 /\ Distance(f, g) \in Nat
  BY SimulationAssumption DEF Floors, Distance

(* Of people aboard, some want to go to the nearest floor.                 *)
LEMMA NearestExists ==
  ASSUME NEW f \in Floors, NEW P \in SUBSET People, P # {}
  PROVE  \E p \in P : \A q \in P : Distance(f, p.to) <= Distance(f, q.to)
  <1> DEFINE T == {Distance(f, p.to) : p \in P}
  <1>1. T \subseteq Nat /\ T # {}
    BY PersonFloors, FloorNumbers
  <1> HIDE DEF T
  <1>2. PICK m \in T : \A n \in T : m <= n
    BY <1>1, LeastNumber
  <1> QED
    BY <1>2 DEF T

(* The next destination is the nearest, and -1 if nobody is aboard.        *)
LEMMA NextDestination ==
  ASSUME NEW f \in Floors, NEW P \in SUBSET People
  PROVE  /\ P = {} => NearestDestination(f, P) = -1
         /\ P # {} => IsNearest(NearestDestination(f, P), f, P)
         /\ NearestDestination(f, P) \in Floors \cup {-1}
  <1>1. CASE P = {}
    BY <1>1 DEF NearestDestination
  <1>2. CASE P # {}
    <2> DEFINE p == CHOOSE p \in P :
                      \A q \in P : Distance(f, p.to) <= Distance(f, q.to)
    <2>1. NearestDestination(f, P) = p.to
      BY <1>2 DEF NearestDestination
    <2>2. p \in P /\ \A q \in P : Distance(f, p.to) <= Distance(f, q.to)
      BY <1>2, NearestExists
    <2> HIDE DEF p
    <2> QED
      BY <1>2, <2>1, <2>2, PersonFloors DEF IsNearest
  <1> QED
    BY <1>1, <1>2

(* Somebody who waits is the one that ChooseDirection finds.               *)
LEMMA NearestWaits ==
  ASSUME NEW f \in Floors, queue \in Seq(People), queue # <<>>
  PROVE  NearestWaiting(f) \in People
  <1> DEFINE away(k) == Distance(f, queue[k].from)
             T == {away(k) : k \in DOMAIN queue}
             IsFirst(k) == \A j \in DOMAIN queue :
                             away(k) < away(j) \/ (away(k) = away(j) /\ k <= j)
  <1>1. DOMAIN queue \subseteq Nat /\ DOMAIN queue # {}
    <2>1. DOMAIN queue = 1 .. Len(queue) /\ Len(queue) \in Nat \ {0}
      OBVIOUS
    <2> QED
      BY <2>1
  <1>2. \A k \in DOMAIN queue : queue[k] \in People
    OBVIOUS
  <1>3. \A k \in DOMAIN queue : away(k) \in Nat
    BY <1>2, PersonFloors, FloorNumbers
  <1>4. \E k \in DOMAIN queue : IsFirst(k)
    <2> HIDE DEF away
    <2>1. T \subseteq Nat /\ T # {}
      BY <1>1, <1>3
    <2> HIDE DEF T
    <2>2. PICK m \in T : \A n \in T : m <= n
      BY <2>1, LeastNumber
    <2> DEFINE U == {k \in DOMAIN queue : away(k) = m}
    <2>3. U \subseteq Nat /\ U # {}
      BY <1>1, <2>2 DEF T
    <2> HIDE DEF U
    <2>4. PICK k \in U : \A j \in U : k <= j
      BY <2>3, LeastNumber
    <2>5. k \in DOMAIN queue /\ away(k) = m
      BY <2>4 DEF U
    <2>6. ASSUME NEW j \in DOMAIN queue
          PROVE  away(k) < away(j) \/ (away(k) = away(j) /\ k <= j)
      <3>1. m <= away(j)
        BY <2>2 DEF T
      <3>2. CASE away(j) = m
        BY <2>4, <2>5, <3>2 DEF U
      <3>3. CASE away(j) # m
        BY <1>3, <2>5, <3>1, <3>3
      <3> QED
        BY <3>2, <3>3
    <2> QED
      BY <2>5, <2>6
  <1>5. NearestWaiting(f) = queue[CHOOSE k \in DOMAIN queue : IsFirst(k)]
    BY DEF NearestWaiting
  <1> HIDE DEF IsFirst
  <1> QED
    BY <1>2, <1>4, <1>5

-----------------------------------------------------------------------------
(* What each step of an elevator makes of where it was.                    *)
(* The end of the time makes nothing worse.                                *)
LEMMA TravellingLate ==
  ASSUME NEW loc, NEW f, NEW P, NEW d, NEW t, NEW B, NEW up, NEW late,
         Travelling(loc, f, P, d, t, B, up), up => late
  PROVE  Travelling(loc, f, P, d, t, B, late)
  BY DEF Travelling

(* The steps that change only the place in the program: the checks of the  *)
(* time, the end of elevator_entry and the start of a move.                *)
LEMMA TravellingOn ==
  ASSUME NEW loc, NEW f, NEW P, NEW d, NEW t, NEW B, NEW up,
         Travelling(loc, f, P, d, t, B, up),
         NEW next,
         \/ /\ loc = "check" /\ ~up
            /\ next = IF P = {} THEN "direction" ELSE "move"
         \/ loc \in {"check", "stop", "signal", "hand_in"}
              /\ next \in {"stop", "signal", "hand_in", "done"}
         \/ loc = "move" /\ next = (IF up THEN "drop" ELSE "arrive")
         \/ loc = "arrive" /\ next = "drop"
         \/ loc = "pop" /\ next = "board"
  PROVE  Travelling(next, f, P, d, t, B, up)
  <1>1. next \in Labels
    BY DEF Labels, StopLabels
  <1>2. IsNearest(t, f, P) => t >= 0
    <2> SUFFICES ASSUME NEW p \in P, t = p.to PROVE t >= 0
      BY DEF IsNearest
    <2> QED
      BY PersonFloors, FloorNumbers DEF Travelling
  <1> QED
    BY <1>1, <1>2 DEF Travelling

(* make_sure_direction finds somebody: nobody is aboard to be led astray.  *)
LEMMA TravellingChosen ==
  ASSUME NEW f, NEW P, NEW d, NEW t, NEW B, NEW up,
         Travelling("direction", f, P, d, t, B, up),
         NEW way \in {1, -1}, NEW u \in Floors
  PROVE  Travelling("move", f, P, way, u, B, up)
  <1>1. P = {} /\ B = {}
    BY DEF Travelling
  <1>2. u >= 0
    BY FloorNumbers, SimulationAssumption DEF Floors
  <1> QED
    BY <1>1, <1>2 DEF Travelling, Labels, StopLabels

(* make_sure_direction finds the time up.                                  *)
LEMMA TravellingGivenUp ==
  ASSUME NEW f, NEW P, NEW d, NEW t, NEW B, NEW up,
         Travelling("direction", f, P, d, t, B, up), up
  PROVE  Travelling("check", f, P, d, -1, B, up)
  <1>1. P = {} /\ B = {}
    BY DEF Travelling
  <1> QED
    BY <1>1 DEF Travelling, Labels, StopLabels

(* Whoever is passed on the way to the nearest destination wants to go     *)
(* further in the same direction.                                          *)
LEMMA NobodyPassed ==
  ASSUME NEW x \in Floors, NEW f \in Floors, NEW t \in Floors,
         NEW d \in {-1, 0, 1}, Ahead(t, f, d), Ahead(x, f, d),
         Distance(f, t) <= Distance(f, x)
  PROVE  x = t \/ Ahead(x, t, d)
  <1>1. x \in Int /\ f \in Int /\ t \in Int
    BY FloorNumbers
  <1>2. CASE d = 1
    BY <1>1, <1>2, AheadMeans DEF Distance
  <1>3. CASE d = -1
    BY <1>1, <1>3, AheadMeans DEF Distance
  <1>4. CASE d = 0
    BY <1>4, AheadMeans
  <1> QED
    BY <1>2, <1>3, <1>4

(* The arrival: at the nearest destination, if there was time.             *)
LEMMA TravellingArrived ==
  ASSUME NEW f, NEW P, NEW d, NEW t, NEW B, NEW up \in BOOLEAN,
         Travelling("arrive", f, P, d, t, B, up), ~ up
  PROVE  Travelling("drop", t, P, d, t, B, up)
  <1>1. /\ P \subseteq People /\ B = {} /\ d \in {-1, 0, 1} /\ f \in Floors
        /\ t \in Floors \cup {-1} /\ t >= 0 /\ d # 0
    BY DEF Travelling
  <1>2. t \in Floors
    BY <1>1
  <1>3. ASSUME NEW q \in P PROVE Ahead(q.to, t, d) \/ q.to = t
    <2>1. PICK p \in P : t = p.to /\ Distance(f, p.to) <= Distance(f, q.to)
      BY DEF Travelling, IsNearest
    <2>2. Ahead(t, f, d) /\ Ahead(q.to, f, d)
      BY <2>1 DEF Travelling
    <2>3. q.to \in Floors /\ Distance(f, t) <= Distance(f, q.to)
      BY <1>1, <2>1, PersonFloors
    <2> QED
      BY <1>1, <1>2, <2>2, <2>3, NobodyPassed
  <1> QED
    BY <1>1, <1>2, <1>3 DEF Travelling, Labels, StopLabels

(* The doors open: those whose floor it is get off, if there is time.      *)
LEMMA TravellingDropped ==
  ASSUME NEW f, NEW P, NEW d, NEW t, NEW B, NEW up \in BOOLEAN,
         Travelling("drop", f, P, d, t, B, up)
  PROVE  LET dropped == IF up THEN {} ELSE {p \in P : p.to = f}
         IN  Travelling("pop", f, P \ dropped, d, t, B, up)
  BY DEF Travelling, Labels, StopLabels

(* Those who go along are taken from the queue: their floor is ahead.      *)
LEMMA TravellingPopped ==
  ASSUME NEW f, NEW P, NEW d, NEW t, NEW B, NEW up,
         Travelling("pop", f, P, d, t, B, up),
         NEW T \in SUBSET People, T \cap P = {},
         \A p \in T : p.from = f /\ (p.to - p.from) * d > 0
  PROVE  Travelling("board", f, P, d, t, T, up)
  <1>1. \A p \in T : Ahead(p.to, f, d)
    BY DEF Ahead
  <1> QED
    BY <1>1 DEF Travelling, Labels, StopLabels

(* The doors close behind those who have come aboard.                      *)
LEMMA TravellingBoarded ==
  ASSUME NEW f, NEW P, NEW d, NEW t, NEW B, NEW up,
         Travelling("board", f, P, d, t, B, up)
  PROVE  /\ B = {} /\ up => Travelling("check", f, P, d, t, B, up)
         /\ Travelling("check", f, P \cup B, d, NearestDestination(f, P \cup B),
                       {}, up)
  <1>1. f \in Floors /\ P \cup B \in SUBSET People
    BY DEF Travelling
  <1>2. Travelling("check", f, P \cup B, d, NearestDestination(f, P \cup B), {},
                   up)
    BY <1>1, NextDestination DEF Travelling, Labels, StopLabels
  <1> QED
    BY <1>2 DEF Travelling, Labels, StopLabels

-----------------------------------------------------------------------------
(* The inductive invariant.  With whom each elevator is, and what the      *)
(* elevators have handed in.                                               *)
Aboard == [e \in Elevators |-> people[e] \cup boarding[e]]

Accounts ==
  /\ queue \in Seq(People) /\ l_num_people_finished \in Delivered
  /\ person_id \in 0 .. MaxPeople
  /\ Accounted(queue, Aboard, l_num_people_finished, person_id)

Travels ==
  /\ pc \in [Elevators -> Labels]
  /\ floor \in [Elevators -> Floors]
  /\ people \in [Elevators -> SUBSET People]
  /\ direction \in [Elevators -> {-1, 0, 1}]
  /\ dest_floor \in [Elevators -> Floors \cup {-1}]
  /\ boarding \in [Elevators -> SUBSET People]
  /\ \A e \in Elevators :
       Travelling(pc[e], floor[e], people[e], direction[e], dest_floor[e],
                  boarding[e], timesup)

IInv == Common /\ Accounts /\ Travels

(* It holds at first.                                                      *)
LEMMA InvariantInit == Init => IInv
  <1> SUFFICES ASSUME Init PROVE IInv
    OBVIOUS
  <1> USE DEF Init, SimulationInit, PersonQueue_make_queue
  <1>1. 0 \in Floors /\ 0 \in 0 .. MaxPeople
    BY SimulationAssumption DEF Floors
  <1>2. Accounts
    <2>1. l_num_people_finished \in [Elevators -> {0}]
      OBVIOUS
    <2>2. \A e \in Elevators : Aboard[e] = {}
      BY DEF Aboard
    <2>3. Accounted(queue, Aboard, l_num_people_finished, person_id)
      BY <2>1, <2>2, AccountedAtFirst
    <2>4. l_num_people_finished \in Delivered
      BY <1>1 DEF Delivered
    <2> QED
      BY <1>1, <2>3, <2>4 DEF Accounts
  <1>3. Common
    BY CommonInit
  <1>4. Travels
    <2>1. ASSUME NEW e \in Elevators
          PROVE  Travelling(pc[e], floor[e], people[e], direction[e],
                            dest_floor[e], boarding[e], timesup)
      BY <1>1 DEF Travelling, Labels, StopLabels
    <2> QED
      BY <1>1, <2>1 DEF Travels, Labels, StopLabels
  <1> QED
    BY <1>2, <1>3, <1>4 DEF IInv

(* The accounts are kept.                                                  *)
LEMMA AccountsStep ==
  ASSUME IInv, [Next]_vars
  PROVE  Accounts'
  <1> USE DEF IInv
  <1>1. CASE /\ UNCHANGED <<queue, people, boarding, l_num_people_finished,
                            person_id>>
    <2>1. Aboard' = Aboard
      BY <1>1 DEF Aboard
    <2> QED
      BY <1>1, <2>1 DEF Accounts
  <1>2. CASE people_maker_entry /\ UNCHANGED elevator_vars
    <2>1. Aboard' = Aboard
      BY <1>2 DEF Aboard, elevator_vars
    <2>2. \A e \in Elevators : Aboard[e] \subseteq People
      BY DEF Aboard, Travels
    <2>3. /\ queue' \in Seq(People) /\ person_id' \in 0 .. MaxPeople
          /\ UNCHANGED l_num_people_finished
          /\ Accounted(queue', Aboard, l_num_people_finished, person_id')
      BY <1>2, <2>2, MakerAccounts DEF Accounts, Common
    <2> QED
      BY <2>1, <2>3 DEF Accounts
  <1>3. ASSUME NEW e \in Elevators, drop_people(e), UNCHANGED person_id
        PROVE  Accounts'
    <2> DEFINE D == IF timesup THEN {} ELSE {p \in people[e] : p.to = floor[e]}
               G == Aboard'
               m == l_num_people_finished'
    <2>1. /\ people' = [people EXCEPT ![e] = @ \ D]
          /\ m = [l_num_people_finished EXCEPT ![e] = @ + Cardinality(D)]
          /\ UNCHANGED <<queue, boarding>>
          /\ pc[e] = "drop"
      BY <1>3 DEF drop_people, queue_vars, Goto
    <2>2. D \subseteq people[e]
      OBVIOUS
    <2> HIDE DEF D
    <2>3. boarding[e] = {}
      BY <2>1 DEF Travels, Travelling
    <2>4. G[e] = Aboard[e] \ D
      BY <2>1, <2>3 DEF Aboard, Travels
    <2>5. ChangedAt(e, G, Aboard)
      BY <2>1 DEF Aboard, Travels, ChangedAt
    <2>6. /\ ChangedAt(e, m, l_num_people_finished)
          /\ m[e] = l_num_people_finished[e] + Cardinality(D)
      BY <2>1, ChangeAt DEF Accounts, Delivered
    <2>7. D \subseteq Aboard[e]
      BY <2>2 DEF Aboard
    <2>8. /\ Accounted(queue, Aboard, l_num_people_finished, person_id)
          /\ l_num_people_finished \in Delivered
          /\ person_id \in 0 .. MaxPeople
      BY DEF Accounts
    <2> HIDE DEF G, m
    <2>9. Accounted(queue, G, m, person_id) /\ m \in Delivered
      BY <2>4, <2>5, <2>6, <2>7, <2>8, AccountedDropped
    <2> QED
      BY <1>3, <2>1, <2>8, <2>9 DEF Accounts, G, m
  <1>4. ASSUME NEW e \in Elevators, PopPeople(e), pc[e] = "pop",
               UNCHANGED <<people, person_id, l_num_people_finished>>
        PROVE  Accounts'
    <2> DEFINE T == {p \in WaitingPeople : GoesAlong(p, e)}
    <2>1. /\ boarding' = [boarding EXCEPT ![e] = T]
          /\ queue' = Without(queue, T)
      BY <1>4 DEF PopPeople
    <2>2. WaitingPeople = Range(queue)
      BY DEF WaitingPeople, Range
    <2>3. T \subseteq Range(queue)
      BY <2>2
    <2> HIDE DEF T
    <2>4. queue \in Seq(People) /\ IsInjective(queue)
      BY DEF Accounts, Accounted
    <2>5. /\ queue' \in Seq(People) /\ Range(queue') = Range(queue) \ T
          /\ IsInjective(queue')
      BY <2>1, <2>4, WithoutLeaves
    <2>6. boarding[e] = {}
      BY <1>4 DEF Travels, Travelling
    <2>7. Aboard'[e] = Aboard[e] \cup T
      BY <1>4, <2>1, <2>6 DEF Aboard, Travels
    <2>8. ChangedAt(e, Aboard', Aboard)
      BY <1>4, <2>1 DEF Aboard, Travels, ChangedAt
    <2>9. Accounted(queue, Aboard, l_num_people_finished, person_id)
      BY DEF Accounts
    <2>10. Accounted(queue', Aboard', l_num_people_finished, person_id)
      BY <2>3, <2>5, <2>7, <2>8, <2>9, AccountedTaken
    <2> QED
      BY <1>4, <2>5, <2>10 DEF Accounts
  <1>5. ASSUME NEW e \in Elevators, letin_people(e), UNCHANGED person_id
        PROVE  Accounts'
    <2>1. UNCHANGED <<queue, l_num_people_finished>>
      BY <1>5 DEF letin_people, queue_vars
    <2>2. \/ UNCHANGED <<people, boarding>>
          \/ /\ people' = [people EXCEPT ![e] = @ \cup boarding[e]]
             /\ boarding' = [boarding EXCEPT ![e] = {}]
      BY <1>5 DEF letin_people
    <2>3. ASSUME NEW f \in Elevators
          PROVE  people'[f] \cup boarding'[f] = people[f] \cup boarding[f]
      <3>1. CASE f = e
        BY <2>2, <3>1 DEF Travels
      <3>2. CASE f # e
        BY <2>2, <3>2 DEF Travels
      <3> QED
        BY <3>1, <3>2
    <2>4. Aboard' = Aboard
      BY <2>3 DEF Aboard
    <2> QED
      BY <1>5, <2>1, <2>4 DEF Accounts
  <1>6. ASSUME NEW e \in Elevators, elevator_entry(e) PROVE Accounts'
    <2> USE DEF queue_vars, maker_vars, elevator_vars
    <2>1. CASE Work(e)
      <3>0. UNCHANGED person_id
        BY <2>1 DEF Work
      <3>1. CASE CheckTime(e) \/ StartMoving(e) \/ Arrive(e)
        BY <1>1, <3>0, <3>1 DEF CheckTime, StartMoving, Arrive
      <3>2. CASE make_sure_direction(e)
        BY <1>1, <3>0, <3>2
           DEF make_sure_direction, TestEmpty, TestTimesUp, ChooseDirection
      <3>3. CASE drop_people(e)
        BY <1>3, <3>0, <3>3
      <3>4. CASE PersonQueue_pop_people(e)
        <4>1. CASE PopPeople(e)
          BY <1>4, <3>0, <3>4, <4>1 DEF PersonQueue_pop_people
        <4>2. CASE ~ PopPeople(e)
          BY <1>1, <3>0, <3>4, <4>2
             DEF PersonQueue_pop_people, TestEmpty, TestTimesUp
        <4> QED
          BY <4>1, <4>2
      <3>5. CASE letin_people(e)
        BY <1>5, <3>0, <3>5
      <3> QED
        BY <2>1, <3>1, <3>2, <3>3, <3>4, <3>5 DEF Work
    <2>2. CASE Stop(e) /\ UNCHANGED elevator_vars
      BY <1>1, <2>2 DEF Stop, SetTimesup, SignalOthers,
                        update_global_num_people_finished,
                        PersonQueue_set_timesup, signal_others
    <2>3. CASE Wait(e) /\ UNCHANGED elevator_vars
      BY <1>1, <2>3 DEF Wait, cv_wait
    <2> QED
      BY <1>6, <2>1, <2>2, <2>3 DEF elevator_entry
  <1>7. CASE Tick /\ UNCHANGED elevator_vars
    BY <1>1, <1>7 DEF Tick, queue_vars, maker_vars, elevator_vars
  <1>8. ASSUME NEW e \in Elevators, Wakeup(e) /\ UNCHANGED elevator_vars
        PROVE  Accounts'
    BY <1>1, <1>8 DEF Wakeup, SpuriousWakeup, maker_vars, elevator_vars
  <1>9. CASE UNCHANGED vars
    BY <1>1, <1>9 DEF vars, queue_vars, maker_vars, elevator_vars
  <1> QED
    BY <1>2, <1>6, <1>7, <1>8, <1>9 DEF Next, Joined

(* The work of an elevator is as above.                                    *)
LEMMA WorkWorks ==
  ASSUME IInv, NEW e \in Elevators, Work(e)
  PROVE  Works(e)
  <1> USE DEF queue_vars
  <1>1. UNCHANGED <<timeOver, maker, person_id, num_people_started,
                    num_people_finished>>
    BY DEF Work, maker_vars
  <1>2. UNCHANGED timesup
    BY DEF Work, CheckTime, make_sure_direction, TestEmpty, TestTimesUp,
           ChooseDirection, StartMoving, Arrive, drop_people,
           PersonQueue_pop_people, PopPeople, letin_people
  <1>3. lock' \in Elevators \cup {NoOne}
    BY DEF Work, CheckTime, make_sure_direction, TestEmpty, TestTimesUp,
           ChooseDirection, StartMoving, Arrive, drop_people,
           PersonQueue_pop_people, PopPeople, letin_people, IInv, Common, Stops
  <1>4. waiting' \subseteq Elevators
    <2>1. cv_signal => waiting' \subseteq Elevators
      BY SignalWakes DEF IInv, Common, Stops
    <2> QED
      BY <2>1
         DEF Work, CheckTime, make_sure_direction, TestEmpty, TestTimesUp,
             ChooseDirection, StartMoving, Arrive, drop_people,
             PersonQueue_pop_people, PopPeople, letin_people, IInv, Common, Stops
  <1>5. \A f \in Elevators \ {e} :
          l_num_people_finished'[f] = l_num_people_finished[f]
    BY DEF Work, CheckTime, make_sure_direction, StartMoving, Arrive,
           drop_people, PersonQueue_pop_people, letin_people,
           IInv, Accounts, Delivered
  <1>6. PICK from, to : /\ pc[e] = from /\ to \in Labels
                        /\ from \notin {"stop", "signal", "hand_in", "done"}
                        /\ to \notin {"signal", "hand_in", "done"}
                        /\ to = "stop" => timeOver
                        /\ pc' = [pc EXCEPT ![e] = to] \/ (pc' = pc /\ to = from)
    BY DEF Work, CheckTime, make_sure_direction, ChooseDirection, StartMoving,
           Arrive, drop_people, PersonQueue_pop_people, PopPeople,
           letin_people, Goto, Labels, StopLabels
  <1>7. pc \in [Elevators -> Labels]
    BY DEF IInv, Travels
  <1>8. /\ pc'[e] = to
        /\ \A f \in Elevators \ {e} : pc'[f] = pc[f]
    BY <1>6, <1>7
  <1> QED
    BY <1>1, <1>2, <1>3, <1>4, <1>5, <1>6, <1>8 DEF Works

(* Every step is, for the maker, the clock and the threads, as above.      *)
LEMMA StepIsCommon ==
  ASSUME IInv, [Next]_vars
  PROVE  CommonStep
  <1>1. ASSUME NEW e \in Elevators, Work(e) PROVE CommonStep
    BY <1>1, WorkWorks DEF CommonStep
  <1> QED
    BY <1>1 DEF CommonStep, Next, elevator_entry, Joined, vars

(* A step of one elevator that has it in order leaves the others so.       *)
LEMMA TravelsAfter ==
  ASSUME IInv, timesup => timesup', NEW e \in Elevators,
         ChangedAt(e, pc', pc), ChangedAt(e, floor', floor),
         ChangedAt(e, people', people), ChangedAt(e, direction', direction),
         ChangedAt(e, dest_floor', dest_floor),
         ChangedAt(e, boarding', boarding),
         Travelling(pc'[e], floor'[e], people'[e], direction'[e],
                    dest_floor'[e], boarding'[e], timesup')
  PROVE  Travels'
  <1>1. ASSUME NEW f \in Elevators
        PROVE  Travelling(pc'[f], floor'[f], people'[f], direction'[f],
                          dest_floor'[f], boarding'[f], timesup')
    <2>1. CASE f = e
      BY <2>1
    <2>2. CASE f # e
      <3>1. Travelling(pc[f], floor[f], people[f], direction[f], dest_floor[f],
                       boarding[f], timesup)
        BY DEF IInv, Travels
      <3>2. Travelling(pc[f], floor[f], people[f], direction[f], dest_floor[f],
                       boarding[f], timesup')
        BY <3>1, TravellingLate
      <3> QED
        BY <2>2, <3>2 DEF ChangedAt
    <2> QED
      BY <2>1, <2>2
  <1>2. \A f \in Elevators :
          /\ pc'[f] \in Labels /\ floor'[f] \in Floors
          /\ people'[f] \in SUBSET People /\ direction'[f] \in {-1, 0, 1}
          /\ dest_floor'[f] \in Floors \cup {-1}
          /\ boarding'[f] \in SUBSET People
    BY <1>1 DEF Travelling
  <1>3. /\ pc' \in [Elevators -> Labels] /\ floor' \in [Elevators -> Floors]
        /\ people' \in [Elevators -> SUBSET People]
    BY <1>2 DEF ChangedAt
  <1>4. /\ direction' \in [Elevators -> {-1, 0, 1}]
        /\ dest_floor' \in [Elevators -> Floors \cup {-1}]
        /\ boarding' \in [Elevators -> SUBSET People]
    BY <1>2 DEF ChangedAt
  <1> QED
    BY <1>1, <1>3, <1>4 DEF Travels

(* One elevator moves on in the program, and nothing else changes but the  *)
(* end of the time.                                                        *)
LEMMA TravelsOn ==
  ASSUME IInv, timesup => timesup', NEW e \in Elevators, NEW next,
         pc' = [pc EXCEPT ![e] = next], UNCHANGED elevator_vars,
         Travelling(next, floor[e], people[e], direction[e], dest_floor[e],
                    boarding[e], timesup)
  PROVE  Travels'
  <1>1. /\ pc \in [Elevators -> Labels] /\ floor \in [Elevators -> Floors]
        /\ people \in [Elevators -> SUBSET People]
        /\ direction \in [Elevators -> {-1, 0, 1}]
        /\ dest_floor \in [Elevators -> Floors \cup {-1}]
        /\ boarding \in [Elevators -> SUBSET People]
    BY DEF IInv, Travels
  <1>2. Travelling(next, floor[e], people[e], direction[e], dest_floor[e],
                   boarding[e], timesup')
    BY TravellingLate
  <1>3. /\ ChangedAt(e, pc', pc) /\ ChangedAt(e, floor', floor)
        /\ ChangedAt(e, people', people) /\ ChangedAt(e, direction', direction)
        /\ ChangedAt(e, dest_floor', dest_floor)
        /\ ChangedAt(e, boarding', boarding)
    BY <1>1, ChangeAt DEF elevator_vars
  <1>4. pc'[e] = next
    BY <1>1
  <1> QED
    BY <1>2, <1>3, <1>4, TravelsAfter DEF elevator_vars

(* The end of the time may come between any two steps.                     *)
LEMMA TravelsWait ==
  ASSUME IInv, timesup => timesup', UNCHANGED <<pc, elevator_vars>>
  PROVE  Travels'
  <1>1. ASSUME NEW f \in Elevators
        PROVE  Travelling(pc[f], floor[f], people[f], direction[f],
                          dest_floor[f], boarding[f], timesup')
    <2>1. Travelling(pc[f], floor[f], people[f], direction[f], dest_floor[f],
                     boarding[f], timesup)
      BY DEF IInv, Travels
    <2> QED
      BY <2>1, TravellingLate
  <1> QED
    BY <1>1 DEF IInv, Travels, elevator_vars

(* Every step of the work of an elevator.                                  *)
LEMMA TravelsWork ==
  ASSUME IInv, NEW e \in Elevators, Work(e)
  PROVE  Travels'
  <1> USE DEF queue_vars
  <1>1. /\ pc \in [Elevators -> Labels] /\ floor \in [Elevators -> Floors]
        /\ people \in [Elevators -> SUBSET People]
        /\ direction \in [Elevators -> {-1, 0, 1}]
        /\ dest_floor \in [Elevators -> Floors \cup {-1}]
        /\ boarding \in [Elevators -> SUBSET People]
    BY DEF IInv, Travels
  <1>2. Travelling(pc[e], floor[e], people[e], direction[e], dest_floor[e],
                   boarding[e], timesup)
    BY DEF IInv, Travels
  <1>3. /\ ChangedAt(e, pc, pc) /\ ChangedAt(e, floor, floor)
        /\ ChangedAt(e, people, people) /\ ChangedAt(e, direction, direction)
        /\ ChangedAt(e, dest_floor, dest_floor)
        /\ ChangedAt(e, boarding, boarding)
    BY <1>1, ChangeAt
  <1>4. timesup \in BOOLEAN /\ (timesup => timeOver) /\ UNCHANGED timesup
    BY WorkWorks DEF Works, IInv, Common, Stops
  <1>5. ASSUME NEW from, NEW to, Goto(e, from, to)
        PROVE  pc[e] = from /\ pc'[e] = to /\ ChangedAt(e, pc', pc)
    BY <1>1, <1>5, ChangeAt DEF Goto
  <1>6. CASE CheckTime(e)
    <2> DEFINE next == IF timeOver THEN "stop"
                       ELSE IF people[e] = {} THEN "direction" ELSE "move"
    <2>1. /\ pc[e] = "check" /\ pc' = [pc EXCEPT ![e] = next]
          /\ UNCHANGED elevator_vars
      BY <1>6 DEF CheckTime, Goto
    <2>2. Travelling(next, floor[e], people[e], direction[e], dest_floor[e],
                     boarding[e], timesup)
      <3>1. CASE timeOver
        BY <1>2, <2>1, <3>1, TravellingOn
      <3>2. CASE ~ timeOver
        BY <1>2, <1>4, <2>1, <3>2, TravellingOn
      <3> QED
        BY <3>1, <3>2
    <2> HIDE DEF next
    <2> QED
      BY <1>4, <2>1, <2>2, TravelsOn
  <1>7. CASE make_sure_direction(e)
    <2>0. pc[e] = "direction"
      BY <1>7 DEF make_sure_direction
    <2>1. CASE TestEmpty(e) /\ UNCHANGED <<pc, elevator_vars>>
      BY <1>4, <2>1, TravelsWait
    <2>2. CASE TestTimesUp(e) /\ ~ ChooseDirection(e)
      <3>1. /\ timesup /\ Goto(e, "direction", "check")
            /\ dest_floor' = [dest_floor EXCEPT ![e] = -1]
            /\ UNCHANGED <<floor, people, direction, boarding>>
        BY <1>7, <2>2 DEF make_sure_direction, TestTimesUp, TestEmpty
      <3>2. ChangedAt(e, dest_floor', dest_floor) /\ dest_floor'[e] = -1
        BY <1>1, <3>1, ChangeAt
      <3>3. Travelling("check", floor[e], people[e], direction[e], -1,
                       boarding[e], timesup)
        BY <1>2, <2>0, <3>1, TravellingGivenUp
      <3> QED
        BY <1>3, <1>4, <1>5, <3>1, <3>2, <3>3, TravelsAfter
    <2>3. CASE ChooseDirection(e)
      <3> DEFINE nearest == NearestWaiting(floor[e])
                 aim == IF nearest.from # floor[e] THEN nearest.from
                        ELSE nearest.to
                 way == Sign(aim - floor[e])
      <3>1. /\ direction' = [direction EXCEPT ![e] = way]
            /\ dest_floor' = [dest_floor EXCEPT ![e] = nearest.from]
            /\ Goto(e, "direction", "move")
            /\ UNCHANGED <<floor, people, boarding>>
        BY <2>3 DEF ChooseDirection
      <3>2. way \in {1, -1}
        BY DEF Sign
      <3>3. nearest.from \in Floors
        <4>1. queue \in Seq(People) /\ queue # <<>> /\ floor[e] \in Floors
          BY <1>1, <2>3 DEF ChooseDirection, TestReady, IInv, Accounts
        <4>2. nearest \in People
          BY <4>1, NearestWaits
        <4> QED
          BY <4>2, PersonFloors
      <3> HIDE DEF nearest, aim, way
      <3>4. Travelling("move", floor[e], people[e], way, nearest.from,
                       boarding[e], timesup)
        BY <1>2, <2>0, <3>2, <3>3, TravellingChosen
      <3>5. /\ ChangedAt(e, direction', direction) /\ direction'[e] = way
            /\ ChangedAt(e, dest_floor', dest_floor)
            /\ dest_floor'[e] = nearest.from
        BY <1>1, <3>1, ChangeAt
      <3> QED
        BY <1>3, <1>4, <1>5, <3>1, <3>4, <3>5, TravelsAfter
    <2> QED
      BY <1>7, <2>1, <2>2, <2>3 DEF make_sure_direction
  <1>8. CASE StartMoving(e)
    <2> DEFINE next == IF timesup THEN "drop" ELSE "arrive"
    <2>1. /\ pc[e] = "move" /\ pc' = [pc EXCEPT ![e] = next]
          /\ UNCHANGED elevator_vars
      BY <1>8 DEF StartMoving, Goto
    <2>2. Travelling(next, floor[e], people[e], direction[e], dest_floor[e],
                     boarding[e], timesup)
      BY <1>2, <2>1, TravellingOn
    <2> HIDE DEF next
    <2> QED
      BY <1>4, <2>1, <2>2, TravelsOn
  <1>9. CASE Arrive(e)
    <2>1. /\ pc[e] = "arrive" /\ Goto(e, "arrive", "drop")
          /\ floor' = IF timesup THEN floor
                      ELSE [floor EXCEPT ![e] = dest_floor[e]]
          /\ UNCHANGED <<people, direction, dest_floor, boarding>>
      BY <1>9 DEF Arrive, Goto
    <2>2. CASE timesup
      <3>1. Travelling("drop", floor[e], people[e], direction[e],
                       dest_floor[e], boarding[e], timesup)
        BY <1>2, <2>1, TravellingOn
      <3> QED
        BY <1>3, <1>4, <1>5, <2>1, <2>2, <3>1, TravelsAfter
    <2>3. CASE ~ timesup
      <3>1. Travelling("drop", dest_floor[e], people[e], direction[e],
                       dest_floor[e], boarding[e], timesup)
        BY <1>2, <1>4, <2>1, <2>3, TravellingArrived
      <3>2. ChangedAt(e, floor', floor) /\ floor'[e] = dest_floor[e]
        BY <1>1, <2>1, <2>3, ChangeAt
      <3> QED
        BY <1>3, <1>4, <1>5, <2>1, <3>1, <3>2, TravelsAfter
    <2> QED
      BY <2>2, <2>3
  <1>10. CASE drop_people(e)
    <2> DEFINE D == IF timesup THEN {} ELSE {p \in people[e] : p.to = floor[e]}
    <2>1. /\ pc[e] = "drop" /\ Goto(e, "drop", "pop")
          /\ people' = [people EXCEPT ![e] = @ \ D]
          /\ UNCHANGED <<floor, direction, dest_floor, boarding>>
      BY <1>10 DEF drop_people, Goto
    <2>2. Travelling("pop", floor[e], people[e] \ D, direction[e],
                     dest_floor[e], boarding[e], timesup)
      BY <1>2, <1>4, <2>1, TravellingDropped
    <2> HIDE DEF D
    <2>3. ChangedAt(e, people', people) /\ people'[e] = people[e] \ D
      BY <1>1, <2>1, ChangeAt
    <2> QED
      BY <1>3, <1>4, <1>5, <2>1, <2>2, <2>3, TravelsAfter
  <1>11. CASE PersonQueue_pop_people(e)
    <2>0. pc[e] = "pop" /\ UNCHANGED <<floor, people, direction, dest_floor>>
      BY <1>11 DEF PersonQueue_pop_people
    <2>1. CASE TestEmpty(e) /\ UNCHANGED <<pc, boarding>>
      BY <1>4, <2>0, <2>1, TravelsWait DEF elevator_vars
    <2>2. CASE Goto(e, "pop", "board") /\ UNCHANGED boarding
      <3>1. Travelling("board", floor[e], people[e], direction[e],
                       dest_floor[e], boarding[e], timesup)
        BY <1>2, <2>0, TravellingOn
      <3> QED
        BY <1>3, <1>4, <1>5, <2>0, <2>2, <3>1, TravelsAfter
    <2>3. CASE PopPeople(e)
      <3> DEFINE T == {p \in WaitingPeople : GoesAlong(p, e)}
      <3>1. boarding' = [boarding EXCEPT ![e] = T] /\ Goto(e, "pop", "board")
        BY <2>3 DEF PopPeople
      <3>2. T \subseteq Range(queue)
        BY DEF WaitingPeople, Range
      <3>3. Range(queue) \subseteq People /\ people[e] \cap Range(queue) = {}
        BY DEF IInv, Accounts, Accounted, Aboard, Range
      <3>4. \A p \in T : p.from = floor[e] /\ (p.to - p.from) * direction[e] > 0
        BY DEF GoesAlong
      <3> HIDE DEF T
      <3>5. T \in SUBSET People /\ T \cap people[e] = {}
        BY <3>2, <3>3
      <3>6. Travelling("board", floor[e], people[e], direction[e],
                       dest_floor[e], T, timesup)
        BY <1>2, <2>0, <3>4, <3>5, TravellingPopped
      <3>7. ChangedAt(e, boarding', boarding) /\ boarding'[e] = T
        BY <1>1, <3>1, ChangeAt
      <3> QED
        BY <1>3, <1>4, <1>5, <2>0, <3>1, <3>6, <3>7, TravelsAfter
    <2> QED
      BY <1>11, <2>1, <2>2, <2>3 DEF PersonQueue_pop_people
  <1>12. CASE letin_people(e)
    <2>0. /\ pc[e] = "board" /\ Goto(e, "board", "check")
          /\ UNCHANGED <<floor, direction>>
      BY <1>12 DEF letin_people, Goto
    <2>1. CASE boarding[e] = {} /\ timesup
      <3>1. UNCHANGED <<people, boarding, dest_floor>>
        BY <1>12, <2>1 DEF letin_people
      <3>2. Travelling("check", floor[e], people[e], direction[e],
                       dest_floor[e], boarding[e], timesup)
        BY <1>2, <2>0, <2>1, TravellingBoarded
      <3> QED
        BY <1>3, <1>4, <1>5, <2>0, <3>1, <3>2, TravelsAfter
    <2>2. CASE ~ (boarding[e] = {} /\ timesup)
      <3> DEFINE P == people[e] \cup boarding[e]
      <3>1. /\ people' = [people EXCEPT ![e] = P]
            /\ boarding' = [boarding EXCEPT ![e] = {}]
            /\ dest_floor' = [dest_floor EXCEPT
                                ![e] = NearestDestination(floor[e], people'[e])]
        BY <1>12, <2>2 DEF letin_people
      <3>2. Travelling("check", floor[e], P, direction[e],
                       NearestDestination(floor[e], P), {}, timesup)
        BY <1>2, <2>0, TravellingBoarded
      <3> HIDE DEF P
      <3>3. ChangedAt(e, people', people) /\ people'[e] = P
        BY <1>1, <3>1, ChangeAt
      <3>4. /\ ChangedAt(e, boarding', boarding) /\ boarding'[e] = {}
            /\ ChangedAt(e, dest_floor', dest_floor)
            /\ dest_floor'[e] = NearestDestination(floor[e], P)
        BY <1>1, <3>1, <3>3, ChangeAt
      <3> QED
        BY <1>3, <1>4, <1>5, <2>0, <3>2, <3>3, <3>4, TravelsAfter
    <2> QED
      BY <2>1, <2>2
  <1> QED
    BY <1>6, <1>7, <1>8, <1>9, <1>10, <1>11, <1>12 DEF Work

(* Every step.                                                             *)
LEMMA TravelsStep ==
  ASSUME IInv, [Next]_vars
  PROVE  Travels'
  <1> USE DEF queue_vars
  <1>1. ASSUME NEW e \in Elevators, Work(e) PROVE Travels'
    BY <1>1, TravelsWork
  <1>2. ASSUME NEW e \in Elevators, Stop(e), UNCHANGED elevator_vars
        PROVE  Travels'
    <2>1. PICK from, to : /\ Goto(e, from, to)
                          /\ from \in {"stop", "signal", "hand_in"}
                          /\ to \in {"signal", "hand_in", "done"}
      BY <1>2 DEF Stop, SetTimesup, SignalOthers,
                  update_global_num_people_finished
    <2>2. timesup => timesup'
      BY <1>2 DEF Stop, SetTimesup, SignalOthers, PersonQueue_set_timesup,
                  signal_others, update_global_num_people_finished
    <2>3. Travelling(from, floor[e], people[e], direction[e], dest_floor[e],
                     boarding[e], timesup)
      BY <2>1 DEF IInv, Travels, Goto
    <2>4. Travelling(to, floor[e], people[e], direction[e], dest_floor[e],
                     boarding[e], timesup)
      BY <2>1, <2>3, TravellingOn
    <2>5. pc' = [pc EXCEPT ![e] = to]
      BY <2>1 DEF Goto
    <2> QED
      BY <1>2, <2>2, <2>4, <2>5, TravelsOn
  <1>3. CASE (timesup => timesup') /\ UNCHANGED <<pc, elevator_vars>>
    BY <1>3, TravelsWait
  <1>4. ASSUME NEW e \in Elevators, Wait(e) \/ Wakeup(e),
               UNCHANGED elevator_vars
        PROVE  Travels'
    BY <1>3, <1>4 DEF Wait, cv_wait, Wakeup, SpuriousWakeup
  <1>5. CASE people_maker_entry /\ UNCHANGED elevator_vars
    BY <1>3, <1>5 DEF people_maker_entry, CheckBeforeMaking, MakePerson,
                      CountPerson, PersonQueue_add_person
  <1>6. CASE Tick /\ UNCHANGED elevator_vars
    BY <1>3, <1>6 DEF Tick
  <1>7. CASE UNCHANGED vars
    BY <1>3, <1>7 DEF vars
  <1> QED
    BY <1>1, <1>2, <1>4, <1>5, <1>6, <1>7 DEF Next, elevator_entry, Joined

-----------------------------------------------------------------------------
(* The invariant is inductive.                                             *)
LEMMA InvariantStep == IInv /\ [Next]_vars => IInv'
  <1> SUFFICES ASSUME IInv, [Next]_vars PROVE IInv'
    OBVIOUS
  <1>1. Accounts' /\ Travels'
    BY AccountsStep, TravelsStep
  <1>2. Makes' /\ Stops' /\ Counts'
    BY StepIsCommon, MakesStep, StopsStep, CountsStep DEF IInv
  <1>3. Common'
    BY <1>1, <1>2, SimulationAssumption DEF Common, Accounts, Travels
  <1> QED
    BY <1>1, <1>3 DEF IInv

(* The type invariant.                                                     *)
LEMMA IInvTypes == IInv => TypeOK
  <1> SUFFICES ASSUME IInv PROVE TypeOK
    OBVIOUS
  <1>1. num_people_finished \in 0 .. MaxPeople
    BY HandedInAtMost DEF IInv, Accounts
  <1>2. num_people_started \in 0 .. MaxPeople
    BY SimulationAssumption DEF IInv, Common, Makes, Making, Accounts
  <1> QED
    BY <1>1, <1>2 DEF IInv, Common, Accounts, Delivered, Makes, Making, Stops, Travels,
                      Labels, TypeOK, SimulationTypeOK

(* The accounts say that nobody is lost or in two places.                  *)
LEMMA IInvConservation == IInv => Conservation
  <1> SUFFICES ASSUME IInv PROVE Conservation
    OBVIOUS
  <1> DEFINE C == UNION {people[e] \cup boarding[e] : e \in Elevators}
  <1>1. /\ queue \in Seq(People)
        /\ Accounted(queue, Aboard, l_num_people_finished, person_id)
    BY DEF IInv, Accounts
  <1>2. \A e \in Elevators : people[e] \cap boarding[e] = {}
    BY DEF IInv, Travels, Travelling
  <1>3. \A e, f \in Elevators :
          e # f => (people[e] \cup boarding[e]) \cap (people[f] \cup boarding[f])
                     = {}
    BY <1>1 DEF Accounted, Aboard
  <1>4. WaitingPeople = Range(queue)
    BY DEF WaitingPeople, Range
  <1>5. \A e \in Elevators :
          (people[e] \cup boarding[e]) \cap WaitingPeople = {}
    BY <1>1, <1>4 DEF Accounted, Aboard
  <1>6. C = UNION {Aboard[e] : e \in Elevators}
    BY DEF Aboard
  <1>7. Len(queue) + Cardinality(C) = Cardinality(Present(queue, Aboard))
    BY <1>1, <1>6, PresentCounted
  <1>8. Cardinality(Present(queue, Aboard)) + SumOver(l_num_people_finished)
          = person_id
    BY <1>1 DEF Accounted
  <1> HIDE DEF C
  <1>9. Len(queue) + Cardinality(C) + SumOver(l_num_people_finished) = person_id
    BY <1>7, <1>8
  <1> QED
    BY <1>2, <1>3, <1>5, <1>9 DEF Conservation, C

(* Everybody aboard has their floor ahead.                                 *)
LEMMA IInvAhead == IInv => PassengersAhead
  BY DEF IInv, Travels, Travelling, Ahead, PassengersAhead

(* No parameter check fails.                                               *)
LEMMA IInvChecks == IInv => NoPerrorExit
  BY DEF IInv, Travels, Travelling, NoPerrorExit

(* When all is done, everybody has been handed in or is still there.       *)
LEMMA IInvTally == IInv => Tally
  <1> SUFFICES ASSUME IInv, AllDone
               PROVE  num_people_started - num_people_finished =
                        Len(queue)
                          + Cardinality(UNION {people[e] : e \in Elevators})
    BY DEF Tally
  <1>1. num_people_started = person_id
    BY DEF AllDone, IInv, Common, Makes, Making
  <1>2. HandedIn(pc, l_num_people_finished) = l_num_people_finished
    BY DEF AllDone, HandedIn, IInv, Accounts, Delivered
  <1>3. num_people_finished = SumOver(l_num_people_finished)
    BY <1>2 DEF IInv, Common, Counts
  <1>4. \A e \in Elevators : boarding[e] = {}
    BY DEF AllDone, IInv, Travels, Travelling
  <1>5. UNION {people[e] \cup boarding[e] : e \in Elevators}
          = UNION {people[e] : e \in Elevators}
    BY <1>4
  <1>6. Len(queue)
          + Cardinality(UNION {people[e] \cup boarding[e] : e \in Elevators})
          + SumOver(l_num_people_finished) = person_id
    BY IInvConservation DEF Conservation
  <1>7. /\ Len(queue) \in Nat
        /\ num_people_finished \in Nat
        /\ person_id \in Nat
    BY HandedInAtMost, SimulationAssumption DEF IInv, Accounts
  <1>8. Cardinality(UNION {people[e] : e \in Elevators}) \in Nat
    <2>1. UNION {people[e] : e \in Elevators} \subseteq Present(queue, Aboard)
      BY DEF Present, Aboard
    <2>2. IsFiniteSet(Present(queue, Aboard))
      BY DEF IInv, Accounts, Accounted
    <2> QED
      BY <2>1, <2>2, FS_Subset, FS_CardinalityType
  <1> DEFINE aboard == Cardinality(UNION {people[e] : e \in Elevators})
             waits == Len(queue)
  <1>9. waits + aboard + num_people_finished = person_id
    BY <1>3, <1>5, <1>6
  <1>10. waits \in Nat /\ aboard \in Nat
    BY <1>7, <1>8
  <1> HIDE DEF aboard, waits
  <1>11. num_people_started - num_people_finished = waits + aboard
    BY <1>1, <1>7, <1>9, <1>10
  <1> QED
    BY <1>11 DEF aboard, waits

(* The inductive invariant of elevator/improved.                           *)
THEOREM Invariant == Spec => []IInv
  <1>1. Init => IInv
    BY InvariantInit
  <1>2. IInv /\ [Next]_vars => IInv'
    BY InvariantStep
  <1> QED
    BY <1>1, <1>2, PTL DEF Spec

(* Every variable of elevator/improved keeps its type: the totals and the  *)
(* counts of the elevators stay within the number of people made.          *)
THEOREM TypeCorrect == Spec => []TypeOK
  BY Invariant, IInvTypes, PTL

(* However many elevators pop the queue, each a part of it: nobody is lost *)
(* and nobody is in two places (elevator.c, people.c).                     *)
THEOREM NobodyIsLost == Spec => []Conservation
  BY Invariant, IInvConservation, PTL

(* Elevators pass nobody's floor, in a building of any height.             *)
THEOREM NobodyIsPassed == Spec => []PassengersAhead
  BY Invariant, IInvAhead, PTL

(* The parameter checks that end the program never fail.                   *)
THEOREM ChecksNeverFail == Spec => []NoPerrorExit
  BY Invariant, IInvChecks, PTL

(* The totals that main prints at the end account for everybody.           *)
THEOREM TallyIsRight == Spec => []Tally
  BY Invariant, IInvTally, PTL

-----------------------------------------------------------------------------
(* Where one may be: at loc in the program, carrying or fetching p, with q *)
(* just popped, and up if the time is up.  Whoever is aboard when the time *)
(* is up stays.                                                            *)
BasicLabels == StopLabels \cup {"pop", "letin", "exit", "depart", "fetch",
                                "pick_up", "carry"}

Carrying(loc, f, p, q, up) ==
  /\ loc \in BasicLabels \ {"exit"} /\ f \in Floors
  /\ p \in People \cup {NoOne} /\ q \in People \cup {NoOne}
  /\ q # NoOne => loc = "letin"
  /\ loc = "letin" /\ q = NoOne => up
  /\ loc \in {"depart", "fetch", "pick_up", "carry"} => p # NoOne
  /\ p # NoOne => loc \in {"depart", "fetch", "pick_up", "carry"} \/ up
  /\ loc \in {"pop", "letin"} => p = NoOne

Held == [e \in Elevators |-> {passenger[e], popped[e]} \ {NoOne}]

BasicAccounts ==
  /\ queue \in Seq(People) /\ l_num_people_finished \in Delivered
  /\ person_id \in 0 .. MaxPeople
  /\ Accounted(queue, Held, l_num_people_finished, person_id)

Carries ==
  /\ pc \in [Elevators -> BasicLabels]
  /\ floor \in [Elevators -> Floors]
  /\ passenger \in [Elevators -> People \cup {NoOne}]
  /\ popped \in [Elevators -> People \cup {NoOne}]
  /\ \A e \in Elevators :
       Carrying(pc[e], floor[e], passenger[e], popped[e], timesup)

BasicInv == Common /\ BasicAccounts /\ Carries

(* It holds at first.                                                      *)
LEMMA BasicInvariantInit == BasicInit => BasicInv
  <1> SUFFICES ASSUME BasicInit PROVE BasicInv
    OBVIOUS
  <1>0. SimulationInit
    BY SimulationAssumption DEF BasicInit
  <1> USE DEF BasicInit, SimulationInit, PersonQueue_make_queue
  <1>1. 0 \in Floors /\ 0 \in 0 .. MaxPeople
    BY SimulationAssumption DEF Floors
  <1>2. BasicAccounts
    <2>1. l_num_people_finished \in [Elevators -> {0}]
      BY <1>0
    <2>2. \A e \in Elevators : Held[e] = {}
      BY DEF Held
    <2>3. Accounted(queue, Held, l_num_people_finished, person_id)
      BY <1>0, <2>1, <2>2, AccountedAtFirst
    <2>4. l_num_people_finished \in Delivered
      BY <1>1, <2>1 DEF Delivered
    <2> QED
      BY <1>0, <1>1, <2>3, <2>4 DEF BasicAccounts
  <1>3. Common
    BY <1>0, CommonInit
  <1>4. Carries
    <2>1. ASSUME NEW e \in Elevators
          PROVE  Carrying(pc[e], floor[e], passenger[e], popped[e], timesup)
      BY <1>0, <1>1 DEF Carrying, BasicLabels, StopLabels
    <2> QED
      BY <1>0, <1>1, <2>1 DEF Carries, BasicLabels, StopLabels
  <1> QED
    BY <1>2, <1>3, <1>4 DEF BasicInv

(* The accounts are kept.                                                  *)
LEMMA BasicAccountsStep ==
  ASSUME BasicInv, [BasicNext]_basic_vars
  PROVE  BasicAccounts'
  <1> USE DEF BasicInv, queue_vars, maker_vars, basic_elevator_vars
  <1>0. /\ Accounted(queue, Held, l_num_people_finished, person_id)
        /\ queue \in Seq(People) /\ l_num_people_finished \in Delivered
        /\ person_id \in 0 .. MaxPeople
    BY DEF BasicAccounts
  <1>1. CASE UNCHANGED <<queue, passenger, popped, l_num_people_finished,
                         person_id>>
    <2>1. Held' = Held
      BY <1>1 DEF Held
    <2> QED
      BY <1>1, <2>1 DEF BasicAccounts
  <1>2. CASE people_maker_entry /\ UNCHANGED basic_elevator_vars
    <2>1. Held' = Held
      BY <1>2 DEF Held
    <2>2. \A e \in Elevators : Held[e] \subseteq People
      BY DEF Held, Carries
    <2>3. /\ queue' \in Seq(People) /\ person_id' \in 0 .. MaxPeople
          /\ UNCHANGED l_num_people_finished
          /\ Accounted(queue', Held, l_num_people_finished, person_id')
      BY <1>0, <1>2, <2>2, MakerAccounts DEF Common
    <2> QED
      BY <1>0, <2>1, <2>3 DEF BasicAccounts
  <1>3. ASSUME NEW e \in Elevators, TakeFirst(e), pc[e] = "pop",
               UNCHANGED <<passenger, person_id, l_num_people_finished>>
        PROVE  BasicAccounts'
    <2> DEFINE p == Head(queue)
               T == {p}
    <2>1. /\ popped' = [popped EXCEPT ![e] = p] /\ queue' = Tail(queue)
          /\ queue # <<>>
      BY <1>3 DEF TakeFirst, TestReady
    <2>2. /\ queue' \in Seq(People) /\ p \in Range(queue) /\ p \in People
          /\ Range(queue') = Range(queue) \ {p} /\ IsInjective(queue')
      BY <1>0, <2>1, DistinctTail DEF Accounted
    <2>3. passenger[e] = NoOne /\ popped[e] = NoOne /\ p # NoOne
      BY <1>3, <2>2, NobodyAssumption DEF Carries, Carrying
    <2> HIDE DEF p
    <2>4. Held'[e] = Held[e] \cup T
      BY <1>3, <2>1, <2>3 DEF Held, Carries
    <2>5. ChangedAt(e, Held', Held)
      BY <1>3, <2>1 DEF Held, Carries, ChangedAt
    <2>6. T \subseteq Range(queue) /\ Range(queue') = Range(queue) \ T
      BY <2>2
    <2> HIDE DEF T
    <2>7. Accounted(queue', Held', l_num_people_finished, person_id)
      BY <1>0, <2>2, <2>4, <2>5, <2>6, AccountedTaken
    <2> QED
      BY <1>0, <1>3, <2>2, <2>7 DEF BasicAccounts
  <1>4. ASSUME NEW e \in Elevators, letin_person(e), UNCHANGED person_id
        PROVE  BasicAccounts'
    <2>1. pc[e] = "letin" /\ UNCHANGED <<queue, l_num_people_finished>>
      BY <1>4 DEF letin_person, Goto
    <2>2. passenger[e] = NoOne
      BY <2>1 DEF Carries, Carrying
    <2>3. \/ UNCHANGED <<passenger, popped>>
          \/ /\ passenger' = [passenger EXCEPT ![e] = popped[e]]
             /\ popped' = [popped EXCEPT ![e] = NoOne]
      BY <1>4 DEF letin_person
    <2>4. ASSUME NEW f \in Elevators
          PROVE  {passenger'[f], popped'[f]} = {passenger[f], popped[f]}
      <3>1. CASE f = e
        BY <2>2, <2>3, <3>1 DEF Carries
      <3>2. CASE f # e
        BY <2>3, <3>2 DEF Carries
      <3> QED
        BY <3>1, <3>2
    <2>5. Held' = Held
      BY <2>4 DEF Held
    <2> QED
      BY <1>4, <2>1, <2>5 DEF BasicAccounts
  <1>5. ASSUME NEW e \in Elevators, DropPerson(e), UNCHANGED person_id
        PROVE  BasicAccounts'
    <2> DEFINE D == {passenger[e]}
               m == l_num_people_finished'
    <2>1. /\ pc[e] = "carry" /\ UNCHANGED <<queue, popped>>
          /\ passenger' = [passenger EXCEPT ![e] = NoOne]
          /\ m = [l_num_people_finished EXCEPT ![e] = @ + 1]
      BY <1>5 DEF DropPerson, Goto
    <2>2. passenger[e] # NoOne /\ popped[e] = NoOne
      BY <2>1 DEF Carries, Carrying
    <2>3. D \subseteq Held[e] /\ Held'[e] = Held[e] \ D
      BY <2>1, <2>2 DEF Held, Carries
    <2>4. ChangedAt(e, Held', Held)
      BY <2>1 DEF Held, Carries, ChangedAt
    <2>5. Cardinality(D) = 1
      BY FS_Singleton
    <2> HIDE DEF D
    <2>6. /\ ChangedAt(e, m, l_num_people_finished)
          /\ m[e] = l_num_people_finished[e] + Cardinality(D)
      BY <1>0, <2>1, <2>5, ChangeAt DEF Delivered
    <2> HIDE DEF m
    <2>7. Accounted(queue, Held', m, person_id) /\ m \in Delivered
      BY <1>0, <2>3, <2>4, <2>6, AccountedDropped
    <2> QED
      BY <1>0, <1>5, <2>1, <2>7 DEF BasicAccounts, m
  <1>6. ASSUME NEW e \in Elevators, basic_elevator_entry(e)
        PROVE  BasicAccounts'
    <2>1. CASE BasicWork(e)
      <3>0. UNCHANGED person_id
        BY <2>1 DEF BasicWork
      <3>1. CASE \/ BasicCheckTime(e) \/ Depart(e) \/ Fetch(e)
                 \/ PickUp(e) \/ TurnedBack(e)
        BY <1>1, <3>0, <3>1
           DEF BasicCheckTime, Depart, Fetch, PickUp,
               TurnedBack
      <3>2. CASE PersonQueue_pop_person(e)
        <4>1. CASE TakeFirst(e) /\ Goto(e, "pop", "letin")
          BY <1>3, <3>0, <3>2, <4>1 DEF PersonQueue_pop_person, Goto
        <4>2. CASE TestEmpty(e) /\ UNCHANGED popped
          BY <1>1, <3>0, <3>2, <4>2
             DEF PersonQueue_pop_person, TestEmpty
        <4>3. CASE /\ TestTimesUp(e) /\ Goto(e, "pop", "letin")
                   /\ popped' = [popped EXCEPT ![e] = NoOne]
          <5>1. popped[e] = NoOne
            BY <4>3 DEF Carries, Carrying, Goto
          <5>2. popped' = popped
            BY <4>3, <5>1 DEF Carries
          <5> QED
            BY <1>1, <3>0, <3>2, <4>3, <5>2
               DEF PersonQueue_pop_person, TestTimesUp
        <4> QED
          BY <3>2, <4>1, <4>2, <4>3
             DEF PersonQueue_pop_person
      <3>3. CASE letin_person(e)
        BY <1>4, <3>0, <3>3
      <3>4. CASE DropPerson(e)
        BY <1>5, <3>0, <3>4
      <3> QED
        BY <2>1, <3>1, <3>2, <3>3, <3>4 DEF BasicWork
    <2>2. CASE Stop(e) /\ UNCHANGED basic_elevator_vars
      BY <1>1, <2>2 DEF Stop, SetTimesup, SignalOthers,
                        update_global_num_people_finished,
                        PersonQueue_set_timesup, signal_others
    <2>3. CASE Wait(e) /\ UNCHANGED basic_elevator_vars
      BY <1>1, <2>3 DEF Wait, cv_wait
    <2> QED
      BY <1>6, <2>1, <2>2, <2>3 DEF basic_elevator_entry
  <1>7. CASE Tick /\ UNCHANGED basic_elevator_vars
    BY <1>1, <1>7 DEF Tick
  <1>8. ASSUME NEW e \in Elevators, Wakeup(e) /\ UNCHANGED basic_elevator_vars
        PROVE  BasicAccounts'
    BY <1>1, <1>8 DEF Wakeup, SpuriousWakeup
  <1>9. CASE UNCHANGED basic_vars
    BY <1>1, <1>9 DEF basic_vars
  <1>10. \E e : e \in Elevators
    BY SimulationAssumption
  <1> QED
    BY <1>2, <1>6, <1>7, <1>8, <1>9, <1>10
       DEF BasicNext, BasicJoined

(* The work of an elevator is as in the other simulation.                  *)
LEMMA BasicWorkWorks ==
  ASSUME BasicInv, NEW e \in Elevators, BasicWork(e)
  PROVE  Works(e)
  <1> USE DEF queue_vars, maker_vars
  <1>1. UNCHANGED <<timeOver, maker, person_id, num_people_started,
                    num_people_finished>>
    BY DEF BasicWork
  <1>2. UNCHANGED timesup /\ lock' \in Elevators \cup {NoOne}
    BY DEF BasicWork, BasicCheckTime, PersonQueue_pop_person, TestEmpty,
           TestTimesUp, TakeFirst, letin_person, Depart,
           Fetch, PickUp, TurnedBack, DropPerson,
           BasicInv, Common, Stops
  <1>3. waiting' \subseteq Elevators
    <2>1. cv_signal => waiting' \subseteq Elevators
      BY SignalWakes DEF BasicInv, Common, Stops
    <2> QED
      BY <2>1
         DEF BasicWork, BasicCheckTime, PersonQueue_pop_person,
             TestEmpty, TestTimesUp, TakeFirst, letin_person,
             Depart, Fetch, PickUp, TurnedBack,
             DropPerson, BasicInv, Common, Stops
  <1>4. \A f \in Elevators \ {e} :
          l_num_people_finished'[f] = l_num_people_finished[f]
    BY DEF BasicWork, BasicCheckTime, PersonQueue_pop_person,
           letin_person, Depart, Fetch, PickUp,
           TurnedBack, DropPerson, BasicInv, Common, Delivered
  <1>5. PICK from, to : /\ pc[e] = from
                        /\ from \notin {"stop", "signal", "hand_in", "done"}
                        /\ to \notin {"signal", "hand_in", "done"}
                        /\ to = "stop" => timeOver
                        /\ pc' = [pc EXCEPT ![e] = to] \/ (pc' = pc /\ to = from)
    BY DEF BasicWork, BasicCheckTime, PersonQueue_pop_person,
           letin_person, Depart, Fetch, PickUp,
           TurnedBack, DropPerson, Goto
  <1>6. pc \in [Elevators -> BasicLabels]
    BY DEF BasicInv, Carries
  <1>7. pc'[e] = to /\ \A f \in Elevators \ {e} : pc'[f] = pc[f]
    BY <1>5, <1>6
  <1> QED
    BY <1>1, <1>2, <1>3, <1>4, <1>5, <1>7 DEF Works

(* Every step is, for the maker, the clock and the threads, as above.      *)
LEMMA BasicStepIsCommon ==
  ASSUME BasicInv, [BasicNext]_basic_vars
  PROVE  CommonStep
  <1>1. ASSUME NEW e \in Elevators, BasicWork(e) PROVE CommonStep
    BY <1>1, BasicWorkWorks DEF CommonStep
  <1>2. ASSUME NEW e \in Elevators,
               \/ Stop(e) \/ Wait(e) \/ Wakeup(e)
               \/ people_maker_entry \/ Tick
        PROVE  CommonStep
    BY <1>2 DEF CommonStep
  <1>3. CASE UNCHANGED basic_vars
    BY <1>3 DEF CommonStep, basic_vars, queue_vars, maker_vars
  <1>4. \E e : e \in Elevators
    BY SimulationAssumption
  <1> QED
    BY <1>1, <1>2, <1>3, <1>4
       DEF BasicNext, basic_elevator_entry, BasicJoined

(* A step of one elevator that has it in order leaves the others so.       *)
LEMMA CarriesAfter ==
  ASSUME BasicInv, timesup => timesup', NEW e \in Elevators,
         ChangedAt(e, pc', pc), ChangedAt(e, floor', floor),
         ChangedAt(e, passenger', passenger), ChangedAt(e, popped', popped),
         Carrying(pc'[e], floor'[e], passenger'[e], popped'[e], timesup')
  PROVE  Carries'
  <1>1. ASSUME NEW f \in Elevators
        PROVE  Carrying(pc'[f], floor'[f], passenger'[f], popped'[f], timesup')
    <2>1. CASE f = e
      BY <2>1
    <2>2. CASE f # e
      <3>1. Carrying(pc[f], floor[f], passenger[f], popped[f], timesup)
        BY DEF BasicInv, Carries
      <3>2. Carrying(pc[f], floor[f], passenger[f], popped[f], timesup')
        BY <3>1 DEF Carrying
      <3> QED
        BY <2>2, <3>2 DEF ChangedAt
    <2> QED
      BY <2>1, <2>2
  <1>2. \A f \in Elevators :
          /\ pc'[f] \in BasicLabels /\ floor'[f] \in Floors
          /\ passenger'[f] \in People \cup {NoOne}
          /\ popped'[f] \in People \cup {NoOne}
    BY <1>1 DEF Carrying
  <1>3. /\ pc' \in [Elevators -> BasicLabels]
        /\ floor' \in [Elevators -> Floors]
        /\ passenger' \in [Elevators -> People \cup {NoOne}]
        /\ popped' \in [Elevators -> People \cup {NoOne}]
    BY <1>2 DEF ChangedAt
  <1> QED
    BY <1>1, <1>3 DEF Carries

(* Every step keeps the elevators in order: one that found nobody finds    *)
(* the time up, and whoever is aboard is carried or stays to the end.      *)
LEMMA CarriesStep ==
  ASSUME BasicInv, [BasicNext]_basic_vars
  PROVE  Carries'
  <1> USE DEF queue_vars, maker_vars, basic_elevator_vars
  <1>1. /\ pc \in [Elevators -> BasicLabels] /\ floor \in [Elevators -> Floors]
        /\ passenger \in [Elevators -> People \cup {NoOne}]
        /\ popped \in [Elevators -> People \cup {NoOne}]
    BY DEF BasicInv, Carries
  <1>2. \A e \in Elevators :
          /\ ChangedAt(e, pc, pc) /\ ChangedAt(e, floor, floor)
          /\ ChangedAt(e, passenger, passenger) /\ ChangedAt(e, popped, popped)
    BY <1>1, ChangeAt
  <1>3. ASSUME NEW e \in Elevators, NEW from, NEW to, Goto(e, from, to)
        PROVE  pc[e] = from /\ pc'[e] = to /\ ChangedAt(e, pc', pc)
    BY <1>1, <1>3, ChangeAt DEF Goto
  <1>4. \A e \in Elevators :
          Carrying(pc[e], floor[e], passenger[e], popped[e], timesup)
    BY DEF BasicInv, Carries
  <1>5. timesup \in BOOLEAN /\ (timesup => timeOver)
    BY DEF BasicInv, Common, Stops
  <1>6. CASE (timesup => timesup') /\ UNCHANGED <<pc, basic_elevator_vars>>
    <2>1. PICK e : e \in Elevators
      BY SimulationAssumption
    <2>2. Carrying(pc[e], floor[e], passenger[e], popped[e], timesup')
      BY <1>4, <1>6, <2>1 DEF Carrying
    <2> QED
      BY <1>2, <1>6, <2>1, <2>2, CarriesAfter
  <1>7. ASSUME NEW e \in Elevators, BasicWork(e) PROVE Carries'
    <2>0. UNCHANGED timesup
      BY <1>7, BasicWorkWorks DEF Works
    <2>1. Carrying(pc[e], floor[e], passenger[e], popped[e], timesup)
      BY <1>4
    <2>2. CASE \/ BasicCheckTime(e) \/ Depart(e) \/ PickUp(e)
               \/ TurnedBack(e)
      <3>1. UNCHANGED <<floor, passenger, popped>>
        BY <2>2 DEF BasicCheckTime, Depart, PickUp,
                    TurnedBack
      <3>2. PICK from, to :
              /\ Goto(e, from, to)
              /\ \/ from = "check" /\ to = IF timeOver THEN "stop" ELSE "pop"
                 \/ from = "depart" /\ to = IF timesup THEN "check" ELSE "fetch"
                 \/ from = "pick_up" /\ to = IF timesup THEN "check" ELSE "carry"
                 \/ from = "carry" /\ timesup /\ to = "check"
        BY <2>2 DEF BasicCheckTime, Depart, PickUp,
                               TurnedBack
      <3>3. Carrying(to, floor[e], passenger[e], popped[e], timesup)
        BY <1>3, <1>5, <2>1, <3>2 DEF Carrying, BasicLabels, StopLabels
      <3> QED
        BY <1>2, <1>3, <2>0, <3>1, <3>2, <3>3, CarriesAfter
    <2>3. CASE PersonQueue_pop_person(e)
      <3>0. UNCHANGED <<floor, passenger>>
        BY <2>3 DEF PersonQueue_pop_person
      <3>1. CASE UNCHANGED <<pc, popped>>
        BY <1>6, <2>0, <3>0, <3>1
      <3>2. CASE /\ TestTimesUp(e) /\ Goto(e, "pop", "letin")
                 /\ popped' = [popped EXCEPT ![e] = NoOne]
        <4>1. ChangedAt(e, popped', popped) /\ popped'[e] = NoOne
          BY <1>1, <3>2, ChangeAt
        <4>2. Carrying("letin", floor[e], passenger[e], NoOne, timesup)
          BY <1>3, <2>1, <3>2
             DEF Carrying, BasicLabels, StopLabels, TestTimesUp
        <4> QED
          BY <1>2, <1>3, <2>0, <3>0, <3>2, <4>1, <4>2, CarriesAfter
      <3>3. CASE TakeFirst(e) /\ Goto(e, "pop", "letin")
        <4> DEFINE p == Head(queue)
        <4>1. popped' = [popped EXCEPT ![e] = p] /\ queue # <<>>
          BY <3>3 DEF TakeFirst, TestReady
        <4>2. p \in People /\ p # NoOne
          BY <4>1, NobodyAssumption DEF BasicInv, BasicAccounts
        <4> HIDE DEF p
        <4>3. ChangedAt(e, popped', popped) /\ popped'[e] = p
          BY <1>1, <4>1, ChangeAt
        <4>4. Carrying("letin", floor[e], passenger[e], p, timesup)
          BY <1>3, <2>1, <3>3, <4>2 DEF Carrying, BasicLabels, StopLabels
        <4> QED
          BY <1>2, <1>3, <2>0, <3>0, <3>3, <4>3, <4>4, CarriesAfter
      <3> QED
        BY <2>3, <3>1, <3>2, <3>3 DEF PersonQueue_pop_person
    <2>4. CASE letin_person(e)
      <3>0. UNCHANGED floor
        BY <2>4 DEF letin_person
      <3>1. CASE popped[e] = NoOne
        <4>1. /\ UNCHANGED <<passenger, popped>>
              /\ Goto(e, "letin", IF timesup THEN "check" ELSE "exit")
          BY <2>4, <3>1 DEF letin_person
        <4>2. timesup /\ Goto(e, "letin", "check")
          BY <1>3, <2>1, <3>1, <4>1 DEF Carrying
        <4>3. Carrying("check", floor[e], passenger[e], popped[e], timesup)
          BY <2>1, <3>1, <4>2 DEF Carrying, BasicLabels, StopLabels
        <4> QED
          BY <1>2, <1>3, <2>0, <3>0, <4>1, <4>2, <4>3, CarriesAfter
      <3>2. CASE popped[e] # NoOne
        <4> DEFINE p == popped[e]
        <4>1. /\ Goto(e, "letin", "depart")
              /\ passenger' = [passenger EXCEPT ![e] = p]
              /\ popped' = [popped EXCEPT ![e] = NoOne]
          BY <2>4, <3>2 DEF letin_person
        <4>2. Carrying("depart", floor[e], p, NoOne, timesup)
          BY <2>1, <3>2 DEF Carrying, BasicLabels, StopLabels
        <4> HIDE DEF p
        <4>3. /\ ChangedAt(e, passenger', passenger) /\ passenger'[e] = p
              /\ ChangedAt(e, popped', popped) /\ popped'[e] = NoOne
          BY <1>1, <4>1, ChangeAt
        <4> QED
          BY <1>2, <1>3, <2>0, <3>0, <4>1, <4>2, <4>3, CarriesAfter
      <3> QED
        BY <3>1, <3>2
    <2>5. CASE Fetch(e)
      <3> DEFINE to == IF timesup THEN "check" ELSE "pick_up"
                 f == passenger[e].from
      <3>1. /\ Goto(e, "fetch", to) /\ UNCHANGED <<passenger, popped>>
            /\ floor' = [floor EXCEPT ![e] = f]
        BY <2>5 DEF Fetch
      <3>2. passenger[e] \in People
        BY <1>3, <2>1, <3>1 DEF Carrying
      <3>3. f \in Floors
        BY <3>2, PersonFloors
      <3>4. Carrying(to, f, passenger[e], popped[e], timesup)
        <4> HIDE DEF f
        <4> QED
          BY <1>3, <2>1, <3>1, <3>3 DEF Carrying, BasicLabels, StopLabels
      <3> HIDE DEF to, f
      <3>5. ChangedAt(e, floor', floor) /\ floor'[e] = f
        BY <1>1, <3>1, ChangeAt
      <3> QED
        BY <1>2, <1>3, <2>0, <3>1, <3>4, <3>5, CarriesAfter
    <2>6. CASE DropPerson(e)
      <3> DEFINE f == passenger[e].to
      <3>1. /\ Goto(e, "carry", "check") /\ UNCHANGED popped
            /\ floor' = [floor EXCEPT ![e] = f]
            /\ passenger' = [passenger EXCEPT ![e] = NoOne]
        BY <2>6 DEF DropPerson
      <3>2. passenger[e] \in People
        BY <1>3, <2>1, <3>1 DEF Carrying
      <3>3. f \in Floors
        BY <3>2, PersonFloors
      <3> HIDE DEF f
      <3>4. Carrying("check", f, NoOne, popped[e], timesup)
        BY <1>3, <2>1, <3>1, <3>3 DEF Carrying, BasicLabels, StopLabels
      <3>5. /\ ChangedAt(e, floor', floor) /\ floor'[e] = f
            /\ ChangedAt(e, passenger', passenger) /\ passenger'[e] = NoOne
        BY <1>1, <3>1, ChangeAt
      <3> QED
        BY <1>2, <1>3, <2>0, <3>1, <3>4, <3>5, CarriesAfter
    <2> QED
      BY <1>7, <2>2, <2>3, <2>4, <2>5, <2>6 DEF BasicWork
  <1>8. ASSUME NEW e \in Elevators, Stop(e), UNCHANGED basic_elevator_vars
        PROVE  Carries'
    <2>1. PICK from, to : /\ Goto(e, from, to)
                          /\ from \in {"stop", "signal", "hand_in"}
                          /\ to \in {"signal", "hand_in", "done"}
      BY <1>8 DEF Stop, SetTimesup, SignalOthers,
                  update_global_num_people_finished
    <2>2. timesup => timesup'
      BY <1>8 DEF Stop, SetTimesup, SignalOthers, PersonQueue_set_timesup,
                  signal_others, update_global_num_people_finished
    <2>3. Carrying(to, floor[e], passenger[e], popped[e], timesup')
      BY <1>3, <1>4, <2>1, <2>2 DEF Carrying, BasicLabels, StopLabels
    <2> QED
      BY <1>2, <1>3, <1>8, <2>1, <2>2, <2>3, CarriesAfter
  <1>9. ASSUME NEW e \in Elevators, Wait(e) \/ Wakeup(e),
               UNCHANGED basic_elevator_vars
        PROVE  Carries'
    BY <1>6, <1>9 DEF Wait, cv_wait, Wakeup, SpuriousWakeup
  <1>10. CASE people_maker_entry /\ UNCHANGED basic_elevator_vars
    BY <1>6, <1>10 DEF people_maker_entry, CheckBeforeMaking, MakePerson,
                       CountPerson, PersonQueue_add_person
  <1>11. CASE Tick /\ UNCHANGED basic_elevator_vars
    BY <1>6, <1>11 DEF Tick
  <1>12. CASE UNCHANGED basic_vars
    BY <1>6, <1>12 DEF basic_vars
  <1>13. \E e : e \in Elevators
    BY SimulationAssumption
  <1> QED
    BY <1>7, <1>8, <1>9, <1>10, <1>11, <1>12, <1>13
       DEF BasicNext, basic_elevator_entry, BasicJoined

(* The invariant is inductive.                                             *)
LEMMA BasicInvariantStep == BasicInv /\ [BasicNext]_basic_vars => BasicInv'
  <1> SUFFICES ASSUME BasicInv, [BasicNext]_basic_vars PROVE BasicInv'
    OBVIOUS
  <1>1. BasicAccounts' /\ Carries'
    BY BasicAccountsStep, CarriesStep
  <1>2. Makes' /\ Stops' /\ Counts'
    BY BasicStepIsCommon, MakesStep, StopsStep, CountsStep DEF BasicInv
  <1>3. Common'
    BY <1>1, <1>2, SimulationAssumption DEF Common, BasicAccounts, Carries
  <1> QED
    BY <1>1, <1>3 DEF BasicInv

(* The type invariant.                                                     *)
LEMMA BasicInvTypes == BasicInv => BasicTypeOK
  <1> SUFFICES ASSUME BasicInv PROVE BasicTypeOK
    OBVIOUS
  <1>1. num_people_finished \in 0 .. MaxPeople
    BY HandedInAtMost DEF BasicInv, BasicAccounts
  <1>2. num_people_started \in 0 .. MaxPeople
    BY SimulationAssumption DEF BasicInv, Common, Makes, Making, BasicAccounts
  <1>3. SimulationTypeOK
    BY <1>1, <1>2
       DEF BasicInv, Common, BasicAccounts, Delivered, Makes, Making, Stops,
           SimulationTypeOK
  <1> QED
    BY <1>3
       DEF BasicInv, Carries, BasicLabels, BasicTypeOK

(* The accounts say that nobody is lost or in two places.                  *)
LEMMA BasicInvConservation == BasicInv => BasicConservation
  <1> SUFFICES ASSUME BasicInv PROVE BasicConservation
    OBVIOUS
  <1> DEFINE held(e) == {passenger[e], popped[e]} \ {NoOne}
             C == UNION {held(e) : e \in Elevators}
  <1>1. /\ queue \in Seq(People)
        /\ Accounted(queue, Held, l_num_people_finished, person_id)
    BY DEF BasicInv, BasicAccounts
  <1>2. \A e \in Elevators : Held[e] = held(e)
    BY DEF Held
  <1>3. WaitingPeople = Range(queue)
    BY DEF WaitingPeople, Range
  <1>4. C = UNION {Held[e] : e \in Elevators}
    BY <1>2
  <1> HIDE DEF held
  <1>5. \A e, f \in Elevators : e # f => held(e) \cap held(f) = {}
    BY <1>1, <1>2 DEF Accounted
  <1>6. \A e \in Elevators : held(e) \cap WaitingPeople = {}
    BY <1>1, <1>2, <1>3 DEF Accounted
  <1> HIDE DEF C
  <1>7. Len(queue) + Cardinality(C) = Cardinality(Present(queue, Held))
    BY <1>1, <1>4, PresentCounted
  <1>8. Cardinality(Present(queue, Held)) + SumOver(l_num_people_finished)
          = person_id
    BY <1>1 DEF Accounted
  <1>9. Len(queue) + Cardinality(C) + SumOver(l_num_people_finished)
          = person_id
    BY <1>7, <1>8
  <1> QED
    BY <1>5, <1>6, <1>9 DEF BasicConservation, C, held

(* Who got nobody leaves with the time, and nobody aboard is forgotten.    *)
LEMMA BasicInvLetin == BasicInv => LetinIsSafe
  BY DEF BasicInv, Carries, Carrying, LetinIsSafe

(* The inductive invariant of elevator/basic.                              *)
THEOREM BasicInvariant == BasicSpec => []BasicInv
  <1>1. BasicInit => BasicInv
    BY BasicInvariantInit
  <1>2. BasicInv /\ [BasicNext]_basic_vars => BasicInv'
    BY BasicInvariantStep
  <1> QED
    BY <1>1, <1>2, PTL DEF BasicSpec

(* Every variable of elevator/basic keeps its type.                        *)
THEOREM BasicTypeCorrect == BasicSpec => []BasicTypeOK
  BY BasicInvariant, BasicInvTypes, PTL

(* However many elevators fetch people one by one: nobody is lost and      *)
(* nobody is in two places (elevator.c, people.c of elevator/basic).       *)
THEOREM BasicNobodyIsLost == BasicSpec => []BasicConservation
  BY BasicInvariant, BasicInvConservation, PTL

(* letin_person never ends the program, and takes nobody in while somebody *)
(* is aboard.                                                              *)
THEOREM LetinAlwaysSafe == BasicSpec => []LetinIsSafe
  BY BasicInvariant, BasicInvLetin, PTL

=============================================================================
