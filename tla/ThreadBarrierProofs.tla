-------------------------- MODULE ThreadBarrierProofs -------------------------
(***************************************************************************)
(* Every step of a thread in barrier_wait is a step of the abstract        *)
(* barrier, or none, for any number of threads and any width of the        *)
(* generation number.                                                      *)
(***************************************************************************)
EXTENDS ThreadBarrier, FiniteSetTheorems, TLAPS

BarrierStep(t) ==
    ArriveEarly(t) \/ ArriveLast(t) \/ Leave(t) \/ WakeForNothing(t) \/ SleepAgain(t)

(* The counter counts the threads that are still to come.                   *)
BarrierInv ==
    /\ BarrierTypeOK
    /\ count + Cardinality(Here) = NumThreads

LEMMA ThreadsFinite ==
    /\ IsFiniteSet(Threads)
    /\ Cardinality(Threads) = NumThreads
PROOF
<1>1. /\ IsFiniteSet(0 .. NumThreads - 1)
      /\ Cardinality(0 .. NumThreads - 1) =
           IF 0 > NumThreads - 1 THEN 0 ELSE (NumThreads - 1) - 0 + 1
  BY FS_Interval, BarrierAssumption
<1> QED
  BY <1>1, BarrierAssumption DEF Threads

LEMMA HereFinite ==
    /\ Here \subseteq Threads
    /\ IsFiniteSet(Here)
    /\ Cardinality(Here) \in Nat
PROOF
<1>1. Here \subseteq Threads
  BY DEF Here
<1>2. IsFiniteSet(Here)
  BY <1>1, ThreadsFinite, FS_Subset
<1> QED
  BY <1>1, <1>2, FS_CardinalityType

LEMMA BarrierStarts ==
    ASSUME BarrierInit
    PROVE  BarrierInv /\ Here = {}
PROOF
<1>1. BarrierTypeOK
  BY BarrierAssumption DEF BarrierInit, BarrierTypeOK, Generations
<1>2. Here = {}
  BY DEF BarrierInit, Here, Outside
<1> QED
  BY <1>1, <1>2, FS_EmptySet, BarrierAssumption DEF BarrierInv, BarrierInit

(* A generation is neither Outside nor the one that follows it.             *)
LEMMA NextGeneration ==
    ASSUME NEW g \in Generations
    PROVE  /\ (g + 1) % IterMod \in Generations
           /\ (g + 1) % IterMod # g
           /\ g # Outside
           /\ Outside \notin Generations
PROOF
<1>1. CASE g + 1 = IterMod
  <2>1. (g + 1) % IterMod = 0
    BY <1>1, BarrierAssumption DEF Generations
  <2> QED
    BY <1>1, <2>1, BarrierAssumption DEF Generations, Outside
<1>2. CASE g + 1 < IterMod
  <2>1. (g + 1) % IterMod = g + 1
    BY <1>2, BarrierAssumption DEF Generations
  <2> QED
    BY <1>2, <2>1, BarrierAssumption DEF Generations, Outside
<1> QED
  BY <1>1, <1>2, BarrierAssumption DEF Generations

(* The last thread to come finds all others there.                          *)
LEMMA LastFindsAll ==
    ASSUME BarrierInv, NEW t \in Threads, ArriveLast(t)
    PROVE  /\ t \notin Here
           /\ Here \union {t} = Threads
           /\ Here' = {}
PROOF
<1> USE DEF BarrierInv
<1>1. t \notin Here
  BY NextGeneration DEF ArriveLast, Here, BarrierTypeOK
<1>2. Cardinality(Here \union {t}) = NumThreads
  <2>1. Cardinality(Here \union {t}) = Cardinality(Here) + 1
    BY <1>1, HereFinite, FS_AddElement
  <2> QED
    BY <2>1, HereFinite, BarrierAssumption DEF ArriveLast
<1>3. Here \union {t} = Threads
  <2>1. Here \union {t} \subseteq Threads
    BY HereFinite
  <2> QED
    BY <2>1, <1>2, ThreadsFinite, FS_Subset
<1>4. Here' = {}
  <2> SUFFICES ASSUME NEW u \in Threads, seen[u] = iter'
               PROVE  FALSE
    BY DEF Here, ArriveLast
  <2>1. iter' # iter /\ iter' # Outside
    BY NextGeneration DEF ArriveLast, BarrierTypeOK
  <2>2. CASE u = t
    BY <2>1, <2>2 DEF ArriveLast
  <2>3. CASE u \in Here
    BY <2>1, <2>3 DEF Here
  <2> QED
    BY <1>3, <2>2, <2>3
<1> QED
  BY <1>1, <1>3, <1>4

LEMMA BarrierStepRefines ==
    ASSUME BarrierInv, NEW t \in Threads, BarrierStep(t)
    PROVE  /\ BarrierInv'
           /\ Abstract!Next \/ UNCHANGED Here
PROOF
<1> USE DEF BarrierInv
<1>1. CASE ArriveEarly(t)
  <2>1. t \notin Here /\ Here' = Here \union {t}
    BY <1>1, NextGeneration DEF ArriveEarly, Here, BarrierTypeOK
  <2>2. Cardinality(Here') = Cardinality(Here) + 1
    BY <2>1, HereFinite, FS_AddElement
  <2>3. BarrierTypeOK'
    <3>1. count' \in 1 .. NumThreads
      BY <1>1, BarrierAssumption DEF ArriveEarly, BarrierTypeOK
    <3>2. seen' \in [Threads -> Generations \union {Outside}]
      BY <1>1 DEF ArriveEarly, BarrierTypeOK
    <3> QED
      BY <1>1, <3>1, <3>2 DEF ArriveEarly, BarrierTypeOK
  <2>4. count' + Cardinality(Here)' = NumThreads
    BY <1>1, <2>2, HereFinite, BarrierAssumption DEF ArriveEarly, BarrierTypeOK
  <2>5. Here' # Threads
    <3>1. Cardinality(Here') # NumThreads
      BY <2>3, <2>4, <2>2, HereFinite, BarrierAssumption DEF BarrierTypeOK
    <3> QED
      BY <3>1, ThreadsFinite
  <2>6. Abstract!Come(t)
    BY <2>1, <2>5 DEF Abstract!Come
  <2> QED
    BY <2>3, <2>4, <2>6 DEF Abstract!Next
<1>2. CASE ArriveLast(t)
  <2>1. t \notin Here /\ Here \union {t} = Threads /\ Here' = {}
    BY <1>2, LastFindsAll
  <2>2. BarrierTypeOK'
    BY <1>2, NextGeneration, BarrierAssumption DEF ArriveLast, BarrierTypeOK
  <2>3. count' + Cardinality(Here)' = NumThreads
    BY <1>2, <2>1, FS_EmptySet, BarrierAssumption DEF ArriveLast
  <2>4. Abstract!LetGo(t)
    BY <2>1 DEF Abstract!LetGo
  <2> QED
    BY <2>2, <2>3, <2>4 DEF Abstract!Next
<1>3. CASE Leave(t)
  <2>1. Here' = Here
    BY <1>3, NextGeneration DEF Leave, Here, BarrierTypeOK
  <2>2. BarrierTypeOK'
    BY <1>3 DEF Leave, BarrierTypeOK
  <2> QED
    BY <1>3, <2>1, <2>2 DEF Leave
<1>4. CASE WakeForNothing(t) \/ SleepAgain(t)
  <2>1. UNCHANGED <<count, iter, seen>> /\ asleep' \subseteq Threads
    BY <1>4 DEF WakeForNothing, SleepAgain, BarrierTypeOK
  <2>2. Here' = Here
    BY <2>1 DEF Here
  <2> QED
    BY <2>1, <2>2 DEF BarrierTypeOK
<1> QED
  BY <1>1, <1>2, <1>3, <1>4 DEF BarrierStep

LEMMA BarrierStutter ==
    ASSUME BarrierInv, UNCHANGED barrierVars
    PROVE  BarrierInv' /\ UNCHANGED Here
PROOF
<1>1. UNCHANGED Here
  BY DEF barrierVars, Here
<1> QED
  BY <1>1 DEF barrierVars, BarrierInv, BarrierTypeOK
=============================================================================
