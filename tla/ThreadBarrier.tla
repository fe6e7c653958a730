----------------------------- MODULE ThreadBarrier ----------------------------
(***************************************************************************)
(* vis_receive/src/thread_barrier.c: a barrier made of a counter, a        *)
(* generation number and a condition variable.  A thread runs              *)
(* barrier_wait() under the mutex except while it sleeps, so a call is at  *)
(* most two kinds of steps: its arrival, and its return.                   *)
(***************************************************************************)
EXTENDS Integers, FiniteSets

CONSTANTS
    NumThreads,  \* num_threads
    IterMod      \* the generation wraps: 2^32 for an unsigned int

ASSUME BarrierAssumption ==
    /\ NumThreads \in Nat \ {0}
    /\ IterMod \in Nat \ {0, 1}

VARIABLES
    count,   \* how many threads are still to come
    iter,    \* the current generation
    seen,    \* seen[t]: the generation t has met (the local i), or Outside
    asleep   \* threads in pthread_cond_wait

barrierVars == <<count, iter, seen, asleep>>

Threads == 0 .. NumThreads - 1
Generations == 0 .. IterMod - 1
Outside == -1

BarrierTypeOK ==
    /\ count \in 1 .. NumThreads
    /\ iter \in Generations
    /\ seen \in [Threads -> Generations \union {Outside}]
    /\ asleep \subseteq Threads

(* barrier_create                                                           *)
BarrierInit ==
    /\ count = NumThreads
    /\ iter = 0
    /\ seen = [t \in Threads |-> Outside]
    /\ asleep = {}

ArriveEarly(t) ==
    /\ seen[t] = Outside
    /\ count # 1
    /\ count' = count - 1
    /\ seen' = [seen EXCEPT ![t] = iter]
    /\ asleep' = asleep \union {t}
    /\ UNCHANGED iter

(* The last thread starts the next generation, wakes all others and returns *)
(* at once.                                                                 *)
ArriveLast(t) ==
    /\ seen[t] = Outside
    /\ count = 1
    /\ count' = NumThreads
    /\ iter' = (iter + 1) % IterMod
    /\ asleep' = {}
    /\ UNCHANGED seen

(* A variant that does not look at the generation again.                    *)
LeaveUnchecked(t) ==
    /\ seen[t] # Outside
    /\ t \notin asleep
    /\ seen' = [seen EXCEPT ![t] = Outside]
    /\ UNCHANGED <<count, iter, asleep>>

Leave(t) ==
    /\ seen[t] # Outside
    /\ t \notin asleep
    /\ seen[t] # iter
    /\ seen' = [seen EXCEPT ![t] = Outside]
    /\ UNCHANGED <<count, iter, asleep>>

(* pthread_cond_wait may return without a cause; the loop sleeps again.     *)
WakeForNothing(t) ==
    /\ t \in asleep
    /\ asleep' = asleep \ {t}
    /\ UNCHANGED <<count, iter, seen>>

SleepAgain(t) ==
    /\ seen[t] = iter
    /\ t \notin asleep
    /\ asleep' = asleep \union {t}
    /\ UNCHANGED <<count, iter, seen>>

-----------------------------------------------------------------------------
(* Threads that have come to the current generation.                        *)
Here == {t \in Threads : seen[t] = iter}

Abstract == INSTANCE Barrier WITH here <- Here

(* The barrier of the receiver is a barrier: whatever the threads do        *)
(* between their calls, nobody leaves before everybody has come, although a *)
(* fast thread may come again before a slow one has left.                   *)
ImplementsBarrier == Abstract!Spec
=============================================================================
