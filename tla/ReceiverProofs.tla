---------------------------- MODULE ReceiverProofs ----------------------------
(***************************************************************************)
(* Proofs about Receiver: its barrier is one, and what the barrier and the *)
(* locked flag of the buffers protect.                                     *)
(***************************************************************************)
EXTENDS Receiver, ThreadBarrierProofs, SequenceTheorems

(* Where a thread is with respect to the two barriers of the loop: in the   *)
(* second part from the moment it is let go by the first barrier until it   *)
(* is let go by the second, even if it has not woken up yet.                *)
LetGo(t) == seen[t] \notin {Outside, iter}

SecondPart(t) ==
    \/ at[t] \in {"check", "lock", "count"}
    \/ at[t] = "sync1" /\ LetGo(t)
    \/ at[t] = "sync2" /\ ~LetGo(t)

(* All threads are in the same part.                                        *)
SameSide ==
    /\ \A t, u \in Threads : SecondPart(t) <=> SecondPart(u)
    /\ \A t \in Threads : seen[t] # Outside => Waits(t)
    /\ \A t \in Threads : at[t] \in {"check", "lock", "count"} => t = 0

(* The targets of threads and the heap they were found for.                 *)
TargetsOK ==
    /\ \A t \in Threads : at[t] = "decode" => visiting[t] \in Streams
    /\ \A t \in Threads : at[t] = "assign" => heapOf[t] \in Heaps
    /\ \A t \in Threads : at[t] = "copy" => heapOf[t] \in Heaps
    /\ \A t \in Threads : at[t] \in {"assign", "copy"} => visiting[t] \in Streams
    /\ \A t \in Threads : at[t] = "check" => target[t] \in 1 .. Len(buffers) + 1
    /\ \A t \in Threads : at[t] = "lock" => target[t] \in Indices

(* The tasks of the pool are buffers.                                       *)
TasksOK ==
    /\ \A k \in DOMAIN taskList : taskList[k] \in Indices
    /\ \A w \in Workers : Runs(w) => job[w] \in Indices
    /\ \A w \in Workers : w \in cleared => Runs(w)

(* Ended streams are counted from zero.                                     *)
CountOK ==
    /\ \A t \in Threads : at[t] = "count" => completed = 0
    /\ completed = NumStreams => done = Streams

(* The main thread frees nothing before the others have ended.              *)
MainOK ==
    /\ main # "join" => \A t \in Threads : at[t] = "end"
    /\ main = "freed" => \A w \in Workers : worker[w] = "ended"

IInv ==
    /\ TypeOK
    /\ BarrierInv
    /\ SameSide
    /\ TargetsOK
    /\ TasksOK
    /\ CountOK
    /\ MainOK
    /\ BlocksUntilDone
    /\ CopiesAreSafe
    /\ LockedMeansQueued

(* The actions of a receiver thread, those that leave the pool, the barrier *)
(* and the buffers alone first.                                             *)
Quiet(t) ==
    \/ Test(t) \/ ReceiveDatagram(t) \/ NextStream(t) \/ AllVisited(t)
    \/ DecodeStop(t) \/ DumpPacket(t) \/ CopyPacket(t)
    \/ CheckBuffer(t) \/ AllChecked(t) \/ CountStreams(t)

Stores(t) ==
    AssignBuffer(t) \/ \E heap \in Heaps : DecodePacket(t, heap)

(* Every step is one of these.                                              *)
LEMMA StepKinds ==
    ASSUME [Next]_vars
    PROVE  \/ \E t \in Threads : Quiet(t) \/ Stores(t) \/ Synchronise(t) \/ LockBuffer(t)
           \/ \E w \in Workers : WriterThread(w)
           \/ MainThread
           \/ TimePasses
           \/ SpuriousWakeUp
           \/ UNCHANGED vars
PROOF
<1> USE DEF Quiet, Stores
<1>1. CASE \E t \in Threads : Proceed(t)
  BY <1>1 DEF Proceed
<1>2. CASE \E t \in Threads : Decode(t)
  BY <1>2 DEF Decode
<1> QED
  BY <1>1, <1>2 DEF Next, Ended

-----------------------------------------------------------------------------
(* The barrier                                                              *)
LEMMA BarrierSteps ==
    ASSUME [Next]_vars
    PROVE  (\E t \in Threads : BarrierStep(t)) \/ UNCHANGED barrierVars
PROOF
<1>1. CASE \E t \in Threads : Quiet(t) \/ Stores(t) \/ LockBuffer(t)
  BY <1>1 DEF Quiet, Stores, Test, ReceiveDatagram, NextStream, AllVisited, DecodeStop,
     DumpPacket, CopyPacket, CheckBuffer, AllChecked, CountStreams, AssignBuffer,
     DecodePacket, LockBuffer
<1>2. CASE \E t \in Threads : Synchronise(t)
  BY <1>2 DEF Synchronise, PassBarrier, BarrierStep
<1>3. CASE \E w \in Workers : WriterThread(w)
  BY <1>3 DEF WriterThread, ClearBuffer, UnlockBuffer
<1>4. CASE MainThread
  BY <1>4 DEF MainThread, MainGoes
<1>5. CASE SpuriousWakeUp
  BY <1>5 DEF SpuriousWakeUp, BarrierStep
<1>6. CASE TimePasses \/ UNCHANGED vars
  BY <1>6 DEF TimePasses, vars
<1> QED
  BY <1>1, <1>2, <1>3, <1>4, <1>5, <1>6, StepKinds

LEMMA BarrierStep2 ==
    ASSUME BarrierInv, [Next]_vars
    PROVE  /\ BarrierInv'
           /\ Abstract!Next \/ UNCHANGED Here
BY BarrierSteps, BarrierStepRefines, BarrierStutter

(* The barrier that the receiver threads meet in is a barrier.              *)
THEOREM BarrierIsAbstract == Spec => ImplementsBarrier
PROOF
<1>1. Init => BarrierInv /\ Abstract!Init
  BY BarrierStarts DEF Init, Abstract!Init
<1>2. BarrierInv /\ [Next]_vars => BarrierInv' /\ [Abstract!Next]_Here
  BY BarrierStep2
<1> QED
  BY <1>1, <1>2, PTL DEF Spec, ImplementsBarrier, Abstract!Spec

-----------------------------------------------------------------------------
(* Types                                                                    *)
LEMMA InitTypeOK ==
    ASSUME Init
    PROVE  TypeOK
PROOF
<1>1. BarrierTypeOK
  BY BarrierStarts DEF Init, BarrierInv
<1>2. PoolTypeOK
  <2>1. taskList \in Seq(Tasks)
    BY DEF Init, PoolInit
  <2>2. job \in [Workers -> Tasks \union {NoTask}]
    BY DEF Init, PoolInit
  <2> QED
    BY <2>1, <2>2 DEF Init, PoolInit, PoolTypeOK
<1>3. BuffersTypeOK
  BY BuffersAssumption DEF Init, BuffersInit, BuffersTypeOK, Indices
<1>4. visiting \in [Threads -> Nat]
  BY BarrierAssumption DEF Init, ThreadsStart, Threads
<1> QED
  BY <1>1, <1>2, <1>3, <1>4, ReceiverAssumption, BuffersAssumption
  DEF Init, ThreadsStart, TypeOK, Places

(* What a step does to the buffers keeps their type.                        *)
LEMMA ChangeType ==
    ASSUME BuffersTypeOK, NEW i \in Indices, NEW b \in Buffer,
           buffers' = [buffers EXCEPT ![i] = b], recent' \in Seq(Indices)
    PROVE  BuffersTypeOK' /\ Indices' = Indices
PROOF
<1>1. buffers' \in Seq(Buffer) /\ Len(buffers') = Len(buffers)
  BY DEF BuffersTypeOK, Indices
<1> QED
  BY <1>1 DEF BuffersTypeOK, Indices

LEMMA StartCovers ==
    ASSUME NEW heap \in Nat
    PROVE  /\ Start(heap) \in Nat
           /\ Start(heap) <= heap
           /\ heap <= Start(heap) + NumTimes - 1
BY BuffersAssumption DEF Start

(* What a stored packet does to the buffers.                                *)
LEMMA StoreChanges ==
    ASSUME TypeOK, TargetsOK, NEW t \in Threads, Stores(t)
    PROVE  /\ BuffersTypeOK'
           /\ Indices \subseteq Indices'
           /\ at'[t] = "copy" =>
                /\ target'[t] \in Indices'
                /\ heapOf'[t] \in Heaps
                /\ Covers(target[t], heapOf[t])'
                /\ buffers'[target'[t]].filled
                /\ ~buffers'[target'[t]].locked
           /\ \A i \in Indices :
                /\ buffers'[i].locked = buffers[i].locked
                /\ buffers[i].filled => buffers'[i].start = buffers[i].start
                                        /\ buffers'[i].filled
           /\ \A i \in Indices' \ Indices : ~buffers'[i].locked
PROOF
<1> USE DEF TypeOK, BuffersTypeOK, Indices
<1>1. CASE \E heap \in Heaps : DecodePacket(t, heap)
  <2>1. PICK heap \in Heaps : DecodePacket(t, heap)
    BY <1>1
  <2>2. at'[t] \in {"copy", "assign"} /\ heapOf'[t] = heap
    BY <2>1 DEF DecodePacket, Goto
  <2>3. CASE at'[t] = "copy"
    <3>1. PICK i \in Indices : /\ IsMatch(i, heap)
                               /\ AddTo(i)
                               /\ target' = [target EXCEPT ![t] = i]
      BY <2>1, <2>3 DEF DecodePacket, Goto
    <3>2. /\ buffers' = [buffers EXCEPT ![i] = [buffers[i] EXCEPT !.filled = TRUE]]
          /\ Covers(i, heap) /\ ~buffers[i].locked
      BY <3>1 DEF AddTo, IsMatch, Takes
    <3>3. [buffers[i] EXCEPT !.filled = TRUE] \in Buffer
      <4>1. buffers[i] \in Buffer
        OBVIOUS
      <4> QED
        BY <4>1 DEF Buffer
    <3>4. recent' \in Seq(Indices)
      BY <3>1 DEF AddTo
    <3>5. BuffersTypeOK' /\ Indices' = Indices
      BY <3>2, <3>3, <3>4, ChangeType
    <3> QED
      BY <2>2, <3>1, <3>2, <3>5 DEF Covers, Buffer
  <2>4. CASE at'[t] = "assign"
    BY <2>1, <2>4 DEF DecodePacket, Goto, bufferVars
  <2> QED
    BY <2>2, <2>3, <2>4
<1>2. CASE AssignBuffer(t)
  <2>1. heapOf[t] \in Heaps /\ heapOf[t] \in Nat /\ heapOf' = heapOf
    BY <1>2, BuffersAssumption DEF AssignBuffer, TargetsOK
  <2>2. /\ Start(heapOf[t]) \in Nat
        /\ Start(heapOf[t]) <= heapOf[t]
        /\ heapOf[t] <= Start(heapOf[t]) + NumTimes - 1
    BY <2>1, StartCovers
  <2>3. CASE \E i \in Indices :
               Repurpose(i, heapOf[t]) /\ target' = [target EXCEPT ![t] = i]
    <3>1. PICK i \in Indices : Repurpose(i, heapOf[t]) /\ target' = [target EXCEPT ![t] = i]
      BY <2>3
    <3> DEFINE b == [buffers[i] EXCEPT !.start = Start(heapOf[t]), !.filled = TRUE]
    <3>2. /\ buffers' = [buffers EXCEPT ![i] = b]
          /\ ~buffers[i].filled /\ ~buffers[i].locked
      BY <3>1 DEF Repurpose, Repurposable, Idle
    <3>3. b \in Buffer
      <4>1. buffers[i] \in Buffer
        OBVIOUS
      <4> QED
        BY <4>1, <2>2 DEF Buffer
    <3>4. recent' \in Seq(Indices)
      BY <3>1 DEF Repurpose
    <3>5. BuffersTypeOK' /\ Indices' = Indices
      BY <3>2, <3>3, <3>4, ChangeType
    <3> QED
      BY <2>1, <2>2, <3>1, <3>2, <3>5 DEF Covers, Buffer
  <2>4. CASE Allocate(heapOf[t]) /\ target' = [target EXCEPT ![t] = Len(buffers')]
    <3> DEFINE b == [NewBuffer EXCEPT !.start = Start(heapOf[t]), !.filled = TRUE]
    <3>1. b \in Buffer /\ b.start = Start(heapOf[t]) /\ b.filled /\ ~b.locked
      BY <2>2 DEF Buffer, NewBuffer
    <3>2. buffers' = Append(buffers, b) /\ recent' = Append(recent, Len(buffers) + 1)
      BY <2>4 DEF Allocate
    <3>3. /\ buffers' \in Seq(Buffer)
          /\ Len(buffers') = Len(buffers) + 1
          /\ buffers'[Len(buffers) + 1] = b
          /\ \A i \in 1 .. Len(buffers) : buffers'[i] = buffers[i]
      BY <3>1, <3>2
    <3>4. Len(buffers') <= MaxBuffers
      BY <2>4, <3>3, BuffersAssumption DEF Allocate
    <3>5. recent' \in Seq(Indices')
      BY <3>2, <3>3
    <3>6. Indices' = Indices \union {Len(buffers) + 1}
      BY <3>3
    <3>7. target'[t] = Len(buffers) + 1
      BY <2>4, <3>3
    <3>8. BuffersTypeOK'
      BY <3>3, <3>4, <3>5
    <3>9. Covers(target[t], heapOf[t])'
      BY <2>1, <2>2, <3>1, <3>3, <3>7 DEF Covers
    <3>10. \A i \in Indices : buffers'[i] = buffers[i]
      <4>1. Indices = 1 .. Len(buffers)
        OBVIOUS
      <4> QED
        BY ONLY <3>3, <4>1
    <3> QED
      BY <2>1, <3>1, <3>3, <3>6, <3>7, <3>8, <3>9, <3>10
  <2> QED
    BY <1>2, <2>3, <2>4 DEF AssignBuffer
<1> QED
  BY <1>1, <1>2 DEF Stores

(* Flags of buffers change and keep the rest.                               *)
LEMMA LockType ==
    ASSUME BuffersTypeOK, NEW i \in Indices, Lock(i) \/ Unlock(i) \/ Clear(i)
    PROVE  BuffersTypeOK' /\ Indices' = Indices
PROOF
<1>0. buffers[i] \in Buffer /\ recent' \in Seq(Indices)
  BY DEF Lock, Unlock, Clear, BuffersTypeOK, Indices
<1>1. CASE Lock(i)
  <2> DEFINE b == [buffers[i] EXCEPT !.locked = TRUE]
  <2>1. b \in Buffer /\ buffers' = [buffers EXCEPT ![i] = b]
    BY <1>0, <1>1 DEF Buffer, Lock
  <2> QED
    BY <2>1, <1>0, ChangeType
<1>2. CASE Unlock(i)
  <2> DEFINE b == [buffers[i] EXCEPT !.locked = FALSE]
  <2>1. b \in Buffer /\ buffers' = [buffers EXCEPT ![i] = b]
    BY <1>0, <1>2 DEF Buffer, Unlock
  <2> QED
    BY <2>1, <1>0, ChangeType
<1>3. CASE Clear(i)
  <2> DEFINE b == [buffers[i] EXCEPT !.filled = FALSE]
  <2>1. b \in Buffer /\ buffers' = [buffers EXCEPT ![i] = b]
    BY <1>0, <1>3 DEF Buffer, Clear
  <2> QED
    BY <2>1, <1>0, ChangeType
<1> QED
  BY <1>1, <1>2, <1>3

LEMMA BuffersStepType ==
    ASSUME TypeOK, TargetsOK, TasksOK, [Next]_vars
    PROVE  BuffersTypeOK' /\ Indices \subseteq Indices'
PROOF
<1>0. BuffersTypeOK
  BY DEF TypeOK
<1>1. CASE UNCHANGED bufferVars
  BY <1>0, <1>1 DEF bufferVars, BuffersTypeOK, Indices
<1>2. ASSUME NEW t \in Threads, Stores(t)
      PROVE  BuffersTypeOK' /\ Indices \subseteq Indices'
  BY <1>2, StoreChanges
<1>3. ASSUME NEW t \in Threads, Quiet(t) \/ Synchronise(t)
      PROVE  UNCHANGED bufferVars
  BY <1>3 DEF Quiet, Test, ReceiveDatagram, NextStream, AllVisited, DecodeStop,
     DumpPacket, CopyPacket, CheckBuffer, AllChecked, CountStreams, Synchronise
<1>4. ASSUME NEW t \in Threads, LockBuffer(t)
      PROVE  Lock(target[t]) \/ UNCHANGED bufferVars
  BY <1>4 DEF LockBuffer
<1>5. ASSUME NEW t \in Threads, LockBuffer(t)
      PROVE  target[t] \in Indices
  BY <1>5 DEF LockBuffer, TargetsOK
<1>6. ASSUME NEW w \in Workers, WriterThread(w)
      PROVE  \/ UNCHANGED bufferVars
             \/ (Clear(job[w]) \/ Unlock(job[w])) /\ job[w] \in Indices
  BY <1>6 DEF WriterThread, ClearBuffer, UnlockBuffer, TasksOK
<1>7. CASE TimePasses
  <2>1. recent' \in Seq(Indices) /\ UNCHANGED buffers
    BY <1>0, <1>7 DEF TimePasses, SecondPasses, BuffersTypeOK
  <2> QED
    BY <1>0, <2>1 DEF BuffersTypeOK, Indices
<1>8. CASE MainThread \/ SpuriousWakeUp \/ UNCHANGED vars
  <2>1. UNCHANGED bufferVars
    BY <1>8 DEF MainThread, MainGoes, SpuriousWakeUp, vars
  <2> QED
    BY <1>1, <2>1
<1>9. CASE \E t \in Threads : LockBuffer(t)
  BY <1>0, <1>1, <1>4, <1>5, <1>9, LockType
<1>10. CASE \E w \in Workers : WriterThread(w)
  BY <1>0, <1>1, <1>6, <1>10, LockType
<1> QED
  BY <1>1, <1>2, <1>3, <1>7, <1>8, <1>9, <1>10, StepKinds

LEMMA EnqueueType ==
    ASSUME PoolTypeOK, NEW i \in Tasks, Enqueue(i)
    PROVE  PoolTypeOK'
BY DEF Enqueue, Signal, PoolTypeOK

LEMMA PoolThreadType ==
    ASSUME PoolTypeOK, NEW w \in Workers, PoolThread(w) \/ Return(w)
    PROVE  PoolTypeOK'
PROOF
<1> USE DEF PoolTypeOK
<1>1. CASE TakeTask(w)
  <2>1. Head(taskList) \in Tasks /\ Tail(taskList) \in Seq(Tasks)
    BY <1>1 DEF TakeTask
  <2> QED
    BY <1>1, <2>1 DEF TakeTask
<1>2. CASE WaitForTask(w)
  BY <1>2 DEF WaitForTask
<1>3. CASE GiveUp(w)
  BY <1>3 DEF GiveUp
<1>4. CASE SignalIdle(w)
  BY <1>4 DEF SignalIdle
<1>5. CASE Return(w)
  BY <1>5 DEF Return
<1> QED
  BY <1>1, <1>2, <1>3, <1>4, <1>5 DEF PoolThread

LEMMA PoolStepType ==
    ASSUME TypeOK, TargetsOK, [Next]_vars
    PROVE  PoolTypeOK'
PROOF
<1>0. PoolTypeOK
  BY DEF TypeOK
<1>1. CASE UNCHANGED poolVars
  BY <1>0, <1>1 DEF poolVars, PoolTypeOK
<1>2. ASSUME NEW t \in Threads, Quiet(t) \/ Synchronise(t) \/ Stores(t)
      PROVE  UNCHANGED poolVars
  BY <1>2 DEF Quiet, Test, ReceiveDatagram, NextStream, AllVisited, DecodeStop,
     DumpPacket, CopyPacket, CheckBuffer, AllChecked, CountStreams, Synchronise,
     Stores, AssignBuffer, DecodePacket
<1>3. ASSUME NEW t \in Threads, LockBuffer(t)
      PROVE  PoolTypeOK'
  <2>1. target[t] \in Tasks
    <3>1. target[t] \in Indices
      BY <1>3 DEF LockBuffer, TargetsOK
    <3>2. Indices \subseteq 1 .. MaxBuffers
      BY BuffersAssumption DEF TypeOK, BuffersTypeOK, Indices
    <3> QED
      BY <3>1, <3>2, ReceiverAssumption
  <2>2. Enqueue(target[t]) \/ UNCHANGED poolVars
    BY <1>3 DEF LockBuffer
  <2> QED
    BY <1>0, <1>1, <2>1, <2>2, EnqueueType
<1>4. ASSUME NEW w \in Workers, WriterThread(w)
      PROVE  PoolTypeOK'
  <2>1. PoolThread(w) \/ Return(w) \/ UNCHANGED poolVars
    BY <1>4 DEF WriterThread, ClearBuffer, UnlockBuffer
  <2> QED
    BY <1>0, <1>1, <2>1, PoolThreadType
<1>5. CASE MainThread
  <2>1. SetAbort \/ WakeAll \/ JoinAndDrop \/ UNCHANGED poolVars
    BY <1>5 DEF MainThread
  <2> QED
    <3>1. <<>> \in Seq(Tasks)
      OBVIOUS
    <3>2. CASE JoinAndDrop
      BY <1>0, <3>1, <3>2 DEF JoinAndDrop, PoolTypeOK
    <3>3. CASE SetAbort \/ WakeAll
      BY <1>0, <3>3 DEF SetAbort, WakeAll, PoolTypeOK
    <3> QED
      BY <1>1, <2>1, <3>2, <3>3
<1>6. CASE TimePasses \/ SpuriousWakeUp \/ UNCHANGED vars
  <2>1. UNCHANGED poolVars
    BY <1>6 DEF TimePasses, SpuriousWakeUp, vars
  <2> QED
    BY <1>1, <2>1
<1> QED
  BY <1>1, <1>2, <1>3, <1>4, <1>5, <1>6, StepKinds

(* What is left of TypeOK: the receiver threads, the streams, main.         *)
ThreadsTypeOK ==
    /\ at \in [Threads -> Places]
    /\ visiting \in [Threads -> Nat]
    /\ heapOf \in [Threads -> Heaps \union {0}]
    /\ target \in [Threads -> 0 .. MaxBuffers + 1]
    /\ done \subseteq Streams
    /\ completed \in 0 .. NumStreams
    /\ packets \in 0 .. MaxPackets
    /\ cleared \subseteq Workers
    /\ main \in {"join", "abort", "wake", "drop", "freed"}

LEMMA StreamsFinite ==
    ASSUME NEW S \in SUBSET Streams
    PROVE  Cardinality(S) \in 0 .. NumStreams
PROOF
<1>1. /\ IsFiniteSet(0 .. NumStreams - 1)
      /\ Cardinality(0 .. NumStreams - 1) =
           IF 0 > NumStreams - 1 THEN 0 ELSE (NumStreams - 1) - 0 + 1
  BY FS_Interval, ReceiverAssumption
<1>2. IsFiniteSet(Streams) /\ Cardinality(Streams) = NumStreams
  BY <1>1, ReceiverAssumption DEF Streams
<1>3. IsFiniteSet(S) /\ Cardinality(S) <= Cardinality(Streams)
  BY <1>2, FS_Subset
<1> QED
  BY <1>2, <1>3, FS_CardinalityType, ReceiverAssumption

LEMMA QuietType ==
    ASSUME TypeOK, TargetsOK, CountOK, NEW t \in Threads, Quiet(t)
    PROVE  ThreadsTypeOK'
PROOF
<1>0. ThreadsTypeOK
  BY DEF TypeOK, ThreadsTypeOK
<1>1. t \in Nat /\ NumThreads \in Nat
  BY BarrierAssumption DEF Threads
<1> USE DEF ThreadsTypeOK, Goto, Places, threadVars, streamVars
<1>2. CASE Test(t)
  BY <1>0, <1>1, <1>2 DEF Test
<1>3. CASE ReceiveDatagram(t)
  BY <1>0, <1>3 DEF ReceiveDatagram
<1>4. CASE NextStream(t)
  BY <1>0, <1>1, <1>4 DEF NextStream
<1>5. CASE AllVisited(t)
  BY <1>0, <1>5 DEF AllVisited
<1>6. CASE DecodeStop(t)
  BY <1>0, <1>6 DEF DecodeStop, TargetsOK
<1>7. CASE DumpPacket(t)
  BY <1>0, <1>7 DEF DumpPacket
<1>8. CASE CopyPacket(t)
  BY <1>0, <1>8, BuffersAssumption DEF CopyPacket
<1>9. CASE CheckBuffer(t)
  <2>1. target[t] + 1 \in 0 .. MaxBuffers + 1
    BY <1>9, BuffersAssumption DEF CheckBuffer, TypeOK, BuffersTypeOK, Indices
  <2> QED
    BY <1>0, <1>9, <2>1 DEF CheckBuffer
<1>10. CASE AllChecked(t)
  BY <1>0, <1>10, BuffersAssumption, ReceiverAssumption DEF AllChecked
<1>11. CASE CountStreams(t)
  <2>1. Cardinality(done) \in 0 .. NumStreams
    BY <1>0, StreamsFinite
  <2>2. completed = 0 /\ completed' = completed + Cardinality(done)
    BY <1>11 DEF CountStreams, CountOK
  <2>3. completed' \in 0 .. NumStreams
    BY <2>1, <2>2, ReceiverAssumption
  <2> QED
    BY <1>0, <1>11, <2>3 DEF CountStreams
<1> QED
  BY <1>2, <1>3, <1>4, <1>5, <1>6, <1>7, <1>8, <1>9, <1>10, <1>11 DEF Quiet

LEMMA OtherType ==
    ASSUME TypeOK, TargetsOK, NEW t \in Threads,
           Stores(t) \/ Synchronise(t) \/ LockBuffer(t)
    PROVE  ThreadsTypeOK'
PROOF
<1>0. ThreadsTypeOK
  BY DEF TypeOK, ThreadsTypeOK
<1>1. \A i \in Indices : i \in 0 .. MaxBuffers + 1 /\ i + 1 \in 0 .. MaxBuffers + 1
  <2>1. Indices = 1 .. Len(buffers) /\ Len(buffers) \in Nat /\ Len(buffers) <= MaxBuffers
    BY DEF TypeOK, BuffersTypeOK, Indices
  <2> QED
    BY <2>1, BuffersAssumption
<1> USE DEF ThreadsTypeOK, Goto, Places, threadVars, streamVars
<1>2. CASE \E heap \in Heaps : DecodePacket(t, heap)
  <2>1. PICK heap \in Heaps : DecodePacket(t, heap)
    BY <1>2
  <2>2. visiting[t] \in Streams
    BY <2>1 DEF DecodePacket, TargetsOK
  <2>3. target' \in [Threads -> 0 .. MaxBuffers + 1]
    <3>1. (\E i \in Indices : target' = [target EXCEPT ![t] = i]) \/ target' = target
      BY <2>1 DEF DecodePacket
    <3> QED
      BY <1>0, <1>1, <3>1
  <2>4. packets' \in 0 .. MaxPackets
    BY <1>0, <2>1, ReceiverAssumption DEF DecodePacket
  <2> QED
    BY <1>0, <2>1, <2>2, <2>3, <2>4 DEF DecodePacket
<1>3. CASE AssignBuffer(t)
  <2>1. target' \in [Threads -> 0 .. MaxBuffers + 1]
    <3>1. CASE \E i \in Indices : target' = [target EXCEPT ![t] = i]
      BY <1>0, <1>1, <3>1
    <3>2. CASE Allocate(heapOf[t]) /\ target' = [target EXCEPT ![t] = Len(buffers')]
      <4>1. BuffersTypeOK'
        BY <1>3, StoreChanges DEF Stores
      <4>2. Len(buffers') \in 0 .. MaxBuffers
        BY <4>1, BuffersAssumption DEF BuffersTypeOK
      <4> QED
        BY <1>0, <3>2, <4>2, BuffersAssumption
    <3> QED
      BY <1>3, <3>1, <3>2 DEF AssignBuffer
  <2> QED
    BY <1>0, <1>3, <2>1 DEF AssignBuffer
<1>4. CASE Synchronise(t)
  BY <1>0, <1>4, BuffersAssumption DEF Synchronise, PassBarrier, AfterSync
<1>5. CASE LockBuffer(t)
  <2>1. target[t] + 1 \in 0 .. MaxBuffers + 1
    BY <1>1, <1>5 DEF LockBuffer, TargetsOK
  <2> QED
    BY <1>0, <1>5, <2>1 DEF LockBuffer
<1> QED
  BY <1>2, <1>3, <1>4, <1>5 DEF Stores

LEMMA TypeStep ==
    ASSUME TypeOK, BarrierInv, TargetsOK, TasksOK, CountOK, [Next]_vars
    PROVE  TypeOK'
PROOF
<1>1. BarrierTypeOK'
  BY BarrierStep2 DEF BarrierInv
<1>2. PoolTypeOK'
  BY PoolStepType
<1>3. BuffersTypeOK'
  BY BuffersStepType
<1>4. ThreadsTypeOK'
  <2>0. ThreadsTypeOK
    BY DEF TypeOK, ThreadsTypeOK
  <2>1. CASE \E t \in Threads : Quiet(t) \/ Stores(t) \/ Synchronise(t) \/ LockBuffer(t)
    BY <2>1, QuietType, OtherType
  <2>2. CASE \E w \in Workers : WriterThread(w)
    <3>1. /\ UNCHANGED <<threadVars, streamVars, completed, main>>
          /\ cleared' \subseteq Workers
      BY <2>0, <2>2 DEF WriterThread, ClearBuffer, UnlockBuffer, receiverVars, ThreadsTypeOK
    <3> QED
      BY <2>0, <3>1 DEF threadVars, streamVars, ThreadsTypeOK
  <2>3. CASE MainThread
    <3>1. /\ UNCHANGED <<threadVars, streamVars, completed, cleared>>
          /\ main' \in {"join", "abort", "wake", "drop", "freed"}
      BY <2>3 DEF MainThread, MainGoes
    <3> QED
      BY <2>0, <3>1 DEF threadVars, streamVars, ThreadsTypeOK
  <2>4. CASE TimePasses \/ SpuriousWakeUp \/ UNCHANGED vars
    <3>1. UNCHANGED receiverVars
      BY <2>4 DEF TimePasses, SpuriousWakeUp, vars
    <3> QED
      BY <2>0, <3>1 DEF receiverVars, threadVars, streamVars, ThreadsTypeOK
  <2> QED
    BY <2>1, <2>2, <2>3, <2>4, StepKinds
<1> QED
  BY <1>1, <1>2, <1>3, <1>4 DEF TypeOK, ThreadsTypeOK

-----------------------------------------------------------------------------
(* The two parts of the loop                                                *)

(* Steps outside of the barrier move a thread within one part.              *)
LEMMA MovesKeepSide ==
    ASSUME TypeOK, SameSide, NEW t \in Threads, Quiet(t) \/ Stores(t) \/ LockBuffer(t)
    PROVE  /\ UNCHANGED <<seen, iter>>
           /\ \A u \in Threads \ {t} : at'[u] = at[u]
           /\ seen[t] = Outside
           /\ SecondPart(t)' <=> SecondPart(t)
           /\ at'[t] \in {"check", "lock", "count"} => t = 0
PROOF
<1> DEFINE here == at[t]
           next == at'[t]
<1>1. /\ UNCHANGED <<seen, iter>>
      /\ \A u \in Threads \ {t} : at'[u] = at[u]
      /\ ~Waits(t)
      /\ \/ here \in {"check", "lock", "count"}
            /\ next \in {"check", "lock", "count", "sync2"}
         \/ here \notin {"check", "lock", "count"}
            /\ next \notin {"check", "lock", "count", "sync2"}
  <2> USE DEF Goto, Waits, barrierVars, TypeOK
  <2>1. CASE Test(t) \/ ReceiveDatagram(t) \/ NextStream(t) \/ AllVisited(t)
    BY <2>1 DEF Test, ReceiveDatagram, NextStream, AllVisited
  <2>2. CASE DecodeStop(t)
    BY <2>2 DEF DecodeStop, threadVars
  <2>3. CASE DumpPacket(t) \/ CopyPacket(t)
    BY <2>3 DEF DumpPacket, CopyPacket
  <2>4. CASE CheckBuffer(t) \/ AllChecked(t) \/ CountStreams(t)
    BY <2>4 DEF CheckBuffer, AllChecked, CountStreams
  <2>5. CASE Stores(t)
    BY <2>5 DEF Stores, AssignBuffer, DecodePacket
  <2>6. CASE LockBuffer(t)
    BY <2>6 DEF LockBuffer
  <2> QED
    BY <2>1, <2>2, <2>3, <2>4, <2>5, <2>6 DEF Quiet
<1>2. seen[t] = Outside /\ ~LetGo(t) /\ ~LetGo(t)'
  BY <1>1 DEF SameSide, LetGo
<1>3. SecondPart(t)' <=> SecondPart(t)
  BY <1>1, <1>2 DEF SecondPart, Waits
<1> QED
  BY <1>1, <1>2, <1>3 DEF SameSide

(* The step of a thread through the barrier: only the last arrival moves    *)
(* threads to the other part, and it moves all of them.                     *)
LEMMA SyncKeepsSide ==
    ASSUME TypeOK, BarrierInv, SameSide, NEW t \in Threads, Synchronise(t)
    PROVE  SameSide'
PROOF
<1> USE DEF TypeOK, Waits
<1>0. at[t] \in {"sync1", "sync2"} /\ seen \in [Threads -> Generations \union {Outside}]
  BY DEF Synchronise, BarrierTypeOK
<1>1. CASE ArriveEarly(t) \/ SleepAgain(t)
  <2>1. UNCHANGED <<at, iter>>
    BY <1>1 DEF Synchronise, PassBarrier, ArriveEarly, SleepAgain, ArriveLast, Leave
  <2>2. \A u \in Threads : LetGo(u)' <=> LetGo(u)
    BY <1>0, <1>1, <2>1 DEF LetGo, ArriveEarly, SleepAgain
  <2>3. \A u \in Threads : SecondPart(u)' <=> SecondPart(u)
    BY <2>1, <2>2 DEF SecondPart
  <2>4. \A u \in Threads : seen'[u] # Outside => Waits(u)'
    BY <1>0, <1>1, <2>1 DEF SameSide, ArriveEarly, SleepAgain
  <2> QED
    BY <2>1, <2>3, <2>4 DEF SameSide
<1>2. CASE PassBarrier(t) /\ Leave(t)
  <2>1. /\ iter' = iter
        /\ seen' = [seen EXCEPT ![t] = Outside]
        /\ at' = [at EXCEPT ![t] = AfterSync(t)]
        /\ LetGo(t)
    BY <1>2 DEF PassBarrier, Leave, Goto, LetGo
  <2>2. \A u \in Threads \ {t} : (SecondPart(u)' <=> SecondPart(u)) /\ at'[u] = at[u]
    BY <1>0, <2>1 DEF SecondPart, LetGo
  <2>3. SecondPart(t)' <=> SecondPart(t)
    BY <1>0, <2>1 DEF SecondPart, LetGo, AfterSync
  <2>4. \A u \in Threads : seen'[u] # Outside => Waits(u)'
    BY <1>0, <2>1, <2>2 DEF SameSide
  <2>5. at'[t] \in {"check", "lock", "count"} => t = 0
    BY <2>1 DEF AfterSync
  <2> QED
    BY <2>2, <2>3, <2>4, <2>5 DEF SameSide
<1>3. CASE PassBarrier(t) /\ ArriveLast(t)
  <2>1. /\ seen' = seen
        /\ seen[t] = Outside
        /\ at' = [at EXCEPT ![t] = AfterSync(t)]
    BY <1>3 DEF PassBarrier, ArriveLast, Goto
  <2>2. iter' \in Generations /\ iter' # iter /\ Outside \notin Generations
        /\ iter \in Generations
    BY <1>3, NextGeneration DEF ArriveLast, BarrierTypeOK
  <2>3. \A u \in Threads \ {t} : seen[u] = iter /\ Waits(u) /\ at'[u] = at[u]
    BY <1>3, <2>1, <2>2, LastFindsAll DEF Here, SameSide
  <2>4. /\ \A u \in Threads \ {t} : ~LetGo(u) /\ LetGo(u)'
        /\ ~LetGo(t) /\ ~LetGo(t)'
    BY <2>1, <2>2, <2>3 DEF LetGo
  <2>5. CASE at[t] = "sync1"
    <3>1. \A u \in Threads \ {t} : at[u] = "sync1"
      BY <2>3, <2>4, <2>5 DEF SameSide, SecondPart
    <3>2. at'[t] \in {"check", "sync2"}
      BY <1>0, <2>1, <2>5 DEF AfterSync
    <3>3. \A u \in Threads : SecondPart(u)'
      BY <2>3, <2>4, <3>1, <3>2 DEF SecondPart
    <3>4. \A u \in Threads : at'[u] \in {"check", "lock", "count"} => u = 0
      BY <1>0, <2>1, <2>3, <2>5, <3>1 DEF AfterSync
    <3> QED
      BY <2>1, <2>3, <3>3, <3>4 DEF SameSide
  <2>6. CASE at[t] = "sync2"
    <3>1. \A u \in Threads \ {t} : at[u] = "sync2"
      BY <2>3, <2>4, <2>6 DEF SameSide, SecondPart
    <3>2. at'[t] = "test"
      BY <1>0, <2>1, <2>6 DEF AfterSync
    <3>3. \A u \in Threads : ~SecondPart(u)'
      BY <2>3, <2>4, <3>1, <3>2 DEF SecondPart
    <3> QED
      BY <2>1, <2>3, <3>1, <3>2, <3>3 DEF SameSide
  <2> QED
    BY <1>0, <2>5, <2>6
<1> QED
  BY <1>1, <1>2, <1>3 DEF Synchronise, PassBarrier

LEMMA SideStep ==
    ASSUME TypeOK, BarrierInv, SameSide, [Next]_vars
    PROVE  SameSide'
PROOF
<1>1. ASSUME NEW t \in Threads, Quiet(t) \/ Stores(t) \/ LockBuffer(t)
      PROVE  SameSide'
  <2>1. /\ UNCHANGED <<seen, iter>>
        /\ \A u \in Threads \ {t} : at'[u] = at[u]
        /\ seen[t] = Outside
        /\ SecondPart(t)' <=> SecondPart(t)
        /\ at'[t] \in {"check", "lock", "count"} => t = 0
    BY <1>1, MovesKeepSide
  <2>2. \A u \in Threads \ {t} : SecondPart(u)' <=> SecondPart(u)
    BY <2>1 DEF SecondPart, LetGo
  <2>3. \A u \in Threads : seen'[u] # Outside => Waits(u)'
    BY <2>1 DEF SameSide, Waits
  <2> QED
    BY <2>1, <2>2, <2>3 DEF SameSide
<1>2. CASE UNCHANGED <<at, seen, iter>>
  BY <1>2 DEF SameSide, SecondPart, LetGo, Waits
<1>3. CASE (\E w \in Workers : WriterThread(w)) \/ MainThread \/ TimePasses
             \/ SpuriousWakeUp \/ UNCHANGED vars
  <2>1. UNCHANGED <<at, seen, iter>>
    BY <1>3 DEF WriterThread, ClearBuffer, UnlockBuffer, MainThread, MainGoes, TimePasses,
       SpuriousWakeUp, WakeForNothing, vars, receiverVars, threadVars, barrierVars
  <2> QED
    BY <1>2, <2>1
<1> QED
  BY <1>1, <1>3, SyncKeepsSide, StepKinds

-----------------------------------------------------------------------------
(* The tasks of the pool and the locked buffers                             *)
HandsOK == TasksOK /\ LockedMeansQueued

handVars == <<taskList, worker, job, cleared, buffers, main>>

LEMMA HandsStutter ==
    ASSUME HandsOK, UNCHANGED handVars
    PROVE  HandsOK'
BY DEF HandsOK, handVars, TasksOK, LockedMeansQueued, Queued, Written, Runs, Indices

LEMMA StoreKeepsHands ==
    ASSUME TypeOK, TargetsOK, HandsOK, NEW t \in Threads, Stores(t)
    PROVE  HandsOK'
PROOF
<1>1. UNCHANGED <<taskList, worker, job, cleared, main>>
  BY DEF Stores, AssignBuffer, DecodePacket, poolVars
<1>2. /\ Indices \subseteq Indices'
      /\ \A i \in Indices : buffers'[i].locked = buffers[i].locked
      /\ \A i \in Indices' \ Indices : ~buffers'[i].locked
  BY StoreChanges
<1>3. \A i : (Queued(i)' <=> Queued(i)) /\ (Written(i)' <=> Written(i))
  BY <1>1 DEF Queued, Written, Runs
<1>4. \A i \in Indices' \ Indices : ~Queued(i) /\ ~Written(i)
  BY DEF HandsOK, TasksOK, Queued, Written
<1>5. TasksOK'
  BY <1>1, <1>2 DEF HandsOK, TasksOK, Runs
<1>6. main' # "freed" =>
        \A i \in Indices' : buffers'[i].locked <=> Queued(i)' \/ Written(i)'
  BY <1>1, <1>2, <1>3, <1>4 DEF HandsOK, LockedMeansQueued
<1>7. /\ \A k, l \in DOMAIN taskList' : taskList'[k] = taskList'[l] => k = l
      /\ \A w \in Workers : Runs(w)' => ~Queued(job[w])'
      /\ \A w, v \in Workers : Runs(w)' /\ Runs(v)' /\ job'[w] = job'[v] => w = v
  BY <1>1 DEF HandsOK, LockedMeansQueued, Runs, Queued
<1> QED
  BY <1>5, <1>6, <1>7 DEF HandsOK, LockedMeansQueued

(* Thread 0 locks a buffer that is in no task and makes it one.             *)
LEMMA LockKeepsHands ==
    ASSUME TypeOK, TargetsOK, MainOK, HandsOK, NEW t \in Threads, LockBuffer(t)
    PROVE  HandsOK'
PROOF
<1> DEFINE i == target[t]
<1>0. UNCHANGED <<cleared, main>> /\ main # "freed" /\ i \in Indices
  BY DEF LockBuffer, MainOK, TargetsOK
<1>1. CASE UNCHANGED <<bufferVars, poolVars>>
  BY <1>0, <1>1, HandsStutter DEF handVars, bufferVars, poolVars
<1>2. CASE ~buffers[i].locked /\ Lock(i) /\ Enqueue(i)
  <2>1. taskList \in Seq(Tasks) /\ taskList' = Append(taskList, i)
        /\ UNCHANGED <<worker, job>>
    BY <1>2 DEF Enqueue, TypeOK, PoolTypeOK
  <2>2. /\ DOMAIN taskList' = DOMAIN taskList \union {Len(taskList) + 1}
        /\ Len(taskList) + 1 \notin DOMAIN taskList
        /\ taskList'[Len(taskList) + 1] = i
        /\ \A k \in DOMAIN taskList : taskList'[k] = taskList[k]
    BY <2>1
  <2>3. ~Queued(i) /\ ~Written(i)
    BY <1>0, <1>2 DEF HandsOK, LockedMeansQueued
  <2>4. /\ Indices' = Indices
        /\ buffers'[i].locked
        /\ \A j \in Indices \ {i} : buffers'[j] = buffers[j]
    <3>1. buffers[i] \in Buffer /\ buffers' = [buffers EXCEPT ![i].locked = TRUE]
      BY <1>0, <1>2 DEF Lock, TypeOK, BuffersTypeOK, Indices
    <3> QED
      BY <1>0, <3>1 DEF Buffer, Indices, TypeOK, BuffersTypeOK
  <2>5. \A j : Queued(j)' <=> (Queued(j) \/ j = i)
    BY <2>2 DEF Queued
  <2>6. \A j : Written(j)' <=> Written(j)
    BY <2>1 DEF Written, Runs
  <2>7. TasksOK'
    BY <1>0, <2>1, <2>2, <2>4 DEF HandsOK, TasksOK, Runs
  <2>8. \A j \in Indices' : buffers'[j].locked <=> Queued(j)' \/ Written(j)'
    BY <1>0, <2>4, <2>5, <2>6 DEF HandsOK, LockedMeansQueued
  <2>9. \A k, l \in DOMAIN taskList' : taskList'[k] = taskList'[l] => k = l
    BY <2>2, <2>3 DEF HandsOK, LockedMeansQueued, Queued
  <2>10. \A w \in Workers : Runs(w)' => ~Queued(job[w])'
    BY <2>1, <2>3, <2>5 DEF HandsOK, LockedMeansQueued, Runs, Written
  <2>11. \A w, v \in Workers : Runs(w)' /\ Runs(v)' /\ job'[w] = job'[v] => w = v
    BY <2>1 DEF HandsOK, LockedMeansQueued, Runs
  <2> QED
    BY <2>1, <2>7, <2>8, <2>9, <2>10, <2>11 DEF HandsOK, LockedMeansQueued
<1> QED
  BY <1>1, <1>2 DEF LockBuffer

LEMMA WriterKeepsHands ==
    ASSUME TypeOK, HandsOK, MainOK, NEW w \in Workers, WriterThread(w)
    PROVE  HandsOK'
PROOF
<1> USE DEF TypeOK, PoolTypeOK
<1>1. CASE TakeTask(w)
  <2>0. UNCHANGED <<cleared, buffers, main>>
    BY <1>1 DEF WriterThread, ClearBuffer, UnlockBuffer, TakeTask, poolVars, bufferVars,
       receiverVars, CanTake, Return, Runs
  <2>1. /\ taskList # <<>>
        /\ taskList' = Tail(taskList)
        /\ job' = [job EXCEPT ![w] = Head(taskList)]
        /\ worker' = [worker EXCEPT ![w] = "run"]
        /\ ~Runs(w)
    BY <1>1 DEF TakeTask, CanTake, Runs
  <2> DEFINE i == taskList[1]
  <2>2. /\ 1 \in DOMAIN taskList
        /\ Head(taskList) = i
        /\ \A k : k \in DOMAIN taskList' <=> k + 1 \in DOMAIN taskList /\ k \in Nat \ {0}
        /\ \A k \in DOMAIN taskList' : taskList'[k] = taskList[k + 1] /\ k \in Nat \ {0}
        /\ \A k \in DOMAIN taskList : k = 1 \/ k - 1 \in DOMAIN taskList'
        /\ \A k \in DOMAIN taskList : k \in Nat
    BY <2>1
  <2>3. i \in Indices /\ Queued(i)
    BY <2>2 DEF HandsOK, TasksOK, Queued
  <2>4. job'[w] = i /\ Runs(w)'
        /\ \A v \in Workers \ {w} : job'[v] = job[v] /\ (Runs(v)' <=> Runs(v))
    BY <2>1, <2>2 DEF Runs
  <2>5. \A j : Queued(j)' <=> Queued(j) /\ j # i
    <3>1. ASSUME NEW j, Queued(j)'
          PROVE  Queued(j) /\ j # i
      <4>1. PICK k \in DOMAIN taskList' : taskList'[k] = j
        BY <3>1 DEF Queued
      <4>2. k + 1 \in DOMAIN taskList /\ taskList[k + 1] = j /\ k + 1 # 1
        BY <2>2, <4>1
      <4> QED
        BY <2>2, <4>2 DEF Queued, HandsOK, LockedMeansQueued
    <3>2. ASSUME NEW j, Queued(j), j # i
          PROVE  Queued(j)'
      <4>1. PICK k \in DOMAIN taskList : taskList[k] = j
        BY <3>2 DEF Queued
      <4>2. k - 1 \in DOMAIN taskList' /\ k - 1 + 1 = k
        BY <2>2, <3>2, <4>1
      <4> QED
        BY <2>2, <4>1, <4>2 DEF Queued
    <3> QED
      BY <3>1, <3>2
  <2>6. \A j : Written(j)' <=> Written(j) \/ j = i
    BY <2>1, <2>4 DEF Written
  <2>7. TasksOK'
    <3>1. \A k \in DOMAIN taskList' : taskList'[k] \in Indices
      BY <2>2 DEF HandsOK, TasksOK
    <3>2. \A v \in Workers : Runs(v)' => job'[v] \in Indices
      BY <2>3, <2>4 DEF HandsOK, TasksOK
    <3>3. \A v \in Workers : v \in cleared' => Runs(v)'
      BY <2>0, <2>4 DEF HandsOK, TasksOK
    <3> QED
      BY <2>0, <3>1, <3>2, <3>3 DEF TasksOK, Indices
  <2>8. main' # "freed" => \A j \in Indices' : buffers'[j].locked <=> Queued(j)' \/ Written(j)'
    BY <2>0, <2>3, <2>5, <2>6 DEF HandsOK, LockedMeansQueued, Indices
  <2>9. \A k, l \in DOMAIN taskList' : taskList'[k] = taskList'[l] => k = l
    <3> SUFFICES ASSUME NEW k \in DOMAIN taskList', NEW l \in DOMAIN taskList',
                        taskList'[k] = taskList'[l]
                 PROVE  k = l
      OBVIOUS
    <3>1. k + 1 = l + 1
      BY <2>2 DEF HandsOK, LockedMeansQueued
    <3> QED
      BY <2>2, <3>1
  <2>10. \A v \in Workers : Runs(v)' => ~Queued(job[v])'
    BY <2>4, <2>5 DEF HandsOK, LockedMeansQueued
  <2>11. \A u, v \in Workers : Runs(u)' /\ Runs(v)' /\ job'[u] = job'[v] => u = v
    BY <2>3, <2>4 DEF HandsOK, LockedMeansQueued
  <2> QED
    BY <2>7, <2>8, <2>9, <2>10, <2>11 DEF HandsOK, LockedMeansQueued
<1>2. CASE (WaitForTask(w) \/ GiveUp(w) \/ SignalIdle(w))
             /\ UNCHANGED <<bufferVars, receiverVars>>
  <2>1. /\ UNCHANGED <<taskList, job, cleared, buffers, main>>
        /\ \A v \in Workers : Runs(v)' <=> Runs(v)
    BY <1>2 DEF WaitForTask, GiveUp, SignalIdle, CanTake, Runs, bufferVars, receiverVars
  <2>2. \A j : (Queued(j)' <=> Queued(j)) /\ (Written(j)' <=> Written(j))
    BY <2>1 DEF Queued, Written
  <2> QED
    BY <2>1, <2>2 DEF HandsOK, TasksOK, LockedMeansQueued, Indices
<1>3. CASE ClearBuffer(w)
  <2> DEFINE i == job[w]
  <2>1. UNCHANGED <<taskList, worker, job, main>> /\ Runs(w) /\ cleared' = cleared \union {w}
    BY <1>3 DEF ClearBuffer, poolVars
  <2>2. i \in Indices
    BY <2>1 DEF HandsOK, TasksOK
  <2>3. Indices' = Indices /\ \A j \in Indices : buffers'[j].locked = buffers[j].locked
    <3>1. buffers[i] \in Buffer /\ buffers' = [buffers EXCEPT ![i].filled = FALSE]
      BY <1>3, <2>2 DEF ClearBuffer, Clear, BuffersTypeOK, Indices
    <3> QED
      BY <2>2, <3>1 DEF Buffer, Indices, BuffersTypeOK
  <2>4. \A j : (Queued(j)' <=> Queued(j)) /\ (Written(j)' <=> Written(j))
    BY <2>1 DEF Queued, Written, Runs
  <2>5. \A v \in Workers : Runs(v)' <=> Runs(v)
    BY <2>1 DEF Runs
  <2> QED
    BY <2>1, <2>3, <2>4, <2>5 DEF HandsOK, TasksOK, LockedMeansQueued
<1>4. CASE UnlockBuffer(w)
  <2> DEFINE i == job[w]
  <2>1. /\ UNCHANGED <<taskList, main>>
        /\ cleared' = cleared \ {w}
        /\ job' = [job EXCEPT ![w] = NoTask]
        /\ worker' = [worker EXCEPT ![w] = "signal"]
        /\ Runs(w)
    BY <1>4 DEF UnlockBuffer, Return
  <2>2. i \in Indices
    BY <2>1 DEF HandsOK, TasksOK
  <2>3. /\ Indices' = Indices
        /\ ~buffers'[i].locked
        /\ \A j \in Indices \ {i} : buffers'[j] = buffers[j]
    <3>1. buffers[i] \in Buffer /\ buffers' = [buffers EXCEPT ![i].locked = FALSE]
      BY <1>4, <2>2 DEF UnlockBuffer, Unlock, BuffersTypeOK, Indices
    <3> QED
      BY <2>2, <3>1 DEF Buffer, Indices, BuffersTypeOK
  <2>4. /\ ~Runs(w)'
        /\ \A v \in Workers \ {w} : job'[v] = job[v] /\ (Runs(v)' <=> Runs(v))
    BY <2>1 DEF Runs
  <2>5. \A j : Queued(j)' <=> Queued(j)
    BY <2>1 DEF Queued
  <2>6. \A j : Written(j)' <=> Written(j) /\ j # i
    BY <2>1, <2>4 DEF Written, HandsOK, LockedMeansQueued
  <2>7. TasksOK'
    BY <2>1, <2>3, <2>4 DEF HandsOK, TasksOK
  <2>8. main' # "freed" => \A j \in Indices' : buffers'[j].locked <=> Queued(j)' \/ Written(j)'
    BY <2>1, <2>2, <2>3, <2>5, <2>6 DEF HandsOK, LockedMeansQueued
  <2>9. /\ \A k, l \in DOMAIN taskList' : taskList'[k] = taskList'[l] => k = l
        /\ \A v \in Workers : Runs(v)' => ~Queued(job[v])'
        /\ \A u, v \in Workers : Runs(u)' /\ Runs(v)' /\ job'[u] = job'[v] => u = v
    BY <2>1, <2>4, <2>5 DEF HandsOK, LockedMeansQueued
  <2> QED
    BY <2>7, <2>8, <2>9 DEF HandsOK, LockedMeansQueued
<1> QED
  BY <1>1, <1>2, <1>3, <1>4 DEF WriterThread, PoolThread

LEMMA MainKeepsHands ==
    ASSUME TypeOK, HandsOK, MainThread
    PROVE  HandsOK'
PROOF
<1>1. UNCHANGED <<cleared, buffers>>
  BY DEF MainThread, MainGoes, bufferVars
<1>2. CASE main' # "freed" /\ main # "freed"
  <2>1. UNCHANGED <<taskList, worker, job>>
    BY <1>2 DEF MainThread, MainGoes, SetAbort, WakeAll, poolVars
  <2>2. \A j : (Queued(j)' <=> Queued(j)) /\ (Written(j)' <=> Written(j))
    BY <2>1 DEF Queued, Written, Runs
  <2> QED
    BY <1>1, <1>2, <2>1, <2>2 DEF HandsOK, TasksOK, LockedMeansQueued, Runs, Indices
<1>3. CASE main' = "freed"
  <2>1. taskList' = <<>> /\ UNCHANGED <<worker, job>>
    BY <1>3 DEF MainThread, MainGoes, JoinAndDrop
  <2>2. DOMAIN taskList' = {} /\ \A j : ~Queued(j)'
    BY <2>1 DEF Queued
  <2> QED
    BY <1>1, <1>3, <2>1, <2>2 DEF HandsOK, TasksOK, LockedMeansQueued, Runs, Indices
<1> QED
  BY <1>2, <1>3 DEF MainThread, MainGoes

LEMMA HandsStep ==
    ASSUME TypeOK, TargetsOK, MainOK, HandsOK, [Next]_vars
    PROVE  HandsOK'
PROOF
<1>1. ASSUME NEW t \in Threads, Quiet(t) \/ Synchronise(t)
      PROVE  UNCHANGED handVars
  BY <1>1 DEF Quiet, Test, ReceiveDatagram, NextStream, AllVisited, DecodeStop,
     DumpPacket, CopyPacket, CheckBuffer, AllChecked, CountStreams, Synchronise,
     poolVars, bufferVars, handVars
<1>2. CASE TimePasses \/ SpuriousWakeUp \/ UNCHANGED vars
  <2>1. UNCHANGED handVars
    BY <1>2 DEF TimePasses, SecondPasses, SpuriousWakeUp, vars, poolVars, bufferVars,
       receiverVars, handVars
  <2> QED
    BY <2>1, HandsStutter
<1> QED
  BY <1>1, <1>2, HandsStutter, StoreKeepsHands, LockKeepsHands, WriterKeepsHands,
     MainKeepsHands, StepKinds

-----------------------------------------------------------------------------
(* The targets of the threads                                               *)
(* A thread changes its own places only.                                    *)
LEMMA ThreadsAreLocal ==
    ASSUME TypeOK, NEW t \in Threads,
           Quiet(t) \/ Stores(t) \/ Synchronise(t) \/ LockBuffer(t)
    PROVE  \A u \in Threads \ {t} :
             /\ at'[u] = at[u]
             /\ visiting'[u] = visiting[u]
             /\ heapOf'[u] = heapOf[u]
             /\ target'[u] = target[u]
PROOF
<1> USE DEF TypeOK, Goto, threadVars
<1>1. CASE Test(t) \/ ReceiveDatagram(t) \/ NextStream(t) \/ AllVisited(t)
  BY <1>1 DEF Test, ReceiveDatagram, NextStream, AllVisited
<1>2. CASE DecodeStop(t) \/ DumpPacket(t) \/ CopyPacket(t)
  BY <1>2 DEF DecodeStop, DumpPacket, CopyPacket
<1>3. CASE CheckBuffer(t) \/ AllChecked(t) \/ CountStreams(t)
  BY <1>3 DEF CheckBuffer, AllChecked, CountStreams
<1>4. CASE Stores(t)
  BY <1>4 DEF Stores, AssignBuffer, DecodePacket
<1>5. CASE Synchronise(t) \/ LockBuffer(t)
  BY <1>5 DEF Synchronise, PassBarrier, LockBuffer
<1> QED
  BY <1>1, <1>2, <1>3, <1>4, <1>5 DEF Quiet

TargetOK(t) ==
    /\ at[t] \in {"decode", "assign", "copy"} => visiting[t] \in Streams
    /\ at[t] \in {"assign", "copy"} => heapOf[t] \in Heaps
    /\ at[t] = "check" => target[t] \in 1 .. Len(buffers) + 1
    /\ at[t] = "lock" => target[t] \in Indices

LEMMA TargetsByThread ==
    /\ TargetsOK <=> \A t \in Threads : TargetOK(t)
    /\ TargetsOK' <=> \A t \in Threads : TargetOK(t)'
BY DEF TargetsOK, TargetOK

(* The mover.                                                               *)
LEMMA MoverTarget ==
    ASSUME TypeOK, TargetsOK, NEW t \in Threads,
           Quiet(t) \/ Stores(t) \/ Synchronise(t) \/ LockBuffer(t)
    PROVE  TargetOK(t)'
PROOF
<1>0. TargetOK(t) /\ buffers \in Seq(Buffer)
  BY TargetsByThread DEF TypeOK, BuffersTypeOK
<1> USE DEF TypeOK, Goto, threadVars, bufferVars, Indices, TargetOK
<1>1. CASE Test(t) \/ ReceiveDatagram(t) \/ NextStream(t) \/ AllVisited(t)
  BY <1>0, <1>1 DEF Test, ReceiveDatagram, NextStream, AllVisited
<1>2. CASE DecodeStop(t) \/ DumpPacket(t) \/ CopyPacket(t)
  BY <1>0, <1>2 DEF DecodeStop, DumpPacket, CopyPacket
<1>3. CASE CheckBuffer(t) \/ AllChecked(t) \/ CountStreams(t)
  BY <1>0, <1>3 DEF CheckBuffer, AllChecked, CountStreams
<1>4. CASE Stores(t)
  BY <1>0, <1>4 DEF Stores, AssignBuffer, DecodePacket
<1>5. CASE Synchronise(t)
  <2>1. UNCHANGED buffers /\ at[t] \in {"sync1", "sync2"}
    BY <1>5 DEF Synchronise, Waits
  <2>2. CASE UNCHANGED at
    BY <2>1, <2>2
  <2>3. CASE PassBarrier(t)
    BY <1>0, <2>1, <2>3 DEF PassBarrier, AfterSync
  <2> QED
    BY <1>5, <2>2, <2>3 DEF Synchronise
<1>6. CASE LockBuffer(t)
  <2>1. Len(buffers') = Len(buffers)
    BY <1>0, <1>6 DEF LockBuffer, Lock
  <2> QED
    BY <1>0, <1>6, <2>1 DEF LockBuffer
<1> QED
  BY <1>1, <1>2, <1>3, <1>4, <1>5, <1>6 DEF Quiet

LEMMA TargetsStep ==
    ASSUME TypeOK, TargetsOK, TasksOK, [Next]_vars
    PROVE  TargetsOK'
PROOF
<1>0. /\ Indices \subseteq Indices'
      /\ Indices = 1 .. Len(buffers) /\ Indices' = 1 .. Len(buffers')
      /\ Len(buffers) \in Nat /\ Len(buffers') \in Nat
  BY BuffersStepType DEF TypeOK, BuffersTypeOK, Indices
<1>1. ASSUME NEW u \in Threads,
             at'[u] = at[u], visiting'[u] = visiting[u],
             heapOf'[u] = heapOf[u], target'[u] = target[u]
      PROVE  TargetOK(u)'
  <2>1. Len(buffers) <= Len(buffers')
    BY <1>0
  <2> QED
    BY <1>0, <1>1, <2>1, TargetsByThread DEF TargetOK
<1>2. ASSUME NEW t \in Threads, Quiet(t) \/ Stores(t) \/ Synchronise(t) \/ LockBuffer(t)
      PROVE  TargetsOK'
  BY <1>1, <1>2, MoverTarget, ThreadsAreLocal, TargetsByThread
<1>3. CASE (\E w \in Workers : WriterThread(w)) \/ MainThread \/ TimePasses
             \/ SpuriousWakeUp \/ UNCHANGED vars
  <2>1. UNCHANGED <<at, visiting, heapOf, target>>
    BY <1>3 DEF WriterThread, ClearBuffer, UnlockBuffer, MainThread, MainGoes, TimePasses,
       SpuriousWakeUp, vars, receiverVars, threadVars
  <2> QED
    BY <1>1, <2>1, TargetsByThread
<1> QED
  BY <1>2, <1>3, StepKinds

-----------------------------------------------------------------------------
(* The main thread                                                          *)
LEMMA MainStep ==
    ASSUME TypeOK, MainOK, [Next]_vars
    PROVE  MainOK'
PROOF
<1>1. ASSUME NEW t \in Threads, Quiet(t) \/ Stores(t) \/ Synchronise(t) \/ LockBuffer(t)
      PROVE  MainOK'
  <2>1. at[t] # "end"
    BY <1>1 DEF Quiet, Test, ReceiveDatagram, NextStream, AllVisited, DecodeStop,
       DumpPacket, CopyPacket, CheckBuffer, AllChecked, CountStreams, Stores,
       AssignBuffer, DecodePacket, Synchronise, Waits, LockBuffer
  <2>2. main = "join"
    BY <2>1 DEF MainOK
  <2>3. main' = main
    BY <1>1 DEF Quiet, Test, ReceiveDatagram, NextStream, AllVisited, DecodeStop,
       DumpPacket, CopyPacket, CheckBuffer, AllChecked, CountStreams, Stores,
       AssignBuffer, DecodePacket, Synchronise, LockBuffer
  <2> QED
    BY <2>2, <2>3 DEF MainOK
<1>2. ASSUME NEW w \in Workers, WriterThread(w)
      PROVE  MainOK'
  <2>1. UNCHANGED <<at, main>>
    BY <1>2 DEF WriterThread, ClearBuffer, UnlockBuffer, receiverVars, threadVars
  <2>2. main # "freed"
    <3>1. worker[w] # "ended" \/ w \in cleared
      BY <1>2 DEF WriterThread, ClearBuffer, UnlockBuffer, Return, PoolThread, TakeTask,
         WaitForTask, GiveUp, SignalIdle, CanTake, Runs
    <3>2. worker[w] # "ended"
      BY <1>2, <3>1 DEF WriterThread, ClearBuffer, UnlockBuffer, Return, PoolThread,
         TakeTask, WaitForTask, GiveUp, SignalIdle, CanTake, Runs
    <3> QED
      BY <3>2 DEF MainOK
  <2> QED
    BY <2>1, <2>2 DEF MainOK
<1>3. CASE MainThread
  BY <1>3 DEF MainThread, MainGoes, JoinAndDrop, threadVars, MainOK
<1>4. CASE TimePasses \/ SpuriousWakeUp \/ UNCHANGED vars
  <2>1. UNCHANGED <<at, main, worker>>
    BY <1>4 DEF TimePasses, SpuriousWakeUp, vars, receiverVars, threadVars, poolVars
  <2> QED
    BY <2>1 DEF MainOK
<1> QED
  BY <1>1, <1>2, <1>3, <1>4, StepKinds

-----------------------------------------------------------------------------
(* Ended streams                                                            *)
LEMMA AllStreamsDone ==
    ASSUME done \subseteq Streams, Cardinality(done) = NumStreams
    PROVE  done = Streams
PROOF
<1>1. /\ IsFiniteSet(0 .. NumStreams - 1)
      /\ Cardinality(0 .. NumStreams - 1) =
           IF 0 > NumStreams - 1 THEN 0 ELSE (NumStreams - 1) - 0 + 1
  BY FS_Interval, ReceiverAssumption
<1>2. IsFiniteSet(Streams) /\ Cardinality(Streams) = NumStreams
  BY <1>1, ReceiverAssumption DEF Streams
<1> QED
  BY <1>2, FS_Subset

LEMMA CountStep ==
    ASSUME TypeOK, SameSide, TargetsOK, CountOK, BlocksUntilDone, [Next]_vars
    PROVE  CountOK' /\ BlocksUntilDone'
PROOF
<1> USE DEF TypeOK, CountOK, BlocksUntilDone
<1>1. ASSUME NEW t \in Threads,
             Quiet(t) \/ Stores(t) \/ Synchronise(t) \/ LockBuffer(t)
      PROVE  CountOK' /\ BlocksUntilDone'
  <2>0. \A u \in Threads \ {t} : at'[u] = at[u]
    BY <1>1, ThreadsAreLocal
  <2>1. CASE Test(t)
    BY <2>0, <2>1 DEF Test, Goto, streamVars
  <2>2. CASE AllChecked(t)
    BY <2>0, <2>2, ReceiverAssumption DEF AllChecked, Goto, streamVars
  <2>3. CASE CountStreams(t)
    <3>1. completed' = Cardinality(done) /\ done' = done
      <4>1. Cardinality(done) \in Nat
        BY StreamsFinite, ReceiverAssumption
      <4> QED
        BY <2>3, <4>1 DEF CountStreams, streamVars
    <3>2. \A u \in Threads : at'[u] # "count" /\ (at'[u] = "end" => at[u] = "end")
      BY <2>0, <2>3 DEF CountStreams, Goto, SameSide
    <3> QED
      BY <3>1, <3>2, AllStreamsDone
  <2>4. CASE DecodeStop(t)
    <3>1. done \subseteq done' /\ done' \subseteq Streams
      BY <2>4 DEF DecodeStop, TargetsOK
    <3> QED
      BY <2>4, <3>1 DEF DecodeStop, threadVars
  <2>5. CASE \/ ReceiveDatagram(t) \/ NextStream(t) \/ AllVisited(t) \/ DumpPacket(t)
             \/ CopyPacket(t) \/ CheckBuffer(t) \/ Stores(t) \/ Synchronise(t)
             \/ LockBuffer(t)
    <3>1. UNCHANGED <<completed, done>>
      BY <2>5 DEF ReceiveDatagram, NextStream, AllVisited, DumpPacket, CopyPacket,
         CheckBuffer, Stores, AssignBuffer, DecodePacket, Synchronise, LockBuffer, streamVars
    <3>2. at'[t] \notin {"count", "end"}
      <4>1. CASE Synchronise(t)
        BY <4>1 DEF Synchronise, Waits, PassBarrier, AfterSync, Goto
      <4>2. CASE Stores(t)
        BY <4>2 DEF Stores, AssignBuffer, DecodePacket, Goto
      <4> QED
        BY <2>5, <4>1, <4>2 DEF ReceiveDatagram, NextStream, AllVisited, DumpPacket,
           CopyPacket, CheckBuffer, LockBuffer, Goto
    <3> QED
      BY <2>0, <3>1, <3>2
  <2> QED
    BY <1>1, <2>1, <2>2, <2>3, <2>4, <2>5 DEF Quiet
<1>2. CASE (\E w \in Workers : WriterThread(w)) \/ MainThread \/ TimePasses
             \/ SpuriousWakeUp \/ UNCHANGED vars
  <2>1. UNCHANGED <<at, completed, done>>
    BY <1>2 DEF WriterThread, ClearBuffer, UnlockBuffer, MainThread, MainGoes, TimePasses,
       SpuriousWakeUp, vars, receiverVars, threadVars, streamVars
  <2> QED
    BY <2>1
<1> QED
  BY <1>1, <1>2, StepKinds

-----------------------------------------------------------------------------
(* Copies                                                                   *)
CopyOK(t) ==
    at[t] = "copy" =>
        /\ target[t] \in Indices
        /\ Covers(target[t], heapOf[t])
        /\ buffers[target[t]].filled
        /\ ~buffers[target[t]].locked

(* What a step leaves alone if it does not disturb the copies of others.    *)
Undisturbed ==
    \A i \in Indices : buffers[i].filled /\ ~buffers[i].locked =>
        /\ i \in Indices'
        /\ buffers'[i].start = buffers[i].start
        /\ buffers'[i].filled
        /\ ~buffers'[i].locked

LEMMA CopyStays ==
    ASSUME Undisturbed, NEW t \in Threads, CopyOK(t),
           at'[t] = at[t], target'[t] = target[t], heapOf'[t] = heapOf[t]
    PROVE  CopyOK(t)'
BY DEF Undisturbed, CopyOK, Covers

(* A thread begins to copy by storing only.                                 *)
LEMMA OnlyStoresCopy ==
    ASSUME TypeOK, NEW t \in Threads, Quiet(t) \/ Synchronise(t) \/ LockBuffer(t)
    PROVE  at'[t] # "copy"
PROOF
<1> USE DEF TypeOK, Goto, threadVars
<1>1. CASE Test(t) \/ ReceiveDatagram(t) \/ NextStream(t) \/ AllVisited(t)
  BY <1>1 DEF Test, ReceiveDatagram, NextStream, AllVisited
<1>2. CASE DecodeStop(t) \/ DumpPacket(t) \/ CopyPacket(t)
  BY <1>2 DEF DecodeStop, DumpPacket, CopyPacket
<1>3. CASE CheckBuffer(t) \/ AllChecked(t) \/ CountStreams(t)
  BY <1>3 DEF CheckBuffer, AllChecked, CountStreams
<1>4. CASE Synchronise(t)
  BY <1>4 DEF Synchronise, Waits, PassBarrier, AfterSync
<1>5. CASE LockBuffer(t)
  BY <1>5 DEF LockBuffer
<1> QED
  BY <1>1, <1>2, <1>3, <1>4, <1>5 DEF Quiet

(* While a thread copies, thread 0 is not between the barriers.             *)
LEMMA NoLockDuringCopy ==
    ASSUME SameSide, NEW t \in Threads, at[t] = "copy", NEW u \in Threads
    PROVE  ~LockBuffer(u)
BY DEF SameSide, SecondPart, LockBuffer

(* The pool clears and unlocks locked buffers, and no others.               *)
LEMMA WriterIsHarmless ==
    ASSUME TypeOK, HandsOK, MainOK, NEW w \in Workers, WriterThread(w)
    PROVE  Undisturbed
PROOF
<1>1. CASE UNCHANGED buffers
  BY <1>1 DEF Undisturbed, Indices
<1>2. CASE ClearBuffer(w) \/ UnlockBuffer(w)
  <2> DEFINE i == job[w]
  <2>1. Runs(w) /\ (Clear(i) \/ Unlock(i))
    BY <1>2 DEF ClearBuffer, UnlockBuffer, Return
  <2>2. i \in Indices
    BY <2>1 DEF HandsOK, TasksOK
  <2>3. main # "freed"
    BY <2>1 DEF MainOK, Runs
  <2>4. buffers[i].locked
    BY <2>1, <2>2, <2>3 DEF HandsOK, LockedMeansQueued, Written
  <2>5. \A j \in Indices \ {i} : j \in Indices' /\ buffers'[j] = buffers[j]
    BY <2>1, <2>2 DEF Clear, Unlock, Indices, TypeOK, BuffersTypeOK
  <2> QED
    BY <2>4, <2>5 DEF Undisturbed
<1> QED
  BY <1>1, <1>2 DEF WriterThread, bufferVars

LEMMA CopiesStep ==
    ASSUME TypeOK, SameSide, TargetsOK, HandsOK, MainOK, CopiesAreSafe, [Next]_vars
    PROVE  CopiesAreSafe'
PROOF
<1>0. \A t \in Threads : CopyOK(t)
  BY DEF CopiesAreSafe, CopyOK
<1>1. SUFFICES ASSUME NEW u \in Threads, at'[u] = "copy"
               PROVE  CopyOK(u)'
  BY DEF CopiesAreSafe, CopyOK
<1>2. ASSUME NEW t \in Threads, Stores(t)
      PROVE  CopyOK(u)'
  <2>1. CASE u = t
    BY <1>1, <1>2, <2>1, StoreChanges DEF CopyOK
  <2>2. CASE u # t
    <3>1. Undisturbed
      BY <1>2, StoreChanges DEF Undisturbed
    <3> QED
      BY <1>0, <1>2, <2>2, <3>1, ThreadsAreLocal, CopyStays
  <2> QED
    BY <2>1, <2>2
<1>3. ASSUME NEW t \in Threads, Quiet(t) \/ Synchronise(t) \/ LockBuffer(t)
      PROVE  CopyOK(u)'
  <2>1. u # t
    BY <1>1, <1>3, OnlyStoresCopy
  <2>2. at[u] = "copy" /\ at'[u] = at[u] /\ target'[u] = target[u] /\ heapOf'[u] = heapOf[u]
    BY <1>1, <1>3, <2>1, ThreadsAreLocal
  <2>3. UNCHANGED buffers
    BY <1>3, <2>2, NoLockDuringCopy DEF Quiet, Test, ReceiveDatagram, NextStream,
       AllVisited, DecodeStop, DumpPacket, CopyPacket, CheckBuffer, AllChecked,
       CountStreams, Synchronise, bufferVars
  <2> QED
    BY <1>0, <2>2, <2>3, CopyStays DEF Undisturbed, Indices
<1>4. ASSUME NEW w \in Workers, WriterThread(w)
      PROVE  CopyOK(u)'
  <2>1. UNCHANGED <<at, target, heapOf>>
    BY <1>4 DEF WriterThread, ClearBuffer, UnlockBuffer, receiverVars, threadVars
  <2> QED
    BY <1>0, <1>4, <2>1, WriterIsHarmless, CopyStays
<1>5. CASE MainThread \/ TimePasses \/ SpuriousWakeUp \/ UNCHANGED vars
  <2>1. UNCHANGED <<at, target, heapOf, buffers>>
    BY <1>5 DEF MainThread, MainGoes, TimePasses, SecondPasses, SpuriousWakeUp, vars,
       receiverVars, threadVars, bufferVars
  <2> QED
    BY <1>0, <2>1, CopyStays DEF Undisturbed, Indices
<1> QED
  BY <1>2, <1>3, <1>4, <1>5, StepKinds

-----------------------------------------------------------------------------
(* The invariant and what follows from it                                   *)
LEMMA InitIInv ==
    ASSUME Init
    PROVE  IInv
PROOF
<1>1. BarrierInv
  BY BarrierStarts DEF Init
<1>2. buffers = <<>> /\ taskList = <<>> /\ DOMAIN buffers = {} /\ DOMAIN taskList = {}
  BY DEF Init, BuffersInit, PoolInit
<1>3. \A t \in Threads : at[t] = "test" /\ seen[t] = Outside
  BY DEF Init, ThreadsStart, BarrierInit
<1>4. SameSide
  BY <1>3 DEF SameSide, SecondPart
<1>5. TargetsOK
  BY <1>3 DEF TargetsOK
<1>6. TasksOK /\ LockedMeansQueued
  BY <1>2 DEF Init, PoolInit, TasksOK, LockedMeansQueued, Queued, Written, Runs, Indices
<1>7. MainOK
  BY DEF Init, ThreadsStart, MainOK
<1>8. CopiesAreSafe /\ BlocksUntilDone
  BY <1>3 DEF CopiesAreSafe, BlocksUntilDone
<1>9. CountOK
  BY <1>3, ReceiverAssumption DEF CountOK, Init
<1> QED
  BY InitTypeOK, <1>1, <1>4, <1>5, <1>6, <1>7, <1>8, <1>9 DEF IInv

LEMMA IInvStep ==
    ASSUME IInv, [Next]_vars
    PROVE  IInv'
PROOF
<1> USE DEF IInv
<1>1. TypeOK' /\ BarrierInv'
  BY TypeStep, BarrierStep2
<1>2. SameSide'
  BY SideStep
<1>3. TargetsOK' /\ MainOK' /\ CountOK' /\ BlocksUntilDone'
  BY TargetsStep, MainStep, CountStep
<1>4. TasksOK' /\ LockedMeansQueued'
  BY HandsStep DEF HandsOK
<1>5. CopiesAreSafe'
  BY CopiesStep DEF HandsOK
<1> QED
  BY <1>1, <1>2, <1>3, <1>4, <1>5

(* The inductive invariant of the receiver.                                 *)
THEOREM Invariant == Spec => []IInv
PROOF
<1>1. Init => IInv
  BY InitIInv
<1>2. IInv /\ [Next]_vars => IInv'
  BY IInvStep
<1> QED
  BY <1>1, <1>2, PTL DEF Spec

(* Every variable of the receiver keeps to its type; in particular there    *)
(* are never more than max_num_buffers buffers.                             *)
THEOREM TypeCorrect == Spec => []TypeOK
PROOF
<1>1. IInv => TypeOK
  BY DEF IInv
<1> QED
  BY <1>1, Invariant, PTL

(* The memcpy of thread_receive needs no lock: nobody writes, clears or     *)
(* re-purposes the buffer that a thread copies a packet to.                 *)
THEOREM CopiesProtected == Spec => []CopiesAreSafe
PROOF
<1>1. IInv => CopiesAreSafe
  BY DEF IInv
<1> QED
  BY <1>1, Invariant, PTL

(* locked_for_write of a buffer stands for exactly one task of the pool.    *)
THEOREM LockedBuffersHaveOneTask == Spec => []LockedMeansQueued
PROOF
<1>1. IInv => LockedMeansQueued
  BY DEF IInv
<1> QED
  BY <1>1, Invariant, PTL

(* The receiver blocks until all streams have finished.                     *)
THEOREM BlocksUntilStreamsEnd == Spec => []BlocksUntilDone
PROOF
<1>1. IInv => BlocksUntilDone
  BY DEF IInv
<1> QED
  BY <1>1, Invariant, PTL

(* receiver_free frees the buffers after all threads have ended.            *)
THEOREM NothingFreedEarly == Spec => []FreedLast
PROOF
<1>1. IInv => FreedLast
  BY DEF IInv, MainOK, FreedLast
<1> QED
  BY <1>1, Invariant, PTL

(* Nobody receives while thread 0 looks at what the others write.           *)
THEOREM OthersWaitForThreadZero == Spec => []ThreadZeroAlone
PROOF
<1>1. IInv => ThreadZeroAlone
  BY DEF IInv, SameSide, SecondPart, ThreadZeroAlone, Waits
<1> QED
  BY <1>1, Invariant, PTL

-----------------------------------------------------------------------------
(* A pass of thread 0 over the buffers                                      *)
(* What happens to the flags of a buffer.                                   *)
LEMMA FlagChanges ==
    ASSUME BuffersTypeOK, NEW i \in Indices, Lock(i) \/ Unlock(i) \/ Clear(i)
    PROVE  /\ Indices' = Indices
           /\ recent' = recent
           /\ \A j \in Indices \ {i} : buffers'[j] = buffers[j]
           /\ buffers'[i].start = buffers[i].start
           /\ Lock(i) => buffers'[i].locked /\ buffers'[i].filled = buffers[i].filled
           /\ Unlock(i) => ~buffers'[i].locked /\ buffers'[i].filled = buffers[i].filled
           /\ Clear(i) => ~buffers'[i].filled /\ buffers'[i].locked = buffers[i].locked
PROOF
<1>1. buffers[i] \in Buffer /\ Indices = DOMAIN buffers
  BY DEF BuffersTypeOK, Indices
<1>2. CASE Lock(i)
  BY <1>1, <1>2 DEF Lock, Unlock, Clear, Buffer, Indices
<1>3. CASE Unlock(i)
  BY <1>1, <1>3 DEF Lock, Unlock, Clear, Buffer, Indices
<1>4. CASE Clear(i)
  BY <1>1, <1>4 DEF Lock, Unlock, Clear, Buffer, Indices
<1> QED
  BY <1>2, <1>3, <1>4

LEMMA StoreSparesLocked ==
    ASSUME TypeOK, NEW t \in Threads, Stores(t)
    PROVE  \A i \in Indices : buffers[i].locked => buffers'[i] = buffers[i]
PROOF
<1> USE DEF TypeOK, BuffersTypeOK, Indices
<1>1. CASE \E heap \in Heaps : DecodePacket(t, heap)
  BY <1>1 DEF DecodePacket, AddTo, IsMatch, Takes, bufferVars
<1>2. CASE AssignBuffer(t)
  <2>1. CASE \E i \in Indices : Repurpose(i, heapOf[t])
    BY <2>1 DEF Repurpose, Repurposable, Idle
  <2>2. CASE Allocate(heapOf[t])
    <3>1. PICK b : buffers' = Append(buffers, b)
      BY <2>2 DEF Allocate
    <3>2. \A i \in 1 .. Len(buffers) : buffers'[i] = buffers[i]
      BY <3>1
    <3>3. DOMAIN buffers = 1 .. Len(buffers)
      OBVIOUS
    <3> QED
      BY <3>2, <3>3
  <2> QED
    BY <1>2, <2>1, <2>2 DEF AssignBuffer
<1> QED
  BY <1>1, <1>2 DEF Stores

(* The buffer that a worker has cleared is empty until it is unlocked.      *)
ClearedEmpty == \A w \in cleared : ~buffers[job[w]].filled

(* What thread 0 has passed by has no data, or is locked, or is recent.     *)
Settled(i) == buffers[i].filled /\ ~buffers[i].locked => IsRecent(i)

PassedBy ==
    \A t \in Threads : at[t] \in {"check", "lock"} =>
        \A i \in Indices : i < target[t] => Settled(i)

PassInv == IInv /\ ClearedEmpty /\ PassedBy

(* The buffer of a worker that runs a task is locked.                       *)
LEMMA JobIsLocked ==
    ASSUME IInv, NEW w \in Workers, Runs(w)
    PROVE  job[w] \in Indices /\ buffers[job[w]].locked
PROOF
<1>1. job[w] \in Indices
  BY DEF IInv, TasksOK
<1>2. main # "freed"
  BY DEF IInv, MainOK, Runs
<1> QED
  BY <1>1, <1>2 DEF IInv, LockedMeansQueued, Written

LEMMA ClearedStep ==
    ASSUME IInv, ClearedEmpty, [Next]_vars
    PROVE  ClearedEmpty'
PROOF
<1>0. \A w \in cleared : w \in Workers /\ Runs(w)
  BY DEF IInv, TasksOK, TypeOK
<1>1. \A w \in cleared : job[w] \in Indices /\ buffers[job[w]].locked
  BY <1>0, JobIsLocked
<1>2. ASSUME NEW t \in Threads, Stores(t)
      PROVE  ClearedEmpty'
  <2>1. UNCHANGED <<cleared, job>>
    BY <1>2 DEF Stores, AssignBuffer, DecodePacket, poolVars
  <2>2. \A i \in Indices : buffers[i].locked => buffers'[i] = buffers[i]
    BY <1>2, StoreSparesLocked DEF IInv
  <2> QED
    BY <1>1, <2>1, <2>2 DEF ClearedEmpty
<1>3. ASSUME NEW t \in Threads, Quiet(t) \/ Synchronise(t)
      PROVE  UNCHANGED <<cleared, job, buffers>>
  BY <1>3 DEF Quiet, Test, ReceiveDatagram, NextStream, AllVisited, DecodeStop,
     DumpPacket, CopyPacket, CheckBuffer, AllChecked, CountStreams, Synchronise,
     poolVars, bufferVars
<1>4. ASSUME NEW t \in Threads, LockBuffer(t)
      PROVE  ClearedEmpty'
  <2>1. UNCHANGED <<cleared, job>>
    BY <1>4 DEF LockBuffer, Enqueue, poolVars
  <2>2. \A i \in Indices : buffers'[i].filled = buffers[i].filled
    <3>1. CASE UNCHANGED bufferVars
      BY <3>1 DEF bufferVars
    <3>2. CASE Lock(target[t])
      BY <1>4, <3>2, FlagChanges DEF LockBuffer, IInv, TypeOK, TargetsOK
    <3> QED
      BY <1>4, <3>1, <3>2 DEF LockBuffer
  <2> QED
    BY <1>1, <2>1, <2>2 DEF ClearedEmpty
<1>5. ASSUME NEW w \in Workers, WriterThread(w)
      PROVE  ClearedEmpty'
  <2>1. CASE ClearBuffer(w)
    <3>1. cleared' = cleared \union {w} /\ job' = job /\ Clear(job[w]) /\ job[w] \in Indices
      BY <2>1, JobIsLocked DEF ClearBuffer, poolVars
    <3>2. /\ ~buffers'[job[w]].filled
          /\ \A i \in Indices : buffers'[i].filled => buffers[i].filled
      BY <3>1, FlagChanges DEF IInv, TypeOK
    <3> QED
      BY <1>1, <3>1, <3>2 DEF ClearedEmpty
  <2>2. CASE UnlockBuffer(w)
    <3>1. /\ cleared' = cleared \ {w}
          /\ \A v \in Workers \ {w} : job'[v] = job[v]
          /\ Unlock(job[w]) /\ job[w] \in Indices
      BY <2>2, JobIsLocked DEF UnlockBuffer, Return
    <3>2. \A i \in Indices : buffers'[i].filled = buffers[i].filled
      BY <3>1, FlagChanges DEF IInv, TypeOK
    <3> QED
      BY <1>0, <1>1, <3>1, <3>2 DEF ClearedEmpty
  <2>3. CASE PoolThread(w) /\ UNCHANGED <<bufferVars, receiverVars>>
    <3>1. UNCHANGED <<cleared, buffers>>
      BY <2>3 DEF bufferVars, receiverVars
    <3>2. \A v \in Workers : Runs(v) => job'[v] = job[v]
      <4>1. CASE TakeTask(w)
        BY <4>1 DEF TakeTask, CanTake, Runs, IInv, TypeOK, PoolTypeOK
      <4>2. CASE WaitForTask(w) \/ GiveUp(w) \/ SignalIdle(w)
        BY <4>2 DEF WaitForTask, GiveUp, SignalIdle
      <4> QED
        BY <2>3, <4>1, <4>2 DEF PoolThread
    <3> QED
      BY <1>0, <3>1, <3>2 DEF ClearedEmpty
  <2> QED
    BY <1>5, <2>1, <2>2, <2>3 DEF WriterThread
<1>6. CASE MainThread \/ TimePasses \/ SpuriousWakeUp \/ UNCHANGED vars
  <2>1. UNCHANGED <<cleared, job, buffers>>
    BY <1>6 DEF MainThread, MainGoes, SetAbort, WakeAll, JoinAndDrop, TimePasses,
       SecondPasses, SpuriousWakeUp, vars, poolVars, bufferVars, receiverVars
  <2> QED
    BY <2>1 DEF ClearedEmpty
<1> QED
  BY <1>2, <1>3, <1>4, <1>5, <1>6, StepKinds DEF ClearedEmpty

(* The writer makes no buffer worse.                                        *)
LEMMA WriterSettles ==
    ASSUME IInv, ClearedEmpty, NEW w \in Workers, WriterThread(w)
    PROVE  /\ Indices' = Indices
           /\ \A i \in Indices : Settled(i) => Settled(i)'
PROOF
<1>1. CASE UNCHANGED bufferVars
  BY <1>1 DEF bufferVars, Settled, IsRecent, Indices
<1>2. CASE ClearBuffer(w)
  <2>1. Clear(job[w]) /\ job[w] \in Indices
    BY <1>2, JobIsLocked DEF ClearBuffer
  <2>2. \A i \in Indices : /\ buffers'[i].locked = buffers[i].locked
                           /\ buffers'[i].filled => buffers[i].filled
    BY <2>1, FlagChanges DEF IInv, TypeOK
  <2>3. Indices' = Indices /\ recent' = recent
    BY <2>1, FlagChanges DEF IInv, TypeOK
  <2> QED
    BY <2>2, <2>3 DEF Settled, IsRecent
<1>3. CASE UnlockBuffer(w)
  <2>1. Unlock(job[w]) /\ job[w] \in Indices /\ ~buffers[job[w]].filled
    BY <1>3, JobIsLocked DEF UnlockBuffer, Return, ClearedEmpty
  <2>2. \A i \in Indices : /\ buffers'[i].filled = buffers[i].filled
                           /\ i # job[w] => buffers'[i] = buffers[i]
    BY <2>1, FlagChanges DEF IInv, TypeOK
  <2>3. Indices' = Indices /\ recent' = recent
    BY <2>1, FlagChanges DEF IInv, TypeOK
  <2> QED
    BY <2>1, <2>2, <2>3 DEF Settled, IsRecent
<1> QED
  BY <1>1, <1>2, <1>3 DEF WriterThread

LEMMA PassedByStep ==
    ASSUME IInv, ClearedEmpty, PassedBy, [Next]_vars
    PROVE  PassedBy'
PROOF
<1> USE DEF IInv
<1>1. SUFFICES ASSUME NEW u \in Threads, at'[u] \in {"check", "lock"}
               PROVE  \A i \in Indices' : i < target'[u] => Settled(i)'
  BY DEF PassedBy
<1>2. ThreadZeroAlone'
  BY IInvStep DEF SameSide, SecondPart, ThreadZeroAlone, Waits
<1>3. u = 0 /\ \A t \in Threads \ {0} : at'[t] \in {"sync1", "sync2"}
  BY <1>1, <1>2 DEF ThreadZeroAlone, Waits
<1>4. ASSUME at[u] \in {"check", "lock"}, target'[u] = target[u], UNCHANGED bufferVars
      PROVE  \A i \in Indices' : i < target'[u] => Settled(i)'
  BY <1>4 DEF PassedBy, Settled, IsRecent, Indices, bufferVars
<1>5. ASSUME NEW t \in Threads, t # u, Quiet(t) \/ Stores(t) \/ LockBuffer(t)
      PROVE  FALSE
  <2>1. at[u] \in {"check", "lock"}
    BY <1>1, <1>5, ThreadsAreLocal
  <2>2. Waits(t)
    BY <1>3, <1>5, <2>1 DEF SameSide, SecondPart, Waits
  <2>3. ~SecondPart(t) \/ seen[t] # Outside \/ at[t] = "sync2"
    BY <2>2 DEF SecondPart, LetGo, Waits
  <2> QED
    BY <1>5, <2>2 DEF Quiet, Stores, Test, ReceiveDatagram, NextStream, AllVisited,
       DecodeStop, DumpPacket, CopyPacket, CheckBuffer, AllChecked, CountStreams,
       AssignBuffer, DecodePacket, LockBuffer, Waits
<1>6. CASE \E t \in Threads : t # u /\ Synchronise(t)
  <2>1. at[u] \in {"check", "lock"} /\ target'[u] = target[u] /\ UNCHANGED bufferVars
    BY <1>1, <1>6, ThreadsAreLocal DEF Synchronise
  <2> QED
    BY <1>4, <2>1
<1>7. CASE Quiet(u)
  <2>1. CASE CheckBuffer(u)
    <3>1. /\ UNCHANGED bufferVars
          /\ at[u] = "check"
          /\ \/ target'[u] = target[u]
             \/ target'[u] = target[u] + 1 /\ ~buffers[target[u]].filled
      BY <2>1 DEF CheckBuffer, TypeOK
    <3>2. target[u] \in Nat /\ \A i \in Indices : i \in Nat
      BY BuffersAssumption DEF TypeOK, BuffersTypeOK, Indices
    <3> QED
      BY <3>1, <3>2 DEF PassedBy, Settled, IsRecent, Indices, bufferVars
  <2>2. ~CheckBuffer(u) => at'[u] \notin {"check", "lock"}
    BY <1>7 DEF Quiet, Test, ReceiveDatagram, NextStream, AllVisited, DecodeStop,
       DumpPacket, CopyPacket, AllChecked, CountStreams, Goto, TypeOK, threadVars
  <2> QED
    BY <1>1, <2>1, <2>2
<1>8. CASE Stores(u)
  BY <1>1, <1>8 DEF Stores, AssignBuffer, DecodePacket, Goto, TypeOK
<1>9. CASE Synchronise(u)
  <2>1. UNCHANGED bufferVars /\ target'[u] = 1
    BY <1>1, <1>9 DEF Synchronise, Waits, PassBarrier, AfterSync, Goto, TypeOK
  <2> QED
    BY <2>1 DEF TypeOK, BuffersTypeOK, Indices, bufferVars
<1>10. CASE LockBuffer(u)
  <2> DEFINE i == target[u]
  <2>1. i \in Indices /\ target'[u] = i + 1 /\ at[u] = "lock"
    BY <1>10 DEF LockBuffer, TargetsOK, TypeOK
  <2>2. i \in Nat /\ \A j \in Indices : j \in Nat
    BY <2>1 DEF TypeOK, BuffersTypeOK, Indices
  <2>3. \A j \in Indices : j < i + 1 => j < i \/ j = i
    BY <2>2
  <2>4. CASE UNCHANGED bufferVars
    <3>1. Settled(i)
      <4>1. ~Lock(i) \/ buffers[i].locked
        BY <2>1, <2>4, FlagChanges DEF bufferVars, TypeOK
      <4> QED
        BY <1>10, <4>1 DEF LockBuffer, Settled
    <3> QED
      BY <2>1, <2>3, <2>4, <3>1 DEF PassedBy, Settled, IsRecent, Indices, bufferVars
  <2>5. CASE Lock(i)
    <3>1. Indices' = Indices /\ recent' = recent /\ buffers'[i].locked
      BY <2>1, <2>5, FlagChanges DEF TypeOK
    <3>2. \A j \in Indices \ {i} : buffers'[j] = buffers[j]
      BY <2>1, <2>5, FlagChanges DEF TypeOK
    <3> QED
      BY <2>1, <2>3, <3>1, <3>2 DEF PassedBy, Settled, IsRecent
  <2> QED
    BY <1>10, <2>4, <2>5 DEF LockBuffer
<1>11. CASE \E w \in Workers : WriterThread(w)
  <2>1. UNCHANGED <<at, target>>
    BY <1>11 DEF WriterThread, ClearBuffer, UnlockBuffer, receiverVars, threadVars
  <2> QED
    BY <1>1, <1>11, <2>1, WriterSettles DEF PassedBy
<1>12. CASE MainThread \/ SpuriousWakeUp \/ UNCHANGED vars
  <2>1. UNCHANGED <<at, target, bufferVars>>
    BY <1>12 DEF MainThread, MainGoes, SpuriousWakeUp, vars, receiverVars, threadVars,
       bufferVars
  <2> QED
    BY <1>1, <1>4, <2>1
<1>13. CASE TimePasses
  BY <1>1, <1>3, <1>13 DEF TimePasses, receiverVars, threadVars
<1> QED
  BY <1>5, <1>6, <1>7, <1>8, <1>9, <1>10, <1>11, <1>12, <1>13, StepKinds

LEMMA PassInvariant == Spec => []PassInv
PROOF
<1>1. Init => PassInv
  <2>1. Init => IInv
    BY InitIInv
  <2>2. Init => ClearedEmpty /\ PassedBy
    BY DEF Init, ThreadsStart, ClearedEmpty, PassedBy
  <2> QED
    BY <2>1, <2>2 DEF PassInv
<1>2. PassInv /\ [Next]_vars => PassInv'
  BY IInvStep, ClearedStep, PassedByStep DEF PassInv
<1> QED
  BY <1>1, <1>2, PTL DEF Spec

(* A pass over the buffers leaves no old data unwritten.                    *)
THEOREM PassLeavesOnlyRecent == Spec => LeavesOnlyRecent
PROOF
<1> DEFINE Left(t) == at[t] = "check" /\ at'[t] = "count" =>
             \A i \in Indices : buffers[i].filled /\ ~buffers[i].locked => IsRecent(i)
<1>1. ASSUME PassInv, [Next]_vars, NEW t \in Threads, at[t] = "check", at'[t] = "count"
      PROVE  AllChecked(t) \/ UNCHANGED vars
  <2> USE DEF PassInv, IInv
  <2>1. ASSUME NEW u \in Threads, Quiet(u) \/ Stores(u) \/ Synchronise(u) \/ LockBuffer(u)
        PROVE  u = t
    BY <1>1, <2>1, ThreadsAreLocal
  <2>2. CASE Quiet(t)
    BY <1>1, <2>2 DEF Quiet, Test, ReceiveDatagram, NextStream, AllVisited, DecodeStop,
       DumpPacket, CopyPacket, CheckBuffer, CountStreams, Goto, TypeOK, threadVars
  <2>3. ~Stores(t) /\ ~Synchronise(t) /\ ~LockBuffer(t)
    BY <1>1 DEF Stores, AssignBuffer, DecodePacket, Synchronise, Waits, LockBuffer
  <2>4. CASE (\E w \in Workers : WriterThread(w)) \/ MainThread \/ TimePasses
               \/ SpuriousWakeUp \/ UNCHANGED vars
    <3>1. UNCHANGED at
      BY <2>4 DEF WriterThread, ClearBuffer, UnlockBuffer, MainThread, MainGoes, TimePasses,
         SpuriousWakeUp, vars, receiverVars, threadVars
    <3> QED
      BY <1>1, <3>1
  <2> QED
    BY <1>1, <2>1, <2>2, <2>3, <2>4, StepKinds
<1>2. ASSUME PassInv, NEW t \in Threads, AllChecked(t)
      PROVE  \A i \in Indices : buffers[i].filled /\ ~buffers[i].locked => IsRecent(i)
  <2>1. at[t] = "check" /\ target[t] = Len(buffers) + 1
    BY <1>2 DEF AllChecked, PassInv, IInv, TargetsOK, TypeOK, BuffersTypeOK, Indices
  <2>2. \A i \in Indices : i < target[t]
    BY <2>1 DEF PassInv, IInv, TypeOK, BuffersTypeOK, Indices
  <2>3. \A i \in Indices : Settled(i)
    <3>1. PassedBy /\ at[t] \in {"check", "lock"}
      BY <1>2, <2>1 DEF PassInv
    <3> QED
      BY <2>2, <3>1 DEF PassedBy
  <2> QED
    BY <2>3 DEF Settled
<1>3. PassInv /\ [Next]_vars => [\A t \in Threads : Left(t)]_vars
  BY <1>1, <1>2
<1> QED
  BY <1>3, PassInvariant, PTL DEF Spec, LeavesOnlyRecent

-----------------------------------------------------------------------------
(* Who sleeps, and who will wake him                                        *)

(* The loops end together: while a thread is on its way to the first        *)
(* barrier, the streams were not all counted; once one has ended, the       *)
(* others are on their way from the second barrier to their own end.        *)
FirstPart(t) ==
    \/ at[t] \in {"visit", "decode", "assign", "copy"}
    \/ at[t] = "sync1" /\ ~LetGo(t)

Ending(t) ==
    \/ at[t] \in {"test", "end"}
    \/ at[t] = "sync2" /\ LetGo(t)

EndTogether ==
    /\ \A t \in Threads : FirstPart(t) => completed # NumStreams
    /\ \A t \in Threads : at[t] = "end" =>
         completed = NumStreams /\ \A u \in Threads : Ending(u)

SleepersAreHere == \A t \in asleep : seen[t] = iter

(* Every task in the list has a worker on its way to it, if any sleeps.     *)
Takers == {w \in Workers : CanTake(w)}

TasksHaveTakers == idle # {} /\ ~doAbort => Len(taskList) <= Cardinality(Takers)

AbortWakes ==
    /\ doAbort <=> main \in {"wake", "drop", "freed"}
    /\ main \in {"drop", "freed"} => idle = {}

(* Only workers that look for a task sleep.                                 *)
IdleTake == \A w \in idle : worker[w] = "take"

SleepInv ==
    /\ IInv
    /\ EndTogether
    /\ IdleTake
    /\ SleepersAreHere
    /\ TasksHaveTakers
    /\ AbortWakes

LEMMA SleepersStep ==
    ASSUME BarrierInv, SleepersAreHere, [Next]_vars
    PROVE  SleepersAreHere'
PROOF
<1>1. ASSUME NEW t \in Threads, BarrierStep(t)
      PROVE  SleepersAreHere'
  BY <1>1 DEF BarrierStep, ArriveEarly, ArriveLast, Leave, WakeForNothing, SleepAgain,
     SleepersAreHere, BarrierInv, BarrierTypeOK
<1>2. CASE UNCHANGED barrierVars
  BY <1>2 DEF barrierVars, SleepersAreHere
<1> QED
  BY <1>1, <1>2, BarrierSteps

(* A thread that starts or ends a turn of its loop.                         *)
LEMMA QuietEnds ==
    ASSUME TypeOK, SameSide, EndTogether, NEW t \in Threads,
           Quiet(t) \/ Stores(t) \/ LockBuffer(t)
    PROVE  EndTogether'
PROOF
<1> USE DEF TypeOK, Goto
<1>1. /\ UNCHANGED <<seen, iter>>
      /\ seen[t] = Outside
      /\ \A u \in Threads \ {t} : at'[u] = at[u]
  BY MovesKeepSide
<1>2. /\ \A u \in Threads : LetGo(u)' <=> LetGo(u)
      /\ ~LetGo(t)
  BY <1>1 DEF LetGo
<1>3. \A u \in Threads \ {t} : /\ FirstPart(u)' <=> FirstPart(u)
                               /\ Ending(u)' <=> Ending(u)
  BY <1>1, <1>2 DEF FirstPart, Ending
<1>4. CASE Test(t)
  <2>1. at[t] = "test" /\ completed' = completed
        /\ at'[t] = IF completed = NumStreams THEN "end" ELSE "visit"
    BY <1>4 DEF Test
  <2>2. CASE completed = NumStreams
    <3>1. ASSUME NEW u \in Threads
          PROVE  Ending(u)
      <4>1. ~FirstPart(u)
        BY <2>2 DEF EndTogether
      <4>2. ~SecondPart(t) /\ ~SecondPart(u)
        BY <2>1 DEF SameSide, SecondPart
      <4>3. at[u] \in Places
        OBVIOUS
      <4> QED
        BY <4>1, <4>2, <4>3 DEF FirstPart, SecondPart, Ending, Places
    <3>2. Ending(t)' /\ ~FirstPart(t)'
      BY <2>1, <2>2 DEF Ending, FirstPart
    <3> QED
      BY <1>1, <1>3, <2>1, <2>2, <3>1, <3>2 DEF EndTogether
  <2>3. CASE completed # NumStreams
    <3>1. \A u \in Threads : at'[u] # "end"
      BY <1>1, <2>1, <2>3 DEF EndTogether
    <3> QED
      BY <2>1, <2>3, <3>1 DEF EndTogether
  <2> QED
    BY <2>2, <2>3
<1>5. CASE AllChecked(t) \/ CountStreams(t)
  <2>1. at[t] \in {"check", "count"} /\ at'[t] \in {"count", "sync2"}
    BY <1>5 DEF AllChecked, CountStreams
  <2>2. \A u \in Threads : SecondPart(u)
    BY <2>1 DEF SameSide, SecondPart
  <2>3. \A u \in Threads : ~FirstPart(u) /\ at[u] # "end"
    BY <2>2 DEF SecondPart, FirstPart
  <2>4. ~FirstPart(t)' /\ at'[t] # "end"
    BY <2>1 DEF FirstPart
  <2> QED
    BY <1>1, <1>3, <2>3, <2>4 DEF EndTogether
<1>6. CASE \/ ReceiveDatagram(t) \/ NextStream(t) \/ AllVisited(t) \/ DecodeStop(t)
           \/ DumpPacket(t) \/ CopyPacket(t) \/ CheckBuffer(t) \/ Stores(t) \/ LockBuffer(t)
  <2>1. /\ completed' = completed
        /\ \/ /\ at[t] \in {"visit", "decode", "assign", "copy"}
              /\ at'[t] \in {"visit", "decode", "assign", "copy", "sync1"}
           \/ at[t] \in {"check", "lock"} /\ at'[t] \in {"check", "lock"}
    <3>1. CASE ReceiveDatagram(t) \/ NextStream(t) \/ AllVisited(t) \/ DecodeStop(t)
      BY <3>1 DEF ReceiveDatagram, NextStream, AllVisited, DecodeStop, threadVars
    <3>2. CASE DumpPacket(t) \/ CopyPacket(t) \/ CheckBuffer(t) \/ LockBuffer(t)
      BY <3>2 DEF DumpPacket, CopyPacket, CheckBuffer, LockBuffer
    <3>3. CASE Stores(t)
      BY <3>3 DEF Stores, AssignBuffer, DecodePacket
    <3> QED
      BY <1>6, <3>1, <3>2, <3>3
  <2>2. ~Ending(t) /\ ~(at'[t] = "end") /\ (FirstPart(t)' => FirstPart(t))
    BY <1>2, <2>1 DEF Ending, FirstPart
  <2>3. \A u \in Threads : at'[u] # "end"
    BY <1>1, <2>2 DEF EndTogether
  <2> QED
    BY <1>3, <2>1, <2>2, <2>3 DEF EndTogether
<1> QED
  BY <1>4, <1>5, <1>6 DEF Quiet

(* Once a thread has ended, nobody comes to a barrier any more.             *)
LEMMA SyncEnds ==
    ASSUME TypeOK, BarrierInv, SameSide, EndTogether, NEW t \in Threads, Synchronise(t)
    PROVE  EndTogether'
PROOF
<1> USE DEF TypeOK, Waits
<1>0. /\ at[t] \in {"sync1", "sync2"} /\ completed' = completed
      /\ seen \in [Threads -> Generations \union {Outside}] /\ iter \in Generations
      /\ Outside \notin Generations
  BY NextGeneration DEF Synchronise, BarrierTypeOK
<1>1. CASE ArriveEarly(t) \/ SleepAgain(t)
  <2>1. UNCHANGED <<at, iter>>
    BY <1>1 DEF Synchronise, PassBarrier, ArriveEarly, SleepAgain, ArriveLast, Leave
  <2>2. \A u \in Threads : LetGo(u)' <=> LetGo(u)
    BY <1>0, <1>1, <2>1 DEF LetGo, ArriveEarly, SleepAgain
  <2> QED
    BY <1>0, <2>1, <2>2 DEF EndTogether, FirstPart, Ending
<1>2. CASE PassBarrier(t) /\ Leave(t)
  <2>1. /\ iter' = iter
        /\ seen' = [seen EXCEPT ![t] = Outside]
        /\ at' = [at EXCEPT ![t] = AfterSync(t)]
    BY <1>2 DEF PassBarrier, Leave, Goto
  <2>2. \A u \in Threads \ {t} : (LetGo(u)' <=> LetGo(u)) /\ at'[u] = at[u]
    BY <2>1 DEF LetGo
  <2>3. ~FirstPart(t)' /\ at'[t] # "end"
    BY <2>1 DEF FirstPart, AfterSync
  <2>4. Ending(t) => Ending(t)'
    BY <1>0, <2>1 DEF Ending, AfterSync
  <2> QED
    BY <1>0, <2>2, <2>3, <2>4 DEF EndTogether, FirstPart, Ending
<1>3. CASE PassBarrier(t) /\ ArriveLast(t)
  <2>1. seen' = seen /\ seen[t] = Outside /\ at' = [at EXCEPT ![t] = AfterSync(t)]
    BY <1>3 DEF PassBarrier, ArriveLast, Goto
  <2>2. \A u \in Threads \ {t} : seen[u] = iter /\ at'[u] = at[u] /\ Waits(u)
    BY <1>0, <1>3, <2>1, LastFindsAll DEF Here, SameSide
  <2>3. iter' # iter
    BY <1>3, NextGeneration DEF ArriveLast, BarrierTypeOK
  <2>4. \A u \in Threads \ {t} : LetGo(u)'
    BY <1>0, <2>1, <2>2, <2>3 DEF LetGo
  <2>5. at'[t] \in {"check", "sync2", "test"}
    BY <2>1 DEF AfterSync
  <2>6. \A u \in Threads : ~FirstPart(u)' /\ at'[u] # "end"
    BY <2>2, <2>4, <2>5 DEF FirstPart
  <2> QED
    BY <2>6 DEF EndTogether
<1> QED
  BY <1>1, <1>2, <1>3 DEF Synchronise, PassBarrier

LEMMA EndStep ==
    ASSUME TypeOK, BarrierInv, SameSide, EndTogether, [Next]_vars
    PROVE  EndTogether'
PROOF
<1>1. CASE (\E w \in Workers : WriterThread(w)) \/ MainThread \/ TimePasses
             \/ SpuriousWakeUp \/ UNCHANGED vars
  <2>1. UNCHANGED <<at, seen, iter, completed>>
    BY <1>1 DEF WriterThread, ClearBuffer, UnlockBuffer, MainThread, MainGoes, TimePasses,
       SpuriousWakeUp, WakeForNothing, vars, receiverVars, threadVars, barrierVars
  <2> QED
    BY <2>1 DEF EndTogether, FirstPart, Ending, LetGo
<1> QED
  BY <1>1, QuietEnds, SyncEnds, StepKinds

LEMMA TakersFinite ==
    /\ IsFiniteSet(Takers)
    /\ Cardinality(Takers) \in Nat
PROOF
<1>1. IsFiniteSet(Takers)
  BY FS_Subset, PoolAssumption DEF Takers
<1> QED
  BY <1>1, FS_CardinalityType

(* A signal sends a worker on its way with each new task.                   *)
LEMMA EnqueueHasTaker ==
    ASSUME TypeOK, TasksHaveTakers, NEW task \in Tasks, Enqueue(task),
           \A w \in idle : worker[w] = "take"
    PROVE  TasksHaveTakers'
PROOF
<1>1. /\ taskList \in Seq(Tasks) /\ taskList' = Append(taskList, task)
      /\ Len(taskList') = Len(taskList) + 1 /\ Len(taskList) \in Nat
      /\ UNCHANGED <<doAbort, worker>>
  BY DEF Enqueue, TypeOK, PoolTypeOK
<1>2. CASE idle' = {}
  BY <1>2 DEF TasksHaveTakers
<1>3. ASSUME NEW w \in idle, idle' = idle \ {w}
      PROVE  TasksHaveTakers'
  <2>1. w \in Workers /\ w \notin Takers /\ Takers' = Takers \union {w}
    BY <1>1, <1>3 DEF Takers, CanTake, TypeOK, PoolTypeOK
  <2>2. Cardinality(Takers') = Cardinality(Takers) + 1
    BY <2>1, TakersFinite, FS_AddElement
  <2> QED
    BY <1>1, <1>3, <2>2, TakersFinite DEF TasksHaveTakers
<1> QED
  BY <1>2, <1>3 DEF Enqueue, Signal

(* A worker that goes to sleep leaves no task behind.                       *)
LEMMA PoolThreadHasTakers ==
    ASSUME TypeOK, TasksHaveTakers, NEW w \in Workers, PoolThread(w)
    PROVE  TasksHaveTakers'
PROOF
<1>0. taskList \in Seq(Tasks) /\ Len(taskList) \in Nat
  BY DEF TypeOK, PoolTypeOK
<1>1. CASE TakeTask(w)
  <2>1. w \in Takers /\ Takers' = Takers \ {w}
    BY <1>1 DEF TakeTask, Takers, CanTake, TypeOK, PoolTypeOK
  <2>2. Cardinality(Takers') = Cardinality(Takers) - 1
    BY <2>1, TakersFinite, FS_RemoveElement
  <2>3. Len(taskList') = Len(taskList) - 1 /\ UNCHANGED <<doAbort, idle>>
    BY <1>0, <1>1 DEF TakeTask
  <2> QED
    BY <1>0, <2>2, <2>3, TakersFinite DEF TasksHaveTakers
<1>2. CASE WaitForTask(w)
  <2>1. Len(taskList') = 0
    BY <1>2 DEF WaitForTask
  <2>2. Cardinality(Takers') \in Nat
    <3>1. IsFiniteSet(Takers')
      BY FS_Subset, PoolAssumption DEF Takers
    <3> QED
      BY <3>1, FS_CardinalityType
  <2> QED
    BY <2>1, <2>2 DEF TasksHaveTakers
<1>3. CASE GiveUp(w)
  BY <1>3 DEF GiveUp, TasksHaveTakers
<1>4. CASE SignalIdle(w)
  BY <1>4 DEF SignalIdle, TasksHaveTakers
<1> QED
  BY <1>1, <1>2, <1>3, <1>4 DEF PoolThread

LEMMA IdleStep ==
    ASSUME TypeOK, IdleTake, [Next]_vars
    PROVE  IdleTake'
PROOF
<1> USE DEF IdleTake, TypeOK, PoolTypeOK
<1>1. ASSUME NEW t \in Threads, Quiet(t) \/ Stores(t) \/ Synchronise(t)
      PROVE  UNCHANGED poolVars
  BY <1>1 DEF Quiet, Stores, Test, ReceiveDatagram, NextStream, AllVisited, DecodeStop,
     DumpPacket, CopyPacket, CheckBuffer, AllChecked, CountStreams, AssignBuffer,
     DecodePacket, Synchronise
<1>2. ASSUME NEW t \in Threads, LockBuffer(t)
      PROVE  IdleTake'
  BY <1>2 DEF LockBuffer, Enqueue, Signal, poolVars
<1>3. ASSUME NEW w \in Workers, WriterThread(w)
      PROVE  IdleTake'
  BY <1>3 DEF WriterThread, ClearBuffer, UnlockBuffer, Return, Runs, PoolThread, TakeTask,
     WaitForTask, GiveUp, SignalIdle, CanTake, poolVars
<1>4. CASE MainThread
  BY <1>4 DEF MainThread, SetAbort, WakeAll, JoinAndDrop, poolVars
<1>5. TimePasses \/ SpuriousWakeUp \/ UNCHANGED vars => UNCHANGED poolVars
  BY DEF TimePasses, SpuriousWakeUp, vars
<1>6. UNCHANGED poolVars => IdleTake'
  BY DEF poolVars
<1> QED
  BY <1>1, <1>2, <1>3, <1>4, <1>5, <1>6, StepKinds

LEMMA TakersStep ==
    ASSUME TypeOK, TargetsOK, IdleTake, TasksHaveTakers, [Next]_vars
    PROVE  TasksHaveTakers'
PROOF
<1>1. UNCHANGED poolVars => TasksHaveTakers'
  BY DEF poolVars, TasksHaveTakers, Takers, CanTake
<1>2. ASSUME NEW t \in Threads, Quiet(t) \/ Stores(t) \/ Synchronise(t)
      PROVE  UNCHANGED poolVars
  BY <1>2 DEF Quiet, Stores, Test, ReceiveDatagram, NextStream, AllVisited, DecodeStop,
     DumpPacket, CopyPacket, CheckBuffer, AllChecked, CountStreams, AssignBuffer,
     DecodePacket, Synchronise
<1>3. ASSUME NEW t \in Threads, LockBuffer(t)
      PROVE  TasksHaveTakers'
  <2>1. target[t] \in Tasks
    <3>1. target[t] \in Indices
      BY <1>3 DEF LockBuffer, TargetsOK
    <3>2. Indices \subseteq 1 .. MaxBuffers
      BY BuffersAssumption DEF TypeOK, BuffersTypeOK, Indices
    <3> QED
      BY <3>1, <3>2, ReceiverAssumption
  <2> QED
    BY <1>1, <1>3, <2>1, EnqueueHasTaker DEF LockBuffer, IdleTake
<1>4. ASSUME NEW w \in Workers, ClearBuffer(w)
      PROVE  UNCHANGED poolVars
  BY <1>4 DEF ClearBuffer
<1>5. ASSUME NEW w \in Workers, UnlockBuffer(w)
      PROVE  TasksHaveTakers'
  <2>1. UNCHANGED <<taskList, doAbort, idle>> /\ Takers' = Takers
    BY <1>5 DEF UnlockBuffer, Return, Runs, Takers, CanTake, TypeOK, PoolTypeOK
  <2> QED
    BY <2>1 DEF TasksHaveTakers
<1>6. ASSUME NEW w \in Workers, WriterThread(w)
      PROVE  TasksHaveTakers'
  BY <1>1, <1>4, <1>5, <1>6, PoolThreadHasTakers DEF WriterThread
<1>7. CASE MainThread
  <2>1. SetAbort \/ WakeAll => TasksHaveTakers'
    BY DEF SetAbort, WakeAll, TasksHaveTakers
  <2>2. JoinAndDrop => TasksHaveTakers'
    <3>1. Cardinality(Takers) \in Nat /\ (UNCHANGED <<worker, idle>> => Takers' = Takers)
      BY TakersFinite DEF Takers, CanTake
    <3> QED
      BY <3>1 DEF JoinAndDrop, TasksHaveTakers
  <2> QED
    BY <1>1, <1>7, <2>1, <2>2 DEF MainThread
<1>8. TimePasses \/ SpuriousWakeUp \/ UNCHANGED vars => UNCHANGED poolVars
  BY DEF TimePasses, SpuriousWakeUp, vars
<1> QED
  BY <1>1, <1>2, <1>3, <1>6, <1>7, <1>8, StepKinds

(* Nobody goes to sleep any more when the main thread has woken all.        *)
LEMMA AbortStep ==
    ASSUME TypeOK, AbortWakes, [Next]_vars
    PROVE  AbortWakes'
PROOF
<1> USE DEF AbortWakes
<1>1. ASSUME NEW t \in Threads, Quiet(t) \/ Stores(t) \/ Synchronise(t)
      PROVE  UNCHANGED <<doAbort, idle, main>>
  BY <1>1 DEF Quiet, Stores, Test, ReceiveDatagram, NextStream, AllVisited, DecodeStop,
     DumpPacket, CopyPacket, CheckBuffer, AllChecked, CountStreams, AssignBuffer,
     DecodePacket, Synchronise, poolVars
<1>2. ASSUME NEW t \in Threads, LockBuffer(t)
      PROVE  UNCHANGED <<doAbort, main>> /\ idle' \subseteq idle
  BY <1>2 DEF LockBuffer, Enqueue, Signal, poolVars
<1>3. ASSUME NEW w \in Workers, WriterThread(w)
      PROVE  AbortWakes'
  BY <1>3 DEF WriterThread, ClearBuffer, UnlockBuffer, Return, PoolThread, TakeTask,
     WaitForTask, GiveUp, SignalIdle, poolVars, receiverVars
<1>4. CASE MainThread
  BY <1>4 DEF MainThread, MainGoes, SetAbort, WakeAll, JoinAndDrop, poolVars
<1>5. TimePasses \/ SpuriousWakeUp \/ UNCHANGED vars => UNCHANGED <<doAbort, idle, main>>
  BY DEF TimePasses, SpuriousWakeUp, vars, poolVars, receiverVars
<1> QED
  BY <1>1, <1>2, <1>3, <1>4, <1>5, StepKinds

LEMMA SleepInvariant == Spec => []SleepInv
PROOF
<1>1. Init => SleepInv
  <2> SUFFICES ASSUME Init PROVE SleepInv
    OBVIOUS
  <2>1. \A t \in Threads : at[t] = "test" /\ completed = 0
    BY DEF Init, ThreadsStart
  <2>2. EndTogether
    BY <2>1 DEF EndTogether, FirstPart
  <2>3. SleepersAreHere /\ IdleTake /\ TasksHaveTakers /\ AbortWakes
    BY DEF Init, ThreadsStart, BarrierInit, PoolInit, SleepersAreHere, IdleTake,
       TasksHaveTakers, AbortWakes
  <2> QED
    BY <2>2, <2>3, InitIInv DEF SleepInv
<1>2. SleepInv /\ [Next]_vars => SleepInv'
  <2> SUFFICES ASSUME SleepInv, [Next]_vars PROVE SleepInv'
    OBVIOUS
  <2>1. IInv /\ TypeOK /\ BarrierInv /\ SameSide /\ TargetsOK /\ IInv'
    BY IInvStep DEF SleepInv, IInv
  <2>2. EndTogether' /\ SleepersAreHere' /\ TasksHaveTakers' /\ AbortWakes' /\ IdleTake'
    BY <2>1, EndStep, SleepersStep, TakersStep, AbortStep, IdleStep DEF SleepInv
  <2> QED
    BY <2>1, <2>2 DEF SleepInv
<1> QED
  BY <1>1, <1>2, PTL DEF Spec

(* barrier_wait, threadpool_thread: no wake-up is lost, for any number of   *)
(* threads, workers and streams: whoever sleeps waits for somebody who is   *)
(* on his way.                                                              *)
THEOREM SleepersWillBeWoken == Spec => []NobodySleepsForGood
PROOF
<1>1. SleepInv => NobodySleepsForGood
  <2> SUFFICES ASSUME SleepInv PROVE NobodySleepsForGood
    OBVIOUS
  <2>1. ASSUME NEW u \in asleep
        PROVE  \E t \in Threads : seen[t] # iter /\ at[t] # "end"
    <3>1. u \in Threads /\ seen[u] = iter /\ iter # Outside /\ Waits(u)
      BY NextGeneration DEF SleepInv, SleepersAreHere, IInv, TypeOK, BarrierTypeOK, SameSide
    <3>2. ~Ending(u)
      BY <3>1 DEF Ending, LetGo, Waits
    <3>3. \A t \in Threads : at[t] # "end"
      BY <3>1, <3>2 DEF SleepInv, EndTogether
    <3>4. Here # Threads
      <4>1. count \in 1 .. NumThreads /\ count + Cardinality(Here) = NumThreads
        BY DEF SleepInv, IInv, BarrierInv, BarrierTypeOK
      <4>2. Cardinality(Here) # NumThreads
        BY <4>1, HereFinite, BarrierAssumption
      <4> QED
        BY <4>2, ThreadsFinite
    <3> QED
      BY <3>3, <3>4 DEF Here
  <2>2. idle # {} /\ doAbort => main = "wake"
    BY DEF SleepInv, AbortWakes
  <2>3. \A t \in asleep : seen[t] = iter
    BY DEF SleepInv, SleepersAreHere
  <2>4. idle # {} /\ ~doAbort => Len(taskList) <= Cardinality({w \in Workers : CanTake(w)})
    BY DEF SleepInv, TasksHaveTakers, Takers
  <2> QED
    BY <2>1, <2>2, <2>3, <2>4 DEF NobodySleepsForGood
<1> QED
  BY <1>1, SleepInvariant, PTL
=============================================================================
