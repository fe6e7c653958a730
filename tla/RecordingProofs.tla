---------------------------- MODULE RecordingProofs ---------------------------
(***************************************************************************)
(* Proofs about Recording: it is the receiver of Receiver with data, the   *)
(* files of a buffer are whole, and data that were taken stay.             *)
(***************************************************************************)
EXTENDS Recording, ReceiverProofs, WellFoundedInduction

(* A set of numbers has a least one.                                        *)
LEMMA LeastNumber ==
    ASSUME NEW S \in SUBSET Nat, S # {}
    PROVE  \E m \in S : \A n \in S : m <= n
PROOF
<1> DEFINE R == OpToRel(<, Nat)
<1>1. IsWellFoundedOn(R, Nat)
  BY NatLessThanWellFounded
<1>2. PICK m \in S : \A n \in S : ~(<<n, m>> \in R)
  <2> HIDE DEF R
  <2> QED
    BY <1>1, WFMin
<1>3. \A n \in S : n < m => <<n, m>> \in R
  BY DEF OpToRel
<1>4. \A n \in S : ~(n < m)
  BY <1>2, <1>3
<1> QED
  BY <1>4

LEMMA OldestExists ==
    ASSUME BuffersTypeOK, Indices # {}
    PROVE  \E i \in Indices : IsOldest(i)
PROOF
<1>0. \A i \in Indices : i \in Nat /\ buffers[i].start \in Nat
  <2>1. \A i \in Indices : i \in Nat /\ buffers[i] \in Buffer
    BY DEF BuffersTypeOK, Indices
  <2> QED
    BY <2>1 DEF Buffer
<1> DEFINE S == {buffers[i].start : i \in Indices}
<1>1. PICK m \in S : \A n \in S : m <= n
  <2>1. S \in SUBSET Nat /\ S # {}
    BY <1>0
  <2> HIDE DEF S
  <2> QED
    BY <2>1, LeastNumber
<1> DEFINE T == {i \in Indices : buffers[i].start = m}
<1>2. PICK i \in T : \A j \in T : i <= j
  <2>1. T \in SUBSET Nat /\ T # {}
    BY <1>0, <1>1
  <2> HIDE DEF T
  <2> QED
    BY <2>1, LeastNumber
<1>3. \A j \in Indices : m <= buffers[j].start
  BY <1>1
<1>4. \A j \in Indices : m < buffers[j].start \/ m = buffers[j].start
  BY <1>0, <1>1, <1>3
<1> QED
  BY <1>2, <1>4 DEF IsOldest

-----------------------------------------------------------------------------
(* Ranges of heaps                                                          *)
LEMMA SameRange ==
    ASSUME NEW a \in Nat, NEW b \in Nat, NEW h \in Nat,
           NumTimes * a <= h, h < NumTimes * a + NumTimes,
           NumTimes * b <= h, h < NumTimes * b + NumTimes
    PROVE  a = b
PROOF
<1>1. a < b => NumTimes * (a + 1) <= NumTimes * b
  BY BuffersAssumption
<1>2. b < a => NumTimes * (b + 1) <= NumTimes * a
  BY BuffersAssumption
<1>3. NumTimes * (a + 1) = NumTimes * a + NumTimes
      /\ NumTimes * (b + 1) = NumTimes * b + NumTimes
  BY BuffersAssumption
<1> QED
  BY <1>1, <1>2, <1>3, BuffersAssumption

(* A buffer covers the heaps that have its start.                           *)
LEMMA CoveredStart ==
    ASSUME NEW h \in Nat, NEW k \in Nat, NEW s, s = Start(k),
           h >= s, h <= s + NumTimes - 1
    PROVE  s = Start(h) /\ h - s = h % NumTimes
PROOF
<1>1. h \div NumTimes \in Nat /\ k \div NumTimes \in Nat
  BY BuffersAssumption
<1>2. NumTimes * (h \div NumTimes) <= h
      /\ h < NumTimes * (h \div NumTimes) + NumTimes
  BY BuffersAssumption
<1>3. NumTimes * (k \div NumTimes) <= h
      /\ h < NumTimes * (k \div NumTimes) + NumTimes
  BY <1>1, BuffersAssumption DEF Start
<1>4. h \div NumTimes = k \div NumTimes
  BY <1>1, <1>2, <1>3, SameRange
<1>5. h - Start(h) = h % NumTimes
  BY BuffersAssumption DEF Start
<1> QED
  BY <1>4, <1>5 DEF Start

LEMMA StartGrows ==
    ASSUME NEW h \in Nat, NEW k \in Nat, h >= Start(k)
    PROVE  Start(h) >= Start(k)
PROOF
<1>1. h \div NumTimes >= k \div NumTimes
  BY BuffersAssumption DEF Start
<1> QED
  BY <1>1, BuffersAssumption DEF Start

(* Channels and writer threads: of the files of a writer thread, the one    *)
(* for a channel is the last that begins at or before the channel.          *)
LEMMA BlockOfChannel ==
    ASSUME NEW C \in Nat \ {0}, NEW W \in Nat \ {0}, NEW u \in 0 .. W - 1,
           NEW k \in Nat, NEW d \in Nat, (d \div C) % W = u,
           C * (u + W * k) <= d, d < C * (u + W * k) + W * C
    PROVE  d < C * (u + W * k) + C
PROOF
<1> DEFINE q == d \div C
<1>1. q \in Nat /\ C * q <= d /\ d < C * q + C
  OBVIOUS
<1>2. PICK j \in Nat : q = W * j + u
  <2>1. q = (W * (q \div W)) + (q % W) /\ q \div W \in Nat
    BY <1>1
  <2> QED
    BY <2>1
<1> HIDE DEF q
<1>3. u + W * k \in Nat /\ u + W * k + W \in Nat
  OBVIOUS
<1>4. q >= u + W * k
  <2>1. q < u + W * k => C * (q + 1) <= C * (u + W * k)
    BY <1>1, <1>3
  <2>2. C * (q + 1) = C * q + C
    BY <1>1
  <2> QED
    BY <1>1, <1>3, <2>1, <2>2
<1>5. q < u + W * k + W
  <2>1. q >= u + W * k + W => C * q >= C * (u + W * k + W)
    BY <1>1, <1>3
  <2>2. C * (u + W * k + W) = C * (u + W * k) + W * C
    BY <1>3
  <2> QED
    BY <1>1, <1>3, <2>1, <2>2
<1>6. j = k
  <2>1. j < k => W * j + W <= W * k
    <3>1. j < k => W * (j + 1) <= W * k
      OBVIOUS
    <3>2. W * (j + 1) = W * j + W
      OBVIOUS
    <3> QED
      BY <3>1, <3>2
  <2>2. k < j => W * k + W <= W * j
    <3>1. k < j => W * (k + 1) <= W * j
      OBVIOUS
    <3>2. W * (k + 1) = W * k + W
      OBVIOUS
    <3> QED
      BY <3>1, <3>2
  <2>3. W * k \in Nat /\ W * j \in Nat
    OBVIOUS
  <2> QED
    BY <1>2, <1>4, <1>5, <2>1, <2>2, <2>3
<1> QED
  BY <1>1, <1>2, <1>6

LEMMA FirstBlock ==
    ASSUME NEW d \in Nat
    PROVE  WriterOf(d) \in Writers /\ WriterOf(d) * ChannelsPerFile <= d
PROOF
<1> DEFINE q == d \div ChannelsPerFile
<1>1. q \in Nat /\ ChannelsPerFile * q <= d
  BY RecordingAssumption
<1> HIDE DEF q
<1>2. q % NumWriters <= q /\ q % NumWriters \in 0 .. NumWriters - 1
  BY <1>1, RecordingAssumption
<1>3. (q % NumWriters) * ChannelsPerFile <= ChannelsPerFile * q
  BY <1>1, <1>2, RecordingAssumption
<1> QED
  BY <1>1, <1>2, <1>3, RecordingAssumption DEF q, WriterOf, Writers
-----------------------------------------------------------------------------
(* The inductive invariant: first, what is in the buffers and the files     *)
StartsOK == \A i \in Indices : \E heap \in Heaps : buffers[i].start = Start(heap)

UniqueStarts ==
    \A i, j \in Indices :
        buffers[i].start = buffers[j].start => i = j \/ buffers[i].start \in twins

Older(contents, start) ==
    \A p \in Positions : contents[p] # Nothing =>
        contents[p] <= start + p[1] /\ contents[p] % NumTimes = p[1]

CellsAreOlder == \A i \in Indices : Older(cells[i], buffers[i].start)

UnusedAreEmpty == \A i \in 1 .. MaxBuffers : i \notin Indices => cells[i] = Empty

(* What the files of the heaps of a buffer hold of them is in the buffer.   *)
FilesMatch ==
    \A i \in Indices : buffers[i].start \notin twins =>
        \A p \in Positions :
            files[buffers[i].start][p] = buffers[i].start + p[1]
                => cells[i][p] = buffers[i].start + p[1]

(* Heaps that files were written for have their buffer or are too old.      *)
Behind(start) ==
    \/ \E i \in Indices : buffers[i].start = start
    \/ Indices # {} /\ \A i \in Indices : buffers[i].start > start

FilesAreBehind ==
    \A start \in Starts :
        start \notin twins /\ (\E p \in Positions : files[start][p] # Nothing)
            => Behind(start)

BufferPart ==
    /\ StartsOK
    /\ UniqueStarts
    /\ CellsAreOlder
    /\ UnusedAreEmpty
    /\ FilesMatch
    /\ FilesAreBehind
    /\ OnlyOlderIsLeft

(* Second, how far a task has come                                          *)
FilesInTurn ==
    \A u \in Writers : \E k \in Nat :
        nextFile[u] = ChannelsPerFile * (u + NumWriters * k)

FreshWriters ==
    (\A w \in Workers : ~Runs(w)) => nextFile = FirstFiles /\ broken = {} /\ ~stored

FilesWritten ==
    \A w \in Workers : Runs(w) /\ build = "files" =>
        \A p \in Positions : p[2] < nextFile[WriterOf(p[2])] =>
            files[buffers[job[w]].start][p] = cells[job[w]][p]

AllJoined == stored /\ build = "files" => \A u \in Writers : ~HasFile(u)

RowsWritten ==
    stored /\ build = "ms" =>
        \A w \in Workers : Runs(w) => \E n \in DOMAIN rows : rows[n] = cells[job[w]]

TaskPart ==
    /\ FilesInTurn
    /\ FreshWriters
    /\ FilesWritten
    /\ AllJoined
    /\ RowsWritten

RecordingIInv == RecordingTypeOK /\ BufferPart /\ TaskPart

-----------------------------------------------------------------------------
(* The steps                                                                *)

(* The contents and the ranges of the buffers stay, and the tasks go on.    *)
Calm ==
    /\ UNCHANGED dataVars
    /\ Indices' = Indices
    /\ \A i \in Indices : buffers'[i].start = buffers[i].start
    /\ \A w \in Workers : (Runs(w)' <=> Runs(w)) /\ (Runs(w) => job'[w] = job[w])

NothingCleared == \A i \in Indices : buffers[i].filled => buffers'[i].filled

Assigns(t) ==
    /\ AssignBuffer(t)
    /\ NoteTwins(t)
    /\ UNCHANGED <<build, cells, taskVars, diskVars>>

Copies(t) ==
    /\ CopyPacket(t)
    /\ cells' = [cells EXCEPT ![target[t]][Position(t)] = heapOf[t]]
    /\ UNCHANGED <<build, taskVars, diskVars, twins>>

Begins(w) ==
    TakeTask(w) /\ UNCHANGED <<barrierVars, bufferVars, receiverVars, dataVars>>

Finishes(w) == JoinWriters(w) \/ WriteRows(w)

(* Every step is one of the receiver, which knows no data.                  *)
LEMMA StepIsReceivers ==
    ASSUME [RecordingNext]_allVars
    PROVE  [Next]_vars
PROOF
<1>1. CASE \E t \in Threads : ReceiverThread(t)
  BY <1>1 DEF ReceiverThread, Next
<1>2. CASE \E w \in Workers : PoolWorker(w)
  BY <1>2 DEF PoolWorker, WriteFile, OpenFails, JoinWriters, WriteRows, ClearStored,
     UnlockStored, WriterThread, Next
<1>3. CASE Others
  BY <1>3 DEF Others, Next
<1>4. CASE UNCHANGED allVars
  BY <1>4 DEF allVars
<1> QED
  BY <1>1, <1>2, <1>3, <1>4 DEF RecordingNext

(* The receiver with data behaves as the receiver without.                  *)
THEOREM RecordingIsReceiver == RecordingSpec => Spec
PROOF
<1>1. RecordingInit => Init
  BY DEF RecordingInit
<1>2. [RecordingNext]_allVars => [Next]_vars
  BY StepIsReceivers
<1> QED
  BY <1>1, <1>2, PTL DEF RecordingSpec, Spec

(* A step of a receiver thread is an assignment, a copy, or calm.           *)
LEMMA ThreadSteps ==
    ASSUME IInv, NEW t \in Threads, ReceiverThread(t)
    PROVE  Assigns(t) \/ Copies(t) \/ (Calm /\ NothingCleared)
PROOF
<1> USE DEF IInv, TypeOK
<1>1. CASE AssignBuffer(t)
  <2>1. at[t] = "assign"
    BY <1>1 DEF AssignBuffer
  <2> QED
    BY <1>1, <2>1 DEF ReceiverThread, Copy, Assigns
<1>2. CASE CopyPacket(t)
  <2>1. at[t] = "copy"
    BY <1>2 DEF CopyPacket
  <2> QED
    BY <1>2, <2>1 DEF ReceiverThread, Copy, NoteTwins, Copies
<1>3. ASSUME at[t] # "copy", at[t] # "assign" \/ at'[t] # "copy"
      PROVE  UNCHANGED dataVars
  BY <1>3 DEF ReceiverThread, Copy, NoteTwins, dataVars
<1>4. ASSUME UNCHANGED bufferVars, UNCHANGED <<worker, job>>, UNCHANGED dataVars
      PROVE  Calm /\ NothingCleared
  BY <1>4 DEF bufferVars, Calm, NothingCleared, Indices, Runs
<1>5. CASE Quiet(t) /\ ~CopyPacket(t)
  <2>1. UNCHANGED bufferVars /\ UNCHANGED <<worker, job>>
    BY <1>5 DEF Quiet, Test, ReceiveDatagram, NextStream, AllVisited, DecodeStop,
       DumpPacket, CheckBuffer, AllChecked, CountStreams, poolVars
  <2>2. at[t] # "copy"
    BY <1>5 DEF Quiet, Test, ReceiveDatagram, NextStream, AllVisited, DecodeStop,
       DumpPacket, CheckBuffer, AllChecked, CountStreams
  <2>3. at'[t] # "copy"
    BY <1>5, OnlyStoresCopy
  <2> QED
    BY <1>3, <1>4, <2>1, <2>2, <2>3
<1>6. CASE \E heap \in Heaps : DecodePacket(t, heap)
  <2>1. at[t] = "decode" /\ UNCHANGED <<worker, job>>
    BY <1>6 DEF DecodePacket, poolVars
  <2>2. CASE UNCHANGED bufferVars
    BY <1>3, <1>4, <2>1, <2>2
  <2>3. CASE \E i \in Indices : AddTo(i)
    <3>1. PICK i \in Indices : AddTo(i)
      BY <2>3
    <3>2. buffers[i] \in Buffer
      BY DEF BuffersTypeOK, Indices
    <3>3. Indices' = Indices /\ \A j \in Indices \ {i} : buffers'[j] = buffers[j]
      BY <3>1 DEF AddTo, Indices
    <3>4. buffers'[i].start = buffers[i].start /\ buffers'[i].filled
      BY <3>1, <3>2 DEF AddTo, Indices, Buffer
    <3> QED
      BY <1>3, <2>1, <3>3, <3>4 DEF Calm, NothingCleared, Runs
  <2> QED
    BY <1>6, <2>2, <2>3 DEF DecodePacket
<1>7. CASE Synchronise(t)
  <2>1. UNCHANGED bufferVars /\ UNCHANGED <<worker, job>> /\ at[t] \in {"sync1", "sync2"}
    BY <1>7 DEF Synchronise, poolVars, Waits
  <2> QED
    BY <1>3, <1>4, <2>1
<1>8. CASE LockBuffer(t)
  <2>1. at[t] = "lock" /\ UNCHANGED <<worker, job>> /\ target[t] \in Indices
    BY <1>8 DEF LockBuffer, Enqueue, poolVars, TargetsOK
  <2>2. CASE UNCHANGED bufferVars
    BY <1>3, <1>4, <2>1, <2>2
  <2>3. CASE Lock(target[t])
    <3>1. /\ Indices' = Indices
          /\ \A i \in Indices : /\ buffers'[i].start = buffers[i].start
                                 /\ buffers'[i].filled = buffers[i].filled
      BY <2>1, <2>3, FlagChanges
    <3> QED
      BY <1>3, <2>1, <3>1 DEF Calm, NothingCleared, Runs
  <2> QED
    BY <1>8, <2>2, <2>3 DEF LockBuffer
<1>9. Quiet(t) \/ Stores(t) \/ Synchronise(t) \/ LockBuffer(t)
  BY DEF ReceiverThread, Proceed, Decode, Quiet, Stores
<1> QED
  BY <1>1, <1>2, <1>5, <1>6, <1>7, <1>8, <1>9 DEF Stores

LEMMA ClearIsCalm ==
    ASSUME IInv, NEW w \in Workers, ClearStored(w)
    PROVE  /\ Calm
           /\ Runs(w) /\ (Output => stored)
           /\ \A i \in Indices \ {job[w]} : buffers[i].filled => buffers'[i].filled
PROOF
<1>1. Runs(w) /\ Clear(job[w]) /\ UNCHANGED <<worker, job>> /\ job[w] \in Indices
  BY JobIsLocked DEF ClearStored, ClearBuffer, poolVars
<1>2. /\ Indices' = Indices
      /\ \A i \in Indices : buffers'[i].start = buffers[i].start
      /\ \A i \in Indices \ {job[w]} : buffers'[i] = buffers[i]
  BY <1>1, FlagChanges DEF IInv, TypeOK
<1> QED
  BY <1>1, <1>2 DEF ClearStored, Calm, Runs

(* The kinds of steps.                                                      *)
LEMMA RecordingSteps ==
    ASSUME IInv, [RecordingNext]_allVars
    PROVE  \/ Calm /\ NothingCleared
           \/ \E t \in Threads : Assigns(t) \/ Copies(t)
           \/ \E w \in Workers, u \in Writers : WriteFile(w, u) \/ OpenFails(w, u)
           \/ \E w \in Workers : Finishes(w) \/ ClearStored(w) \/ UnlockStored(w) \/ Begins(w)
PROOF
<1>1. ASSUME UNCHANGED buffers, UNCHANGED job, UNCHANGED dataVars,
             \A w \in Workers : Runs(w)' <=> Runs(w)
      PROVE  Calm /\ NothingCleared
  BY <1>1 DEF Calm, NothingCleared, Indices
<1>2. ASSUME NEW w \in Workers, PoolThread(w), ~TakeTask(w),
             UNCHANGED <<barrierVars, bufferVars, receiverVars, dataVars>>
      PROVE  Calm /\ NothingCleared
  <2>1. UNCHANGED job /\ \A v \in Workers : Runs(v)' <=> Runs(v)
    BY <1>2 DEF PoolThread, WaitForTask, GiveUp, SignalIdle, CanTake, Runs, IInv, TypeOK,
       PoolTypeOK
  <2> QED
    BY <1>1, <1>2, <2>1 DEF bufferVars
<1>3. CASE Others \/ UNCHANGED allVars
  <2>1. UNCHANGED <<buffers, worker, job>> /\ UNCHANGED dataVars
    BY <1>3 DEF Others, MainThread, MainGoes, SetAbort, WakeAll, JoinAndDrop, TimePasses,
       SecondPasses, SpuriousWakeUp, Ended, allVars, vars, poolVars, bufferVars
  <2> QED
    BY <1>1, <2>1 DEF Runs
<1>4. CASE \E w \in Workers : PoolWorker(w)
  BY <1>2, <1>4 DEF PoolWorker, Begins, Finishes
<1> QED
  BY <1>3, <1>4, ThreadSteps DEF RecordingNext
-----------------------------------------------------------------------------
(* Calm steps                                                               *)
LEMMA CalmStep ==
    ASSUME IInv, RecordingIInv, Calm
    PROVE  RecordingIInv'
PROOF
<1>1. /\ UNCHANGED <<build, cells, nextFile, broken, stored, files, rows, failures, twins>>
      /\ Indices' = Indices
      /\ \A i \in Indices : buffers'[i].start = buffers[i].start
      /\ \A w \in Workers : (Runs(w)' <=> Runs(w)) /\ (Runs(w) => job'[w] = job[w])
  BY DEF Calm, dataVars, taskVars, diskVars
<1> USE DEF RecordingIInv
<1>2. RecordingTypeOK'
  BY <1>1 DEF RecordingTypeOK
<1>3. StartsOK' /\ UniqueStarts' /\ UnusedAreEmpty'
  BY <1>1 DEF BufferPart, StartsOK, UniqueStarts, UnusedAreEmpty
<1>4. CellsAreOlder' /\ OnlyOlderIsLeft'
  BY <1>1 DEF BufferPart, CellsAreOlder, OnlyOlderIsLeft, Older
<1>5. FilesMatch' /\ FilesAreBehind'
  BY <1>1 DEF BufferPart, FilesMatch, FilesAreBehind, Behind
<1>6. FilesInTurn' /\ FreshWriters' /\ AllJoined'
  BY <1>1 DEF TaskPart, FilesInTurn, FreshWriters, AllJoined, HasFile
<1>7. FilesWritten'
  <2>1. \A w \in Workers : Runs(w) => buffers'[job[w]].start = buffers[job[w]].start
    BY <1>1 DEF IInv, TasksOK
  <2> QED
    BY <1>1, <2>1 DEF TaskPart, FilesWritten
<1>8. RowsWritten'
  BY <1>1 DEF TaskPart, RowsWritten
<1> QED
  BY <1>2, <1>3, <1>4, <1>5, <1>6, <1>7, <1>8 DEF BufferPart, TaskPart

-----------------------------------------------------------------------------
(* A buffer for a new range of heaps                                        *)

(* What AssignBuffer does to the buffers: j is used for a new range.        *)
NewRange(j, heap) ==
    /\ j \in 1 .. MaxBuffers
    /\ Indices' = Indices \union {j}
    /\ \A i \in Indices \ {j} : buffers'[i] = buffers[i]
    /\ buffers'[j].start = Start(heap)
    /\ j \in Indices => IsOldest(j) /\ Idle(j)
    /\ \A i \in Indices : IsOldest(i) => buffers[i].start <= heap
    /\ twins' = IF \E i \in Indices \ {j} : buffers[i].start = Start(heap)
                  THEN twins \union {Start(heap)} ELSE twins

LEMMA AssignChanges ==
    ASSUME IInv, NEW t \in Threads, Assigns(t)
    PROVE  /\ heapOf[t] \in Heaps
           /\ \E j \in 1 .. MaxBuffers : NewRange(j, heapOf[t])
           /\ UNCHANGED <<worker, job>>
PROOF
<1> USE DEF IInv, TypeOK, BuffersTypeOK, Indices
<1>1. /\ at[t] = "assign" /\ at'[t] = "copy" /\ heapOf' = heapOf
      /\ UNCHANGED <<worker, job>>
      /\ ~TooOld(heapOf[t])
  BY DEF Assigns, AssignBuffer, Goto, poolVars
<1>2. heapOf[t] \in Heaps /\ heapOf[t] \in Nat
  BY <1>1, BuffersAssumption DEF TargetsOK
<1>3. twins' = IF \E i \in Indices \ {target'[t]} : buffers[i].start = Start(heapOf[t])
                THEN twins \union {Start(heapOf[t])} ELSE twins
  BY <1>1 DEF Assigns, NoteTwins
<1>4. \A i \in Indices : IsOldest(i) => buffers[i].start <= heapOf[t]
  <2>1. \A i \in Indices : buffers[i] \in Buffer
    OBVIOUS
  <2>2. \A i \in Indices : buffers[i].start \in Nat
    BY <2>1 DEF Buffer
  <2> QED
    BY <1>1, <1>2, <2>2 DEF TooOld
<1>5. CASE \E i \in Indices : Repurpose(i, heapOf[t]) /\ target' = [target EXCEPT ![t] = i]
  <2>1. PICK j \in Indices : Repurpose(j, heapOf[t]) /\ target' = [target EXCEPT ![t] = j]
    BY <1>5
  <2>2. target'[t] = j
    BY <2>1
  <2>3. j \in 1 .. MaxBuffers
    BY BuffersAssumption
  <2>4. IsOldest(j) /\ Idle(j)
    BY <2>1 DEF Repurpose, Repurposable
  <2>5. buffers[j] \in Buffer
    OBVIOUS
  <2>6. /\ buffers'[j].start = Start(heapOf[t])
        /\ \A i \in Indices \ {j} : buffers'[i] = buffers[i]
        /\ Indices' = Indices
    BY <2>1, <2>5 DEF Repurpose, Buffer
  <2>7. NewRange(j, heapOf[t])
    BY <1>3, <1>4, <2>2, <2>3, <2>4, <2>6 DEF NewRange
  <2> QED
    BY <1>1, <1>2, <2>3, <2>7
<1>6. CASE Allocate(heapOf[t]) /\ target' = [target EXCEPT ![t] = Len(buffers')]
  <2>1. PICK b : buffers' = Append(buffers, b) /\ b.start = Start(heapOf[t])
    <3> DEFINE new == [NewBuffer EXCEPT !.start = Start(heapOf[t]), !.filled = TRUE]
    <3>1. buffers' = Append(buffers, new)
      BY <1>6 DEF Allocate
    <3>2. new.start = Start(heapOf[t])
      BY DEF NewBuffer
    <3> HIDE DEF new
    <3> QED
      BY <3>1, <3>2
  <2> DEFINE j == Len(buffers) + 1
  <2>2. j \in 1 .. MaxBuffers /\ j \notin Indices
    BY <1>6, BuffersAssumption DEF Allocate
  <2>3. Len(buffers') = j /\ buffers'[j] = b /\ DOMAIN buffers' = 1 .. j
    BY <2>1
  <2>4. target'[t] = j
    BY <1>6, <2>3
  <2>5. \A i \in 1 .. Len(buffers) : buffers'[i] = buffers[i]
    BY <2>1
  <2>6. Indices = 1 .. Len(buffers) /\ Indices' = Indices \union {j}
    BY <2>3
  <2>7. NewRange(j, heapOf[t])
    <3> HIDE DEF j, Indices
    <3> QED
      BY <1>3, <1>4, <2>1, <2>2, <2>3, <2>4, <2>5, <2>6 DEF NewRange
  <2> QED
    BY <1>1, <1>2, <2>2, <2>7
<1> QED
  BY <1>5, <1>6 DEF Assigns, AssignBuffer

LEMMA StartsAreNat ==
    ASSUME RecordingIInv, NEW i \in Indices
    PROVE  buffers[i].start \in Nat /\ buffers[i].start \in Starts
PROOF
<1>1. PICK heap \in Heaps : buffers[i].start = Start(heap)
  BY DEF RecordingIInv, BufferPart, StartsOK
<1> QED
  BY <1>1, StartCovers, BuffersAssumption DEF Starts

(* A new range is not before the oldest one.                                *)
LEMMA NewRangeIsLast ==
    ASSUME IInv, RecordingIInv, NEW heap \in Heaps, NEW j, NewRange(j, heap)
    PROVE  /\ Start(heap) \in Nat /\ Start(heap) \in Starts
           /\ Indices # {} => \E i \in Indices : buffers[i].start <= Start(heap)
           /\ j \in Indices => buffers[j].start <= Start(heap)
PROOF
<1>1. heap \in Nat
  BY BuffersAssumption
<1>2. Start(heap) \in Nat /\ Start(heap) \in Starts
  BY <1>1, StartCovers DEF Starts
<1>3. ASSUME NEW i \in Indices, IsOldest(i)
      PROVE  buffers[i].start <= Start(heap)
  <2>1. PICK k \in Heaps : buffers[i].start = Start(k)
    BY DEF RecordingIInv, BufferPart, StartsOK
  <2>2. k \in Nat /\ Start(k) \in Nat
    BY StartCovers, BuffersAssumption
  <2>3. heap >= Start(k)
    BY <1>1, <1>3, <2>1, <2>2 DEF NewRange
  <2> QED
    BY <1>1, <1>2, <2>1, <2>2, <2>3, StartGrows
<1> QED
  BY <1>2, <1>3, OldestExists DEF NewRange, IInv, TypeOK

LEMMA AssignBufferPart ==
    ASSUME IInv, RecordingIInv, NEW t \in Threads, Assigns(t)
    PROVE  BufferPart'
PROOF
<1> DEFINE heap == heapOf[t]
           s == Start(heap)
<1>1. heap \in Heaps /\ UNCHANGED <<cells, files>>
  BY AssignChanges DEF Assigns, diskVars
<1>2. PICK j \in 1 .. MaxBuffers : NewRange(j, heap)
  BY AssignChanges
<1>3. /\ s \in Nat /\ s \in Starts
      /\ Indices # {} => \E i \in Indices : buffers[i].start <= s
      /\ j \in Indices => buffers[j].start <= s
  BY <1>1, <1>2, NewRangeIsLast
<1>4. /\ Indices' = Indices \union {j}
      /\ \A i \in Indices \ {j} : buffers'[i] = buffers[i]
      /\ buffers'[j].start = s
      /\ twins \subseteq twins' /\ twins' \subseteq twins \union {s}
      /\ \A i \in Indices \ {j} : buffers[i].start = s => s \in twins'
  BY <1>2 DEF NewRange
<1>5. \A i \in Indices : buffers[i].start \in Nat
  BY StartsAreNat
<1> USE DEF RecordingIInv, BufferPart
<1>6. StartsOK'
  BY <1>1, <1>4 DEF StartsOK
<1> HIDE DEF heap, s
<1>7. UniqueStarts'
  BY <1>4 DEF UniqueStarts
<1>8. CellsAreOlder'
  <2>1. ASSUME NEW i \in Indices', NEW p \in Positions, cells[i][p] # Nothing
        PROVE  cells[i][p] <= buffers'[i].start + p[1] /\ cells[i][p] % NumTimes = p[1]
    <3>0. cells[i][p] \in Nat /\ p[1] \in Nat
      <4>1. i \in 1 .. MaxBuffers
        BY <1>4, BuffersAssumption DEF IInv, TypeOK, BuffersTypeOK, Indices
      <4>2. cells[i] \in [Positions -> Heaps \union {Nothing}]
        BY <4>1 DEF RecordingTypeOK, Contents
      <4>3. p[1] \in 0 .. NumTimes - 1
        BY DEF Positions
      <4>4. cells[i][p] \in Heaps \union {Nothing}
        BY <4>2
      <4>5. p[1] \in Nat
        BY <4>3, BuffersAssumption
      <4> QED
        BY <2>1, <4>4, <4>5, BuffersAssumption
    <3>1. CASE i \in Indices
      <4>1. cells[i][p] <= buffers[i].start + p[1] /\ cells[i][p] % NumTimes = p[1]
        BY <2>1, <3>1 DEF CellsAreOlder, Older
      <4>2. buffers[i].start <= buffers'[i].start /\ buffers'[i].start \in Nat
        BY <1>3, <1>4, <1>5, <3>1
      <4> QED
        BY <1>5, <3>0, <3>1, <4>1, <4>2
    <3>2. CASE i \notin Indices
      <4>1. cells[i] = Empty
        BY <1>4, <3>2 DEF UnusedAreEmpty
      <4> QED
        BY <2>1, <4>1 DEF Empty
    <3> QED
      BY <3>1, <3>2
  <2> QED
    BY <1>1, <2>1 DEF CellsAreOlder, Older
<1>9. UnusedAreEmpty'
  BY <1>1, <1>4 DEF UnusedAreEmpty
<1>10. FilesMatch'
  <2>1. ASSUME NEW i \in Indices', buffers'[i].start \notin twins', NEW p \in Positions,
               files[buffers'[i].start][p] = buffers'[i].start + p[1]
        PROVE  cells[i][p] = buffers'[i].start + p[1]
    <3>1. CASE i \in Indices /\ buffers'[i].start = buffers[i].start
      BY <1>4, <2>1, <3>1 DEF FilesMatch
    <3>2. CASE ~(i \in Indices /\ buffers'[i].start = buffers[i].start)
      <4>1. i = j /\ buffers'[i].start = s
        BY <1>4, <3>2
      <4>2. files[s][p] # Nothing
        BY <1>3, <2>1, <4>1, RecordingAssumption DEF Positions
      <4>3. s \notin twins
        BY <1>4, <2>1, <4>1
      <4>4. Behind(s)
        BY <1>3, <4>2, <4>3 DEF FilesAreBehind
      <4>5. ~\E k \in Indices : buffers[k].start = s
        BY <1>4, <2>1, <3>2, <4>1
      <4> QED
        BY <1>3, <1>5, <4>4, <4>5 DEF Behind
    <3> QED
      BY <3>1, <3>2
  <2> QED
    BY <1>1, <2>1 DEF FilesMatch
<1>11. FilesAreBehind'
  <2>1. ASSUME NEW r \in Starts, r \notin twins', NEW p \in Positions, files[r][p] # Nothing
        PROVE  Behind(r)'
    <3>1. r \notin twins /\ Behind(r)
      BY <1>4, <2>1 DEF FilesAreBehind
    <3>2. r \in Nat
      BY StartCovers, BuffersAssumption DEF Starts
    <3>3. CASE \E k \in Indices \ {j} : buffers[k].start = r
      BY <1>4, <3>3 DEF Behind
    <3>4. CASE j \in Indices /\ buffers[j].start = r
      <4>1. \A i \in Indices \ {j} : buffers[i].start > r
        <5>1. ASSUME NEW i \in Indices \ {j}
              PROVE  buffers[i].start > r
          <6>1. buffers[i].start # r
            BY <3>1, <3>4, <5>1 DEF UniqueStarts
          <6>2. buffers[j].start <= buffers[i].start
            BY <1>2, <1>5, <3>4, <5>1 DEF NewRange, IsOldest
          <6> QED
            BY <1>5, <3>4, <5>1, <6>1, <6>2
        <5> QED
          BY <5>1
      <4>2. s >= r
        BY <1>3, <3>4
      <4>3. CASE s = r
        BY <1>4, <4>3 DEF Behind
      <4>4. CASE s > r
        BY <1>4, <4>1, <4>4 DEF Behind
      <4> QED
        BY <1>3, <3>2, <4>2, <4>3, <4>4
    <3>5. CASE Indices # {} /\ \A i \in Indices : buffers[i].start > r
      <4>1. s > r
        BY <1>3, <1>5, <3>2, <3>5
      <4> QED
        BY <1>4, <3>5, <4>1 DEF Behind
    <3> QED
      BY <3>1, <3>3, <3>4, <3>5 DEF Behind
  <2> QED
    BY <1>1, <2>1 DEF FilesAreBehind
<1>12. OnlyOlderIsLeft'
  BY <1>1 DEF OnlyOlderIsLeft
<1> QED
  BY <1>6, <1>7, <1>8, <1>9, <1>10, <1>11, <1>12
(* Steps that leave alone what the running task uses.                       *)
LEMMA TasksGoOn ==
    ASSUME RecordingIInv, UNCHANGED <<build, taskVars, diskVars, worker, job>>,
           \A w \in Workers : Runs(w) => /\ buffers'[job[w]].start = buffers[job[w]].start
                                        /\ cells'[job[w]] = cells[job[w]]
    PROVE  TaskPart'
PROOF
<1>1. UNCHANGED <<build, nextFile, broken, stored, files, rows>>
  BY DEF taskVars, diskVars
<1>2. \A w \in Workers : Runs(w)' <=> Runs(w)
  BY DEF Runs
<1> USE DEF RecordingIInv, TaskPart
<1>3. FilesInTurn' /\ FreshWriters' /\ AllJoined'
  BY <1>1, <1>2 DEF FilesInTurn, FreshWriters, AllJoined, HasFile
<1>4. FilesWritten'
  BY <1>1, <1>2 DEF FilesWritten
<1>5. RowsWritten'
  BY <1>1, <1>2 DEF RowsWritten
<1> QED
  BY <1>3, <1>4, <1>5

LEMMA AssignStep ==
    ASSUME IInv, RecordingIInv, NEW t \in Threads, Assigns(t)
    PROVE  RecordingIInv'
PROOF
<1>1. heapOf[t] \in Heaps /\ UNCHANGED <<build, cells, taskVars, diskVars, worker, job>>
  BY AssignChanges DEF Assigns
<1>2. PICK j \in 1 .. MaxBuffers : NewRange(j, heapOf[t])
  BY AssignChanges
<1>3. RecordingTypeOK'
  <2>1. twins' \subseteq Starts
    BY <1>1, <1>2, NewRangeIsLast DEF NewRange, RecordingIInv, RecordingTypeOK
  <2> QED
    BY <1>1, <2>1 DEF RecordingIInv, RecordingTypeOK, taskVars, diskVars
<1>4. TaskPart'
  <2>1. \A w \in Workers : Runs(w) => job[w] \in Indices /\ job[w] # j
    BY <1>2, JobIsLocked DEF NewRange, Idle
  <2>2. \A w \in Workers : Runs(w) => buffers'[job[w]] = buffers[job[w]]
    BY <1>2, <2>1 DEF NewRange
  <2> QED
    BY <1>1, <2>2, TasksGoOn
<1> QED
  BY <1>3, <1>4, AssignBufferPart DEF RecordingIInv

-----------------------------------------------------------------------------
(* The copy of a packet                                                     *)
LEMMA CopyChanges ==
    ASSUME IInv, RecordingIInv, NEW t \in Threads, Copies(t)
    PROVE  \E i \in Indices, heap \in Heaps, p \in Positions :
             /\ heap = buffers[i].start + p[1]
             /\ heap % NumTimes = p[1]
             /\ ~buffers[i].locked
             /\ cells' = [cells EXCEPT ![i] = [cells[i] EXCEPT ![p] = heap]]
             /\ UNCHANGED <<build, taskVars, diskVars, twins, buffers, worker, job>>
PROOF
<1> DEFINE i == target[t]
           heap == heapOf[t]
           p == Position(t)
<1>1. /\ at[t] = "copy"
      /\ cells' = [cells EXCEPT ![i][p] = heap]
      /\ UNCHANGED <<build, taskVars, diskVars, twins, buffers, worker, job>>
  BY DEF Copies, CopyPacket, poolVars, bufferVars
<1>2. /\ i \in Indices /\ heap \in Heaps /\ heap \in Nat
      /\ Covers(i, heap) /\ ~buffers[i].locked /\ visiting[t] \in Streams
  BY <1>1, BuffersAssumption DEF IInv, CopiesAreSafe, TargetsOK
<1>3. PICK k \in Heaps : buffers[i].start = Start(k)
  BY <1>2 DEF RecordingIInv, BufferPart, StartsOK
<1>4. buffers[i].start \in Nat
  BY <1>2, StartsAreNat
<1>5. heap >= buffers[i].start /\ heap <= buffers[i].start + NumTimes - 1
  BY <1>2 DEF Covers
<1>6. heap - buffers[i].start = heap % NumTimes
  <2>1. k \in Nat
    BY BuffersAssumption
  <2> HIDE DEF heap, i
  <2> QED
    BY <1>2, <1>3, <1>5, <2>1, CoveredStart
<1>7. /\ p = <<heap - buffers[i].start, visiting[t]>>
      /\ heap - buffers[i].start \in 0 .. NumTimes - 1
  BY <1>2, <1>4, <1>5, BuffersAssumption DEF Position
<1>8. p \in Positions /\ p[1] = heap - buffers[i].start
  BY <1>2, <1>7 DEF Positions
<1>9. heap = buffers[i].start + p[1]
  BY <1>2, <1>4, <1>8
<1>10. cells' = [cells EXCEPT ![i] = [cells[i] EXCEPT ![p] = heap]]
  BY <1>1
<1> HIDE DEF i, heap, p
<1> QED
  BY <1>1, <1>2, <1>6, <1>8, <1>9, <1>10

LEMMA CopyStep ==
    ASSUME IInv, RecordingIInv, NEW t \in Threads, Copies(t)
    PROVE  RecordingIInv'
PROOF
<1>1. PICK i \in Indices, heap \in Heaps, p \in Positions :
         /\ heap = buffers[i].start + p[1]
         /\ heap % NumTimes = p[1]
         /\ ~buffers[i].locked
         /\ cells' = [cells EXCEPT ![i] = [cells[i] EXCEPT ![p] = heap]]
         /\ UNCHANGED <<build, taskVars, diskVars, twins, buffers, worker, job>>
  BY CopyChanges
<1>2. UNCHANGED <<build, nextFile, broken, stored, files, rows, failures, twins, buffers>>
      /\ Indices' = Indices
  BY <1>1 DEF taskVars, diskVars, Indices
<1>3. /\ cells \in [1 .. MaxBuffers -> Contents]
      /\ \A j \in Indices : j \in 1 .. MaxBuffers
  BY BuffersAssumption DEF RecordingIInv, RecordingTypeOK, IInv, TypeOK, BuffersTypeOK, Indices
<1>4. [cells[i] EXCEPT ![p] = heap] \in Contents
  BY <1>3 DEF Contents
<1>5. /\ \A j \in 1 .. MaxBuffers : j # i => cells'[j] = cells[j]
      /\ cells'[i][p] = heap
      /\ \A q \in Positions : q # p => cells'[i][q] = cells[i][q]
  BY <1>1, <1>3, <1>4 DEF Contents
<1>6. heap \in Nat
  BY BuffersAssumption
<1>7. RecordingTypeOK'
  BY <1>1, <1>2, <1>3, <1>4 DEF RecordingIInv, RecordingTypeOK
<1>8. BufferPart'
  <2> USE DEF RecordingIInv, BufferPart
  <2>1. StartsOK' /\ UniqueStarts' /\ FilesAreBehind' /\ OnlyOlderIsLeft'
    BY <1>2 DEF StartsOK, UniqueStarts, FilesAreBehind, Behind, OnlyOlderIsLeft
  <2>2. CellsAreOlder'
    <3>1. ASSUME NEW j \in Indices, NEW q \in Positions, cells'[j][q] # Nothing
          PROVE  cells'[j][q] <= buffers[j].start + q[1] /\ cells'[j][q] % NumTimes = q[1]
      <4>1. CASE j = i /\ q = p
        BY <1>1, <1>5, <1>6, <4>1
      <4>2. CASE ~(j = i /\ q = p)
        BY <1>3, <1>5, <3>1, <4>2 DEF CellsAreOlder, Older
      <4> QED
        BY <4>1, <4>2
    <3> QED
      BY <1>2, <3>1 DEF CellsAreOlder, Older
  <2>3. UnusedAreEmpty'
    BY <1>2, <1>5 DEF UnusedAreEmpty
  <2>4. FilesMatch'
    <3>1. ASSUME NEW j \in Indices, buffers[j].start \notin twins, NEW q \in Positions,
                 files[buffers[j].start][q] = buffers[j].start + q[1]
          PROVE  cells'[j][q] = buffers[j].start + q[1]
      <4>1. CASE j = i /\ q = p
        BY <1>1, <1>5, <4>1
      <4>2. CASE ~(j = i /\ q = p)
        BY <1>3, <1>5, <3>1, <4>2 DEF FilesMatch
      <4> QED
        BY <4>1, <4>2
    <3> QED
      BY <1>2, <3>1 DEF FilesMatch
  <2> QED
    BY <2>1, <2>2, <2>3, <2>4
<1>9. TaskPart'
  <2>1. \A w \in Workers : Runs(w) => job[w] \in Indices /\ job[w] # i
    BY <1>1, JobIsLocked
  <2> QED
    BY <1>1, <1>3, <1>5, <2>1, TasksGoOn
<1> QED
  BY <1>7, <1>8, <1>9 DEF RecordingIInv

-----------------------------------------------------------------------------
(* The steps of the task.  Nobody else runs one.                            *)
LEMMA OneWorker ==
    ASSUME NEW w \in Workers, NEW v \in Workers
    PROVE  v = w
BY RecordingAssumption

LEMMA NextInTurn ==
    ASSUME NEW C \in Nat, NEW W \in Nat, NEW u \in Nat, NEW k \in Nat
    PROVE  C * (u + W * k) + W * C = C * (u + W * (k + 1))
PROOF
<1>1. W * (k + 1) = W * k + W
  OBVIOUS
<1>2. C * (u + W * k + W) = C * (u + W * k) + C * W
  OBVIOUS
<1> QED
  BY <1>1, <1>2

LEMMA WriteFileStep ==
    ASSUME IInv, RecordingIInv, NEW w \in Workers, NEW u \in Writers, WriteFile(w, u)
    PROVE  RecordingIInv'
PROOF
<1> DEFINE i == job[w]
           s == buffers[i].start
           block == nextFile[u] .. LastChannel(nextFile[u])
           new == [p \in Positions |-> IF p[2] \in block THEN cells[i][p] ELSE files[s][p]]
<1>1. /\ Runs(w) /\ ~stored /\ build = "files" /\ HasFile(u)
      /\ files' = [files EXCEPT ![s] = new]
      /\ nextFile' = [nextFile EXCEPT ![u] = @ + NumWriters * ChannelsPerFile]
      /\ UNCHANGED <<vars, build, cells, broken, stored, rows, failures, twins>>
  BY DEF WriteFile, Storing
<1>2. i \in Indices /\ s \in Nat /\ s \in Starts
  BY <1>1, JobIsLocked, StartsAreNat
<1>3. UNCHANGED <<buffers, worker, job>> /\ Indices' = Indices
  BY <1>1 DEF vars, poolVars, bufferVars, Indices
<1>4. /\ files \in [Starts -> Contents] /\ nextFile \in [Writers -> Nat]
      /\ cells[i] \in Contents
  <2>1. i \in 1 .. MaxBuffers
    BY <1>2, BuffersAssumption DEF IInv, TypeOK, BuffersTypeOK, Indices
  <2> QED
    BY <2>1 DEF RecordingIInv, RecordingTypeOK
<1>5. new \in Contents
  BY <1>2, <1>4 DEF Contents
<1>6. /\ files'[s] = new
      /\ \A r \in Starts : r # s => files'[r] = files[r]
      /\ \A p \in Positions : new[p] = cells[i][p] \/ new[p] = files[s][p]
  BY <1>1, <1>2, <1>4
<1>7. nextFile[u] \in Nat /\ NumWriters * ChannelsPerFile \in Nat
      /\ nextFile'[u] = nextFile[u] + NumWriters * ChannelsPerFile
      /\ \A v \in Writers \ {u} : nextFile'[v] = nextFile[v]
  BY <1>1, <1>4, RecordingAssumption
<1>8. RecordingTypeOK'
  <2>1. files' \in [Starts -> Contents]
    BY <1>1, <1>4, <1>5
  <2>2. nextFile' \in [Writers -> Nat]
    BY <1>1, <1>4, <1>7
  <2> QED
    BY <1>1, <2>1, <2>2 DEF RecordingIInv, RecordingTypeOK
<1> HIDE DEF new
<1>9. BufferPart'
  <2> USE DEF RecordingIInv, BufferPart
  <2>1. StartsOK' /\ UniqueStarts' /\ UnusedAreEmpty' /\ CellsAreOlder'
    BY <1>1, <1>3 DEF StartsOK, UniqueStarts, UnusedAreEmpty, CellsAreOlder
  <2>2. FilesMatch'
    <3>1. ASSUME NEW j \in Indices, buffers[j].start \notin twins, NEW p \in Positions,
                 files'[buffers[j].start][p] = buffers[j].start + p[1]
          PROVE  cells[j][p] = buffers[j].start + p[1]
      <4>1. CASE buffers[j].start = s
        <5>1. j = i
          BY <1>2, <3>1, <4>1 DEF UniqueStarts
        <5> QED
          BY <1>2, <1>6, <3>1, <5>1 DEF FilesMatch
      <4>2. CASE buffers[j].start # s
        BY <1>6, <3>1, <4>2, StartsAreNat DEF FilesMatch
      <4> QED
        BY <4>1, <4>2
    <3> QED
      BY <1>1, <1>3, <3>1 DEF FilesMatch
  <2>3. FilesAreBehind'
    <3>1. ASSUME NEW r \in Starts, r \notin twins, NEW p \in Positions, files'[r][p] # Nothing
          PROVE  Behind(r)
      <4>1. CASE r = s
        BY <1>2, <4>1 DEF Behind
      <4>2. CASE r # s
        BY <1>6, <3>1, <4>2 DEF FilesAreBehind
      <4> QED
        BY <4>1, <4>2
    <3>2. \A r \in Starts : Behind(r) => Behind(r)'
      BY <1>3 DEF Behind
    <3> QED
      BY <1>1, <3>1, <3>2 DEF FilesAreBehind
  <2>4. OnlyOlderIsLeft'
    <3>1. ASSUME NEW r \in Starts, NEW p \in Positions, files'[r][p] # Nothing
          PROVE  files'[r][p] <= r + p[1] /\ files'[r][p] % NumTimes = p[1]
      <4>1. CASE r = s /\ new[p] = cells[i][p]
        BY <1>2, <1>6, <3>1, <4>1 DEF CellsAreOlder, Older
      <4>2. CASE r # s \/ new[p] = files[s][p]
        BY <1>6, <3>1, <4>2 DEF OnlyOlderIsLeft
      <4> QED
        BY <1>6, <4>1, <4>2
    <3> QED
      BY <3>1 DEF OnlyOlderIsLeft
  <2> QED
    BY <2>1, <2>2, <2>3, <2>4
<1>10. TaskPart'
  <2> USE DEF RecordingIInv, TaskPart
  <2>1. PICK k \in Nat : nextFile[u] = ChannelsPerFile * (u + NumWriters * k)
    BY DEF FilesInTurn
  <2>2. FilesInTurn'
    <3>1. u \in Nat /\ ChannelsPerFile \in Nat /\ NumWriters \in Nat
      BY RecordingAssumption DEF Writers
    <3>2. nextFile'[u] = ChannelsPerFile * (u + NumWriters * (k + 1))
      BY <1>7, <2>1, <3>1, NextInTurn
    <3> QED
      BY <1>7, <3>2 DEF FilesInTurn
  <2>3. FreshWriters' /\ AllJoined' /\ RowsWritten'
    BY <1>1, <1>3 DEF FreshWriters, AllJoined, RowsWritten, Runs
  <2>4. FilesWritten'
    <3>1. ASSUME NEW p \in Positions, p[2] < nextFile'[WriterOf(p[2])]
          PROVE  new[p] = cells[i][p]
      <4>1. p[2] \in Streams /\ p[2] \in Nat /\ p[2] <= NumStreams - 1
        BY ReceiverAssumption DEF Positions, Streams
      <4>2. CASE p[2] \in block
        BY <4>2 DEF new
      <4>3. CASE p[2] < nextFile[WriterOf(p[2])]
        BY <1>1, <1>6, <4>3 DEF FilesWritten
      <4>4. CASE WriterOf(p[2]) = u /\ p[2] >= nextFile[u] /\ p[2] \notin block
        <5>1. /\ (p[2] \div ChannelsPerFile) % NumWriters = u
              /\ ChannelsPerFile * (u + NumWriters * k) <= p[2]
              /\ p[2] < ChannelsPerFile * (u + NumWriters * k) + NumWriters * ChannelsPerFile
          BY <1>7, <2>1, <3>1, <4>4 DEF WriterOf
        <5>2. u \in 0 .. NumWriters - 1 /\ ChannelsPerFile \in Nat \ {0}
              /\ NumWriters \in Nat \ {0}
          BY RecordingAssumption DEF Writers
        <5>3. p[2] < nextFile[u] + ChannelsPerFile
          BY <2>1, <4>1, <5>1, <5>2, BlockOfChannel
        <5>4. p[2] <= LastChannel(nextFile[u])
          BY <1>7, <4>1, <5>2, <5>3 DEF LastChannel
        <5>5. LastChannel(nextFile[u]) \in Int
          BY <1>7, <5>2, ReceiverAssumption DEF LastChannel
        <5> QED
          BY <1>7, <4>1, <4>4, <5>4, <5>5
      <4>5. WriterOf(p[2]) \in Writers
        BY <4>1, FirstBlock
      <4> QED
        BY <1>7, <3>1, <4>1, <4>2, <4>3, <4>4, <4>5
    <3>2. \A v \in Workers : job'[v] = i
      BY <1>3, OneWorker
    <3> QED
      BY <1>1, <1>3, <1>6, <3>1, <3>2 DEF FilesWritten
  <2> QED
    BY <2>2, <2>3, <2>4
<1> QED
  BY <1>8, <1>9, <1>10 DEF RecordingIInv
LEMMA SameBufferPart ==
    ASSUME BufferPart, UNCHANGED <<cells, files, twins>>, Indices' = Indices,
           \A i \in Indices : buffers'[i].start = buffers[i].start
    PROVE  BufferPart'
PROOF
<1> USE DEF BufferPart
<1>1. StartsOK' /\ UniqueStarts' /\ UnusedAreEmpty'
  BY DEF StartsOK, UniqueStarts, UnusedAreEmpty
<1>2. CellsAreOlder' /\ OnlyOlderIsLeft'
  BY DEF CellsAreOlder, OnlyOlderIsLeft, Older
<1>3. FilesMatch' /\ FilesAreBehind'
  BY DEF FilesMatch, FilesAreBehind, Behind
<1> QED
  BY <1>1, <1>2, <1>3

LEMMA OtherTaskSteps ==
    ASSUME IInv, RecordingIInv, NEW w \in Workers,
           (\E u \in Writers : OpenFails(w, u)) \/ Finishes(w)
    PROVE  RecordingIInv'
PROOF
<1>1. /\ Runs(w) /\ ~stored /\ UNCHANGED vars
      /\ UNCHANGED <<build, cells, files, twins, nextFile>>
  BY DEF OpenFails, Finishes, JoinWriters, WriteRows, Storing, diskVars
<1>2. UNCHANGED <<buffers, worker, job>> /\ Indices' = Indices
      /\ \A v \in Workers : Runs(v)' <=> Runs(v)
  BY <1>1 DEF vars, poolVars, bufferVars, Indices, Runs
<1>3. job[w] \in 1 .. MaxBuffers
  <2>1. job[w] \in Indices
    BY <1>1, JobIsLocked
  <2> QED
    BY <2>1, BuffersAssumption DEF IInv, TypeOK, BuffersTypeOK, Indices
<1> USE DEF RecordingIInv, TaskPart
<1>4. BufferPart'
  BY <1>1, <1>2, SameBufferPart
<1>5. FilesInTurn' /\ FilesWritten' /\ FreshWriters'
  BY <1>1, <1>2 DEF FilesInTurn, FilesWritten, FreshWriters
<1>6. CASE \E u \in Writers : OpenFails(w, u)
  <2>1. RecordingTypeOK'
    BY <1>6, RecordingAssumption DEF OpenFails, diskVars, RecordingTypeOK
  <2>2. AllJoined' /\ RowsWritten'
    BY <1>1, <1>6 DEF OpenFails, AllJoined, RowsWritten
  <2> QED
    BY <1>4, <1>5, <2>1, <2>2
<1>7. CASE JoinWriters(w)
  <2>1. RecordingTypeOK'
    BY <1>7 DEF JoinWriters, diskVars, RecordingTypeOK
  <2>2. AllJoined' /\ RowsWritten'
    BY <1>1, <1>7 DEF JoinWriters, AllJoined, RowsWritten, HasFile
  <2> QED
    BY <1>4, <1>5, <2>1, <2>2
<1>8. CASE WriteRows(w)
  <2>1. rows' = Append(rows, cells[job[w]]) /\ cells[job[w]] \in Contents /\ build = "ms"
    BY <1>3, <1>8 DEF WriteRows, RecordingTypeOK
  <2>2. /\ rows' \in Seq(Contents)
        /\ Len(rows) + 1 \in DOMAIN rows'
        /\ rows'[Len(rows) + 1] = cells[job[w]]
    BY <2>1 DEF RecordingTypeOK
  <2>3. RecordingTypeOK'
    BY <1>8, <2>2 DEF WriteRows, RecordingTypeOK
  <2>4. \A v \in Workers : job'[v] = job[w]
    BY <1>2, OneWorker
  <2>5. AllJoined' /\ RowsWritten'
    BY <1>1, <2>1, <2>2, <2>4 DEF AllJoined, RowsWritten
  <2> QED
    BY <1>4, <1>5, <2>3, <2>5
<1> QED
  BY <1>6, <1>7, <1>8 DEF Finishes

LEMMA FreshTypes ==
    FirstFiles \in [Writers -> Nat]
    /\ \A u \in Writers : FirstFiles[u] = ChannelsPerFile * (u + NumWriters * 0)
PROOF
<1>1. \A u \in Writers : u \in Nat
  BY RecordingAssumption DEF Writers
<1>2. \A u \in Writers : u * ChannelsPerFile \in Nat
                        /\ u * ChannelsPerFile = ChannelsPerFile * (u + NumWriters * 0)
  BY <1>1, RecordingAssumption
<1> QED
  BY <1>2 DEF FirstFiles

LEMMA UnlockStep ==
    ASSUME IInv, RecordingIInv, NEW w \in Workers, UnlockStored(w)
    PROVE  RecordingIInv'
PROOF
<1>1. /\ Unlock(job[w]) /\ worker' = [worker EXCEPT ![w] = "signal"] /\ Runs(w)
      /\ nextFile' = FirstFiles /\ broken' = {} /\ stored' = FALSE
      /\ UNCHANGED <<build, cells, files, rows, failures, twins>>
  BY DEF UnlockStored, UnlockBuffer, Return, diskVars
<1>2. job[w] \in Indices
  BY <1>1, JobIsLocked
<1>3. Indices' = Indices /\ \A i \in Indices : buffers'[i].start = buffers[i].start
  BY <1>1, <1>2, FlagChanges DEF IInv, TypeOK
<1>4. \A v \in Workers : ~Runs(v)'
  <2>1. worker'[w] = "signal"
    BY <1>1 DEF IInv, TypeOK, PoolTypeOK
  <2> QED
    BY <2>1, OneWorker DEF Runs
<1> USE DEF RecordingIInv
<1>5. RecordingTypeOK'
  BY <1>1, FreshTypes DEF RecordingTypeOK
<1>6. BufferPart'
  BY <1>1, <1>3, SameBufferPart
<1>7. TaskPart'
  <2>1. FilesInTurn'
    BY <1>1, FreshTypes DEF FilesInTurn
  <2> QED
    BY <1>1, <1>4, <2>1 DEF TaskPart, FreshWriters, FilesWritten, AllJoined, RowsWritten
<1> QED
  BY <1>5, <1>6, <1>7

LEMMA TakeStep ==
    ASSUME IInv, RecordingIInv, NEW w \in Workers, Begins(w)
    PROVE  RecordingIInv'
PROOF
<1>1. /\ worker[w] = "take" /\ worker' = [worker EXCEPT ![w] = "run"]
      /\ UNCHANGED <<build, cells, nextFile, broken, stored, files, rows, failures, twins, buffers>>
  BY DEF Begins, TakeTask, CanTake, bufferVars, dataVars, taskVars, diskVars
<1>2. \A v \in Workers : ~Runs(v)
  BY <1>1, OneWorker DEF Runs
<1>3. Indices' = Indices /\ Runs(w)'
  BY <1>1 DEF Indices, Runs, IInv, TypeOK, PoolTypeOK
<1> USE DEF RecordingIInv, TaskPart
<1>4. nextFile = FirstFiles /\ ~stored
  BY <1>2 DEF FreshWriters
<1>5. RecordingTypeOK'
  BY <1>1 DEF RecordingTypeOK
<1>6. BufferPart'
  BY <1>1, <1>3, SameBufferPart
<1>7. \A p \in Positions : ~(p[2] < FirstFiles[WriterOf(p[2])])
  <2>1. ASSUME NEW p \in Positions
        PROVE  ~(p[2] < FirstFiles[WriterOf(p[2])])
    <3>1. p[2] \in Nat
      BY ReceiverAssumption DEF Positions, Streams
    <3>2. WriterOf(p[2]) \in Writers /\ WriterOf(p[2]) * ChannelsPerFile <= p[2]
      BY <3>1, FirstBlock
    <3>3. FirstFiles[WriterOf(p[2])] = WriterOf(p[2]) * ChannelsPerFile
      BY <3>2 DEF FirstFiles
    <3>4. WriterOf(p[2]) * ChannelsPerFile \in Nat
      BY <3>2, RecordingAssumption DEF Writers
    <3> QED
      BY <3>1, <3>2, <3>3, <3>4
  <2> QED
    BY <2>1
<1>8. FilesInTurn' /\ FreshWriters' /\ AllJoined' /\ RowsWritten'
  BY <1>1, <1>3, <1>4 DEF FilesInTurn, FreshWriters, AllJoined, RowsWritten
<1>9. FilesWritten'
  BY <1>1, <1>4, <1>7 DEF FilesWritten
<1> QED
  BY <1>5, <1>6, <1>8, <1>9

-----------------------------------------------------------------------------
(* The invariant and what follows from it                                   *)
LEMMA RecordingStarts ==
    ASSUME RecordingInit
    PROVE  RecordingIInv
PROOF
<1>1. buffers = <<>> /\ Indices = {} /\ \A w \in Workers : ~Runs(w)
  BY DEF RecordingInit, Init, BuffersInit, PoolInit, Indices, Runs
<1>2. Empty \in Contents /\ \A p \in Positions : Empty[p] = Nothing
  BY DEF Empty, Contents
<1>3. RecordingTypeOK
  <2>1. cells \in [1 .. MaxBuffers -> Contents] /\ files \in [Starts -> Contents]
    BY <1>2 DEF RecordingInit
  <2>2. rows \in Seq(Contents) /\ failures \in 0 .. MaxFailures /\ nextFile \in [Writers -> Nat]
    BY FreshTypes, RecordingAssumption DEF RecordingInit
  <2> QED
    BY <2>1, <2>2 DEF RecordingInit, RecordingTypeOK
<1>4. BufferPart
  BY <1>1, <1>2 DEF RecordingInit, BufferPart, StartsOK, UniqueStarts, CellsAreOlder,
     UnusedAreEmpty, FilesMatch, FilesAreBehind, OnlyOlderIsLeft
<1>5. FilesInTurn
  BY FreshTypes DEF RecordingInit, FilesInTurn
<1>6. TaskPart
  BY <1>1, <1>5 DEF RecordingInit, TaskPart, FreshWriters, FilesWritten, AllJoined, RowsWritten
<1> QED
  BY <1>3, <1>4, <1>6 DEF RecordingIInv

LEMMA RecordingStep ==
    ASSUME IInv, RecordingIInv, [RecordingNext]_allVars
    PROVE  RecordingIInv'
BY RecordingSteps, CalmStep, AssignStep, CopyStep, WriteFileStep, OtherTaskSteps,
   ClearIsCalm, UnlockStep, TakeStep

THEOREM RecordingInvariant == RecordingSpec => [](IInv /\ RecordingIInv)
PROOF
<1>1. RecordingInit => RecordingIInv
  BY RecordingStarts
<1>2. IInv /\ RecordingIInv /\ [RecordingNext]_allVars => RecordingIInv'
  BY RecordingStep
<1> QED
  BY <1>1, <1>2, RecordingIsReceiver, Invariant, PTL DEF RecordingSpec

(* Every variable keeps to its type.                                        *)
THEOREM RecordingTypeCorrect == RecordingSpec => []RecordingTypeOK
PROOF
<1>1. RecordingIInv => RecordingTypeOK
  BY DEF RecordingIInv
<1> QED
  BY <1>1, RecordingInvariant, PTL

(* However the channels are shared among writer threads and files, when the *)
(* threads have been joined the files are the buffer, but for what could    *)
(* not be opened.                                                           *)
THEOREM FilesAreWhole == RecordingSpec => []StoredIsWhole
PROOF
<1>1. IInv /\ RecordingIInv => StoredIsWhole
  <2> SUFFICES ASSUME IInv, RecordingIInv, NEW w \in Workers, Runs(w), stored, build = "files",
                      NEW p \in Positions, ~Skipped(p[2])
               PROVE  files[buffers[job[w]].start][p] = cells[job[w]][p]
    BY DEF StoredIsWhole
  <2> DEFINE u == WriterOf(p[2])
  <2>1. p[2] \in Nat /\ p[2] < NumStreams
    BY ReceiverAssumption DEF Positions, Streams
  <2>2. u \in Writers
    BY <2>1, FirstBlock
  <2>3. nextFile[u] \in Nat
    BY <2>2 DEF RecordingIInv, RecordingTypeOK
  <2>4. u \in broken \/ nextFile[u] >= NumStreams
    BY <2>2, <2>3, ReceiverAssumption DEF RecordingIInv, TaskPart, AllJoined, HasFile
  <2>5. p[2] < nextFile[u]
    BY <2>1, <2>3, <2>4, ReceiverAssumption DEF Skipped
  <2> QED
    BY <2>5 DEF RecordingIInv, TaskPart, FilesWritten
<1> QED
  BY <1>1, RecordingInvariant, PTL

(* The files of a buffer show nothing newer than the buffer.                *)
THEOREM OnlyOlderDataAreLeft == RecordingSpec => []OnlyOlderIsLeft
PROOF
<1>1. RecordingIInv => OnlyOlderIsLeft
  BY DEF RecordingIInv, BufferPart
<1> QED
  BY <1>1, RecordingInvariant, PTL
-----------------------------------------------------------------------------
(* What was taken stays                                                     *)

(* The buffer i holds the visibilities.                                     *)
Holds(i, heap, c) ==
    /\ i \in Indices
    /\ buffers[i].filled
    /\ buffers[i].start = Start(heap)
    /\ cells[i][<<heap % NumTimes, c>>] = heap

LEMMA MemoryPlace ==
    ASSUME IInv, RecordingIInv, NEW heap \in Heaps, NEW c \in Streams
    PROVE  /\ <<heap % NumTimes, c>> \in Positions
           /\ Start(heap) + (heap % NumTimes) = heap
           /\ InMemory(heap, c) <=> \E i \in Indices : Holds(i, heap, c)
PROOF
<1>1. heap \in Nat
  BY BuffersAssumption
<1>2. /\ heap % NumTimes \in 0 .. NumTimes - 1
      /\ Start(heap) \in Nat /\ Start(heap) <= heap /\ heap <= Start(heap) + NumTimes - 1
  BY <1>1, StartCovers, BuffersAssumption
<1>3. heap - Start(heap) = heap % NumTimes
  BY <1>1, <1>2, CoveredStart
<1>4. ASSUME NEW i \in Indices
      PROVE  /\ Covers(i, heap) <=> buffers[i].start = Start(heap)
             /\ Covers(i, heap) => heap - buffers[i].start = heap % NumTimes
  <2>1. PICK k \in Heaps : buffers[i].start = Start(k)
    BY DEF RecordingIInv, BufferPart, StartsOK
  <2>2. Covers(i, heap) => buffers[i].start = Start(heap)
    BY <1>1, <2>1, CoveredStart, BuffersAssumption DEF Covers
  <2>3. buffers[i].start = Start(heap) => Covers(i, heap)
    BY <1>2 DEF Covers
  <2> QED
    BY <1>3, <2>2, <2>3
<1>5. InMemory(heap, c) <=> \E i \in Indices : Holds(i, heap, c)
  BY <1>4 DEF InMemory, Holds
<1> QED
  BY <1>1, <1>2, <1>3, <1>5 DEF Positions

(* What a buffer holds it holds until it is cleared.                        *)
LEMMA MemoryStays ==
    ASSUME IInv, RecordingIInv, [RecordingNext]_allVars,
           NEW heap \in Heaps, NEW c \in Streams, NEW i \in Indices, Holds(i, heap, c)
    PROVE  \/ Holds(i, heap, c)'
           \/ \E w \in Workers : ClearStored(w) /\ job[w] = i
PROOF
<1> DEFINE p == <<heap % NumTimes, c>>
<1>1. CASE Calm /\ NothingCleared
  BY <1>1 DEF Calm, NothingCleared, Holds, dataVars
<1>2. CASE \E t \in Threads : Assigns(t)
  <2>1. PICK t \in Threads : Assigns(t)
    BY <1>2
  <2>2. PICK j \in 1 .. MaxBuffers : NewRange(j, heapOf[t])
    BY <2>1, AssignChanges
  <2>3. i # j
    BY <2>2 DEF NewRange, Idle, Holds
  <2> QED
    BY <2>1, <2>2, <2>3 DEF NewRange, Holds, Assigns
<1>3. CASE \E t \in Threads : Copies(t)
  <2>1. PICK j \in Indices, h \in Heaps, q \in Positions :
           /\ h = buffers[j].start + q[1]
           /\ h % NumTimes = q[1]
           /\ cells' = [cells EXCEPT ![j] = [cells[j] EXCEPT ![q] = h]]
           /\ UNCHANGED buffers
    BY <1>3, CopyChanges
  <2>2. \A k \in Indices : k \in 1 .. MaxBuffers
    BY BuffersAssumption DEF IInv, TypeOK, BuffersTypeOK, Indices
  <2>3. cells \in [1 .. MaxBuffers -> Contents]
    BY DEF RecordingIInv, RecordingTypeOK
  <2>4. cells[j] \in [Positions -> Heaps \union {Nothing}]
    BY <2>2, <2>3 DEF Contents
  <2>5. p \in Positions /\ Start(heap) + (heap % NumTimes) = heap
    BY MemoryPlace
  <2>6. cells'[i][p] = heap
    <3>1. CASE i = j /\ p = q
      <4>1. q[1] = heap % NumTimes /\ h = heap
        BY <2>1, <2>5, <3>1 DEF Holds
      <4> QED
        BY <2>1, <2>2, <2>3, <2>4, <3>1, <4>1
    <3>2. CASE i # j
      BY <2>1, <2>2, <2>3, <3>2 DEF Holds
    <3>3. CASE i = j /\ p # q
      <4>1. cells'[i] = [cells[j] EXCEPT ![q] = h]
        BY <2>1, <2>2, <2>3, <3>3
      <4> QED
        BY <2>4, <2>5, <3>3, <4>1 DEF Holds
    <3> QED
      BY <3>1, <3>2, <3>3
  <2> QED
    BY <2>1, <2>6 DEF Holds, Indices
<1>4. CASE \E w \in Workers : Finishes(w) \/ Begins(w)
                \/ \E u \in Writers : WriteFile(w, u) \/ OpenFails(w, u)
  <2>1. UNCHANGED <<buffers, cells>>
    BY <1>4 DEF Finishes, JoinWriters, WriteRows, Begins, WriteFile, OpenFails, vars,
       bufferVars, dataVars
  <2> QED
    BY <2>1 DEF Holds, Indices
<1>5. ASSUME NEW w \in Workers, ClearStored(w), job[w] # i
      PROVE  Holds(i, heap, c)'
  BY <1>5, ClearIsCalm DEF Calm, dataVars, Holds
<1>6. ASSUME NEW w \in Workers, UnlockStored(w)
      PROVE  Holds(i, heap, c)'
  <2>1. Unlock(job[w]) /\ job[w] \in Indices /\ cells' = cells
    BY <1>6, JobIsLocked DEF UnlockStored, UnlockBuffer, Return
  <2>2. /\ Indices' = Indices
        /\ buffers'[i].start = buffers[i].start /\ buffers'[i].filled = buffers[i].filled
    BY <2>1, FlagChanges DEF IInv, TypeOK
  <2> QED
    BY <2>1, <2>2 DEF Holds
<1> QED
  BY <1>1, <1>2, <1>3, <1>4, <1>5, <1>6, RecordingSteps

(* A buffer is cleared after its data have been written.                    *)
LEMMA ClearedIsOnDisk ==
    ASSUME IInv, RecordingIInv, NEW w \in Workers, ClearStored(w), Output,
           NEW heap \in Heaps, NEW c \in Streams, Holds(job[w], heap, c), ~Skipped(c)
    PROVE  OnDisk(heap, c)'
PROOF
<1> DEFINE p == <<heap % NumTimes, c>>
<1>1. Runs(w) /\ stored /\ UNCHANGED <<files, rows>>
  BY ClearIsCalm DEF Calm, dataVars, diskVars
<1>2. p \in Positions /\ p[2] = c /\ cells[job[w]][p] = heap
      /\ buffers[job[w]].start = Start(heap)
  BY MemoryPlace DEF Holds
<1>3. CASE build = "files"
  <2>1. c \in Nat /\ c < NumStreams
    BY ReceiverAssumption DEF Streams
  <2>2. WriterOf(c) \in Writers
    BY <2>1, FirstBlock
  <2>3. nextFile[WriterOf(c)] \in Nat
    BY <2>2 DEF RecordingIInv, RecordingTypeOK
  <2>4. c < nextFile[WriterOf(c)]
    BY <1>1, <1>3, <2>1, <2>2, <2>3, ReceiverAssumption
    DEF RecordingIInv, TaskPart, AllJoined, HasFile, Skipped
  <2>5. files[buffers[job[w]].start][p] = cells[job[w]][p]
    BY <1>1, <1>2, <1>3, <2>4 DEF RecordingIInv, TaskPart, FilesWritten
  <2> QED
    BY <1>1, <1>2, <2>5 DEF OnDisk
<1>4. CASE build = "ms"
  <2>1. PICK n \in DOMAIN rows : rows[n] = cells[job[w]]
    BY <1>1, <1>4 DEF RecordingIInv, TaskPart, RowsWritten
  <2> QED
    BY <1>1, <1>2, <2>1 DEF OnDisk
<1>5. build \in {"files", "ms"}
  BY RecordingAssumption DEF RecordingIInv, RecordingTypeOK
<1> QED
  BY <1>3, <1>4, <1>5

LEMMA RowsStay ==
    ASSUME IInv, RecordingIInv, [RecordingNext]_allVars, NEW n \in DOMAIN rows
    PROVE  n \in DOMAIN rows' /\ rows'[n] = rows[n]
PROOF
<1>1. CASE UNCHANGED rows
  BY <1>1
<1>2. CASE \E w \in Workers : WriteRows(w)
  <2>1. PICK w \in Workers : rows' = Append(rows, cells[job[w]])
    BY <1>2 DEF WriteRows
  <2> QED
    BY <2>1 DEF RecordingIInv, RecordingTypeOK
<1>3. (\E w \in Workers : WriteRows(w)) \/ UNCHANGED rows
  BY RecordingSteps DEF Calm, Assigns, Copies, WriteFile, OpenFails, Finishes, JoinWriters,
     ClearStored, UnlockStored, Begins, dataVars, diskVars
<1> QED
  BY <1>1, <1>2, <1>3

(* Files are written again with what they hold, or with that of another     *)
(* buffer of the same heaps.                                                *)
LEMMA FilesStay ==
    ASSUME IInv, RecordingIInv, [RecordingNext]_allVars,
           NEW heap \in Heaps, NEW c \in Streams, Start(heap) \notin twins,
           files[Start(heap)][<<heap % NumTimes, c>>] = heap
    PROVE  files'[Start(heap)][<<heap % NumTimes, c>>] = heap
PROOF
<1> DEFINE p == <<heap % NumTimes, c>>
<1>1. CASE UNCHANGED files
  BY <1>1
<1>2. CASE \E w \in Workers, u \in Writers : WriteFile(w, u)
  <2>1. PICK w \in Workers, u \in Writers : WriteFile(w, u)
    BY <1>2
  <2> DEFINE i == job[w]
             s == buffers[i].start
  <2>2. i \in Indices /\ s \in Starts
    BY <2>1, JobIsLocked, StartsAreNat DEF WriteFile, Storing
  <2>3. /\ p \in Positions /\ Start(heap) + p[1] = heap /\ Start(heap) \in Starts
    BY MemoryPlace DEF Starts
  <2>4. PICK new \in [Positions -> Heaps \union {Nothing}] :
           /\ files' = [files EXCEPT ![s] = new]
           /\ new[p] = cells[i][p] \/ new[p] = files[s][p]
    <3> DEFINE block == nextFile[u] .. LastChannel(nextFile[u])
               new == [q \in Positions |-> IF q[2] \in block THEN cells[i][q] ELSE files[s][q]]
    <3>1. files' = [files EXCEPT ![s] = new]
      BY <2>1 DEF WriteFile
    <3>2. cells[i] \in Contents /\ files[s] \in Contents
      <4>1. i \in 1 .. MaxBuffers
        BY <2>2, BuffersAssumption DEF IInv, TypeOK, BuffersTypeOK, Indices
      <4> QED
        BY <2>2, <4>1 DEF RecordingIInv, RecordingTypeOK
    <3>3. new \in [Positions -> Heaps \union {Nothing}]
      BY <3>2 DEF Contents
    <3>4. new[p] = cells[i][p] \/ new[p] = files[s][p]
      BY <2>3
    <3> HIDE DEF new
    <3> QED
      BY <3>1, <3>3, <3>4
  <2>5. files \in [Starts -> Contents]
    BY DEF RecordingIInv, RecordingTypeOK
  <2>6. CASE s = Start(heap)
    <3>1. cells[i][p] = heap
      BY <2>2, <2>3, <2>6 DEF RecordingIInv, BufferPart, FilesMatch
    <3> QED
      BY <2>2, <2>4, <2>5, <2>6, <3>1
  <2>7. CASE s # Start(heap)
    BY <2>2, <2>3, <2>4, <2>5, <2>7
  <2> QED
    BY <2>6, <2>7
<1>3. (\E w \in Workers, u \in Writers : WriteFile(w, u)) \/ UNCHANGED files
  BY RecordingSteps DEF Calm, Assigns, Copies, OpenFails, Finishes, JoinWriters, WriteRows,
     ClearStored, UnlockStored, Begins, dataVars, diskVars
<1> QED
  BY <1>1, <1>2, <1>3

(* Data that the receiver took are in a buffer that will be written, or on  *)
(* disk, from then on.                                                      *)
THEOREM TakenDataStay == RecordingSpec => HeldStays
PROOF
<1>1. ASSUME IInv, RecordingIInv, [RecordingNext]_allVars, Output,
             NEW heap \in Heaps, NEW c \in Streams,
             Held(heap, c), ~Skipped(c), Start(heap) \notin twins
      PROVE  Held(heap, c)'
  <2>1. CASE InMemory(heap, c)
    <3>1. PICK i \in Indices : Holds(i, heap, c)
      BY <1>1, <2>1, MemoryPlace
    <3>2. CASE Holds(i, heap, c)'
      <4>1. /\ heap \in Nat /\ Start(heap) \in Nat
            /\ Start(heap) <= heap /\ heap <= Start(heap) + NumTimes - 1
            /\ heap - Start(heap) = heap % NumTimes
        BY StartCovers, CoveredStart, BuffersAssumption
      <4>2. /\ Covers(i, heap)'
            /\ i \in Indices' /\ buffers'[i].filled
            /\ cells'[i][<<heap - buffers'[i].start, c>>] = heap
        BY <3>2, <4>1 DEF Holds, Covers
      <4> QED
        BY <4>2 DEF Held, InMemory
    <3>3. CASE \E w \in Workers : ClearStored(w) /\ job[w] = i
      BY <1>1, <3>1, <3>3, ClearedIsOnDisk DEF Held
    <3> QED
      BY <1>1, <3>1, <3>2, <3>3, MemoryStays
  <2>2. CASE OnDisk(heap, c)
    <3>1. CASE files[Start(heap)][<<heap % NumTimes, c>>] = heap
      BY <1>1, <3>1, FilesStay DEF Held, OnDisk
    <3>2. CASE \E n \in DOMAIN rows : rows[n][<<heap % NumTimes, c>>] = heap
      BY <1>1, <3>2, RowsStay DEF Held, OnDisk
    <3> QED
      BY <2>2, <3>1, <3>2 DEF OnDisk
  <2> QED
    BY <1>1, <2>1, <2>2 DEF Held
<1> DEFINE Stay == \A heap \in Heaps, c \in Streams :
        Output /\ Held(heap, c) /\ ~Held(heap, c)' =>
            Skipped(c) \/ Start(heap) \in twins
<1>2. IInv /\ RecordingIInv /\ [RecordingNext]_allVars => [Stay]_allVars
  BY <1>1
<1> QED
  BY <1>2, RecordingInvariant, PTL DEF RecordingSpec, HeldStays
=============================================================================
