-------------------------------- MODULE Receiver ------------------------------
(***************************************************************************)
(* The visibility receiver (vis_receive/src): receiver threads that read   *)
(* the streams of visibilities from the network into buffers, thread 0 of  *)
(* them also locking full buffers for writing, the thread of the pool that *)
(* writes them, and the main thread that ends it all.                      *)
(***************************************************************************)
EXTENDS ThreadBarrier, ThreadPool, ReceiverBuffers

CONSTANTS
    NumStreams,  \* num_streams
    MaxPackets   \* bound: packets with visibilities that arrive

ASSUME ReceiverAssumption ==
    /\ NumStreams \in Nat \ {0}
    /\ MaxPackets \in Nat
    /\ Tasks = 1 .. MaxBuffers

Streams == 0 .. NumStreams - 1

VARIABLES
    at,         \* at[t]: where receiver thread t is in its loop
    visiting,   \* visiting[t]: the stream that t visits (the inner loop variable)
    heapOf,     \* heapOf[t]: heap_count of the packet that t decodes
    target,     \* target[t]: the buffer that t was given, or checks
    done,       \* streams that have ended
    completed,  \* completed_streams
    packets,    \* how many packets have arrived
    cleared,    \* workers that have cleared their buffer and not unlocked it yet
    main        \* where the main thread is

threadVars == <<at, visiting, heapOf, target>>
streamVars == <<done, packets>>
receiverVars == <<threadVars, streamVars, completed, cleared, main>>
vars == <<barrierVars, poolVars, bufferVars, receiverVars>>

Places == {"test", "visit", "decode", "assign", "copy", "sync1", "check", "lock",
           "count", "sync2", "end"}

TypeOK ==
    /\ BarrierTypeOK
    /\ PoolTypeOK
    /\ BuffersTypeOK
    /\ at \in [Threads -> Places]
    /\ visiting \in [Threads -> Nat]
    /\ heapOf \in [Threads -> Heaps \union {0}]
    /\ target \in [Threads -> 0 .. MaxBuffers + 1]
    /\ done \subseteq Streams
    /\ completed \in 0 .. NumStreams
    /\ packets \in 0 .. MaxPackets
    /\ cleared \subseteq Workers
    /\ main \in {"join", "abort", "wake", "drop", "freed"}

(* receiver_start                                                           *)
ThreadsStart ==
    /\ at = [t \in Threads |-> "test"]
    /\ visiting = [t \in Threads |-> t]
    /\ heapOf = [t \in Threads |-> 0]
    /\ target = [t \in Threads |-> 0]
    /\ main = "join"

(* receiver_create                                                          *)
Init ==
    /\ BarrierInit
    /\ PoolInit
    /\ BuffersInit
    /\ done = {}
    /\ completed = 0
    /\ packets = 0
    /\ cleared = {}
    /\ ThreadsStart

Goto(t, place) == at' = [at EXCEPT ![t] = place]

-----------------------------------------------------------------------------
(* The loop of thread_receive, first part: visit the streams                *)
Test(t) ==
    /\ at[t] = "test"
    /\ Goto(t, IF completed = NumStreams THEN "end" ELSE "visit")
    /\ visiting' = [visiting EXCEPT ![t] = t]
    /\ UNCHANGED <<heapOf, target, streamVars, completed, cleared, main,
                   barrierVars, poolVars, bufferVars>>

(* stream_receive: recv gives a datagram, which may have several packets.   *)
ReceiveDatagram(t) ==
    /\ at[t] = "visit"
    /\ visiting[t] \in Streams \ done
    /\ Goto(t, "decode")
    /\ UNCHANGED <<visiting, heapOf, target, streamVars, completed, cleared, main,
                   barrierVars, poolVars, bufferVars>>

(* The stream has ended, or recv has nothing, or the datagram is decoded.   *)
NextStream(t) ==
    /\ \/ at[t] = "visit" /\ visiting[t] \in done
       \/ at[t] = "decode"
    /\ visiting' = [visiting EXCEPT ![t] = @ + NumThreads]
    /\ Goto(t, "visit")
    /\ UNCHANGED <<heapOf, target, streamVars, completed, cleared, main,
                   barrierVars, poolVars, bufferVars>>

AllVisited(t) ==
    /\ at[t] = "visit"
    /\ visiting[t] \notin Streams
    /\ Goto(t, "sync1")
    /\ UNCHANGED <<visiting, heapOf, target, streamVars, completed, cleared, main,
                   barrierVars, poolVars, bufferVars>>

(* stream_decode: the stream control message that ends a stream.            *)
DecodeStop(t) ==
    /\ at[t] = "decode"
    /\ done' = done \union {visiting[t]}
    /\ UNCHANGED <<threadVars, packets, completed, cleared, main,
                   barrierVars, poolVars, bufferVars>>

(* A packet with visibilities.  Those that come before the stream has said  *)
(* where in a heap the visibilities are leave no trace and are not steps.   *)
(* Negative heap counters are left out: see BuffersAssumption.              *)
DecodePacket(t, heap) ==
    /\ at[t] = "decode"
    /\ packets < MaxPackets
    /\ packets' = packets + 1
    /\ heapOf' = [heapOf EXCEPT ![t] = heap]
    /\ \A u \in Threads : at[u] # "assign"
    /\ \/ \E i \in Indices :
            /\ IsMatch(i, heap)
            /\ AddTo(i)
            /\ target' = [target EXCEPT ![t] = i]
            /\ Goto(t, "copy")
       \/ /\ NoMatch(heap)
          /\ Goto(t, "assign")
          /\ UNCHANGED <<target, bufferVars>>
    /\ UNCHANGED <<visiting, done, completed, cleared, main, barrierVars, poolVars>>

(* The rest of receiver_buffer, still under the lock of the receiver; but   *)
(* the pool clears and unlocks buffers without it.                          *)
AssignBuffer(t) ==
    /\ at[t] = "assign"
    /\ ~TooOld(heapOf[t])
    /\ \/ \E i \in Indices :
            Repurpose(i, heapOf[t]) /\ target' = [target EXCEPT ![t] = i]
       \/ Allocate(heapOf[t]) /\ target' = [target EXCEPT ![t] = Len(buffers')]
    /\ Goto(t, "copy")
    /\ UNCHANGED <<visiting, heapOf, streamVars, completed, cleared, main,
                   barrierVars, poolVars>>

DumpPacket(t) ==
    /\ at[t] = "assign"
    /\ TooOld(heapOf[t]) \/ NoneFree
    /\ Goto(t, "decode")
    /\ heapOf' = [heapOf EXCEPT ![t] = 0]
    /\ UNCHANGED <<visiting, target, streamVars, completed, cleared, main,
                   barrierVars, poolVars, bufferVars>>

(* memcpy, without the lock.                                                *)
CopyPacket(t) ==
    /\ at[t] = "copy"
    /\ Goto(t, "decode")
    /\ heapOf' = [heapOf EXCEPT ![t] = 0]
    /\ target' = [target EXCEPT ![t] = 0]
    /\ UNCHANGED <<visiting, streamVars, completed, cleared, main,
                   barrierVars, poolVars, bufferVars>>

-----------------------------------------------------------------------------
(* A variant in which only thread 0 comes to the second barrier.            *)
AfterSyncAlone(t) ==
    IF t = 0 /\ at[t] = "sync1" THEN "check" ELSE "test"

(* Both calls of barrier_wait.  With a single thread the code skips them,   *)
(* and the barrier of one thread never blocks.                              *)
AfterSync(t) ==
    IF at[t] = "sync2" THEN "test" ELSE IF t = 0 THEN "check" ELSE "sync2"

Waits(t) == at[t] \in {"sync1", "sync2"}

PassBarrier(t) ==
    /\ ArriveLast(t) \/ Leave(t)
    /\ Goto(t, AfterSync(t))
    /\ target' = [target EXCEPT ![t] = IF at'[t] = "check" THEN 1 ELSE 0]

Synchronise(t) ==
    /\ Waits(t)
    /\ \/ PassBarrier(t)
       \/ (ArriveEarly(t) \/ SleepAgain(t)) /\ UNCHANGED <<at, target>>
    /\ UNCHANGED <<visiting, heapOf, streamVars, completed, cleared, main,
                   poolVars, bufferVars>>

-----------------------------------------------------------------------------
(* Thread 0 between the barriers.  byte_counter and locked_for_write are    *)
(* read one after the other, and the pool may change both in between.       *)
CheckBuffer(t) ==
    /\ at[t] = "check"
    /\ target[t] \in Indices
    /\ IF buffers[target[t]].filled
         THEN Goto(t, "lock") /\ UNCHANGED target
         ELSE target' = [target EXCEPT ![t] = @ + 1] /\ UNCHANGED at
    /\ UNCHANGED <<visiting, heapOf, streamVars, completed, cleared, main,
                   barrierVars, poolVars, bufferVars>>

(* A variant that forgets that the buffer may be locked already.            *)
LockBufferAgain(t) ==
    /\ at[t] = "lock"
    /\ LET i == target[t] IN
         IF IsRecent(i)
           THEN UNCHANGED <<bufferVars, poolVars>>
           ELSE Lock(i) /\ Enqueue(i)
    /\ Goto(t, "check")
    /\ target' = [target EXCEPT ![t] = @ + 1]
    /\ UNCHANGED <<visiting, heapOf, streamVars, completed, cleared, main, barrierVars>>

LockBuffer(t) ==
    /\ at[t] = "lock"
    /\ LET i == target[t] IN
         IF buffers[i].locked \/ IsRecent(i)
           THEN UNCHANGED <<bufferVars, poolVars>>
           ELSE Lock(i) /\ Enqueue(i)
    /\ Goto(t, "check")
    /\ target' = [target EXCEPT ![t] = @ + 1]
    /\ UNCHANGED <<visiting, heapOf, streamVars, completed, cleared, main, barrierVars>>

(* A variant that goes on counting where it stopped the last time.          *)
AllCheckedKeepingCount(t) ==
    /\ at[t] = "check"
    /\ target[t] \notin Indices
    /\ Goto(t, "count")
    /\ target' = [target EXCEPT ![t] = 0]
    /\ UNCHANGED <<visiting, heapOf, streamVars, completed, cleared, main,
                   barrierVars, poolVars, bufferVars>>

(* A variant that leaves out the last buffer.                               *)
AllCheckedButLast(t) ==
    /\ at[t] = "check"
    /\ target[t] \notin 1 .. Len(buffers) - 1
    /\ Goto(t, "count")
    /\ target' = [target EXCEPT ![t] = 0]
    /\ completed' = 0
    /\ UNCHANGED <<visiting, heapOf, streamVars, cleared, main,
                   barrierVars, poolVars, bufferVars>>

AllChecked(t) ==
    /\ at[t] = "check"
    /\ target[t] \notin Indices
    /\ Goto(t, "count")
    /\ target' = [target EXCEPT ![t] = 0]
    /\ completed' = 0
    /\ UNCHANGED <<visiting, heapOf, streamVars, cleared, main,
                   barrierVars, poolVars, bufferVars>>

CountStreams(t) ==
    /\ at[t] = "count"
    /\ completed' = completed + Cardinality(done)
    /\ Goto(t, "sync2")
    /\ UNCHANGED <<visiting, heapOf, target, streamVars, cleared, main,
                   barrierVars, poolVars, bufferVars>>

Decode(t) ==
    \/ DecodeStop(t)
    \/ \E heap \in Heaps : DecodePacket(t, heap)

Proceed(t) ==
    \/ Test(t)
    \/ ReceiveDatagram(t)
    \/ NextStream(t)
    \/ AllVisited(t)
    \/ AssignBuffer(t)
    \/ DumpPacket(t)
    \/ CopyPacket(t)
    \/ Synchronise(t)
    \/ CheckBuffer(t)
    \/ LockBuffer(t)
    \/ AllChecked(t)
    \/ CountStreams(t)

-----------------------------------------------------------------------------
(* thread_write_buffer, the task of the pool: once the data are in the      *)
(* files, it clears the buffer and unlocks it, without the lock.            *)
ClearBuffer(w) ==
    /\ Runs(w)
    /\ w \notin cleared
    /\ Clear(job[w])
    /\ cleared' = cleared \union {w}
    /\ UNCHANGED <<poolVars, barrierVars, threadVars, streamVars, completed, main>>

UnlockBuffer(w) ==
    /\ w \in cleared
    /\ Unlock(job[w])
    /\ cleared' = cleared \ {w}
    /\ Return(w)
    /\ UNCHANGED <<barrierVars, threadVars, streamVars, completed, main>>

WriterThread(w) ==
    \/ ClearBuffer(w)
    \/ UnlockBuffer(w)
    \/ PoolThread(w) /\ UNCHANGED <<barrierVars, bufferVars, receiverVars>>

(* The main thread: the end of receiver_start, then receiver_free.          *)
MainGoes(from, to) ==
    /\ main = from
    /\ main' = to
    /\ UNCHANGED <<barrierVars, bufferVars, threadVars, streamVars, completed, cleared>>

MainThread ==
    \/ /\ MainGoes("join", "abort")
       /\ \A t \in Threads : at[t] = "end"
       /\ UNCHANGED poolVars
    \/ MainGoes("abort", "wake") /\ SetAbort
    \/ MainGoes("wake", "drop") /\ WakeAll
    \/ MainGoes("drop", "freed") /\ JoinAndDrop

Ended ==
    /\ main = "freed"
    /\ UNCHANGED vars

(* Thread 0 reads the time once before it checks the buffers.               *)
TimePasses ==
    /\ at[0] \notin {"check", "lock"}
    /\ SecondPasses
    /\ UNCHANGED <<barrierVars, poolVars, receiverVars>>

SpuriousWakeUp ==
    /\ \E t \in Threads : WakeForNothing(t)
    /\ UNCHANGED <<poolVars, bufferVars, receiverVars>>

Next ==
    \/ \E t \in Threads : Proceed(t) \/ Decode(t)
    \/ \E w \in Workers : WriterThread(w)
    \/ MainThread
    \/ TimePasses
    \/ SpuriousWakeUp
    \/ Ended

Spec == Init /\ [][Next]_vars

(* Threads run and time passes; nothing is assumed of the network.          *)
FairSpec ==
    /\ Spec
    /\ \A t \in Threads : WF_vars(Proceed(t))
    /\ \A w \in Workers : WF_vars(WriterThread(w))
    /\ WF_vars(MainThread)
    /\ SF_vars(TimePasses)

-----------------------------------------------------------------------------
(* The copy of a packet, which no lock protects, goes to a buffer that has  *)
(* the place of its heap, counts as filled, and is not being written.       *)
CopiesAreSafe ==
    \A t \in Threads : at[t] = "copy" =>
        /\ target[t] \in Indices
        /\ Covers(target[t], heapOf[t])
        /\ buffers[target[t]].filled
        /\ ~buffers[target[t]].locked

Queued(i) == \E k \in DOMAIN taskList : taskList[k] = i
Written(i) == \E w \in Workers : Runs(w) /\ job[w] = i

(* A locked buffer is in the hands of exactly one task, queued or running,  *)
(* and an unlocked one of none, until the pool drops its tasks.  (The last  *)
(* conjunct says something only with two workers or more; main starts one.) *)
LockedMeansQueued ==
    /\ main # "freed" =>
         \A i \in Indices : buffers[i].locked <=> Queued(i) \/ Written(i)
    /\ \A k, l \in DOMAIN taskList : taskList[k] = taskList[l] => k = l
    /\ \A w \in Workers : Runs(w) => ~Queued(job[w])
    /\ \A w, v \in Workers : Runs(w) /\ Runs(v) /\ job[w] = job[v] => w = v

(* The memory is freed when no thread can use it any more.                  *)
FreedLast ==
    main = "freed" =>
        /\ \A t \in Threads : at[t] = "end"
        /\ \A w \in Workers : worker[w] = "ended"

(* While thread 0 checks the buffers and counts the streams, without the    *)
(* lock, no other thread receives: they write the counters of the streams   *)
(* that it reads and clears, and may move the array of the buffers.         *)
ThreadZeroAlone ==
    \A t \in Threads : at[t] \in {"check", "lock", "count"} =>
        t = 0 /\ \A u \in Threads \ {0} : Waits(u)

(* Nobody sleeps for good for want of a signal.  Who sleeps at the barrier   *)
(* has not been let go yet, and somebody is still to come who has not ended *)
(* his loop; there are never more tasks in the list than workers on their   *)
(* way to take one while another worker sleeps; and while a worker sleeps   *)
(* although the pool ends, the main thread is about to wake it.             *)
NobodySleepsForGood ==
    /\ \A t \in asleep : seen[t] = iter
    /\ asleep # {} => \E t \in Threads : seen[t] # iter /\ at[t] # "end"
    /\ idle # {} /\ ~doAbort => Len(taskList) <= Cardinality({w \in Workers : CanTake(w)})
    /\ idle # {} /\ doAbort => main = "wake"

HasData(i) == i \in Indices /\ buffers[i].filled

(* "Activates the receiver and blocks until all streams have finished": no  *)
(* thread leaves its loop while a stream goes on.                           *)
BlocksUntilDone ==
    \A t \in Threads : at[t] = "end" => done = Streams

(* A buffer with data is written in the end, if the receiver goes on.       *)
FilledIsWritten ==
    \A i \in 1 .. MaxBuffers : HasData(i) ~> (~HasData(i) \/ done = Streams)

(* When all streams have finished, all threads leave their loops in the     *)
(* same turn, and the receiver ends.                                        *)
EndsWithStreams == (done = Streams) ~> (main = "freed")

(* "Determine if the buffer is ready to be written": only a buffer that has *)
(* data is locked for writing.                                              *)
OnlyFilledIsLocked ==
    [][\A i \in Indices : (buffers'[i].locked /\ ~buffers[i].locked)
            => buffers[i].filled]_vars

(* "Loop over buffer to determine if they can be written": a pass over the  *)
(* buffers leaves none that has data and was not updated in the last        *)
(* second.  So the data that are never written when the streams have ended  *)
(* have come within a second of the last pass.                              *)
LeavesOnlyRecent ==
    [][\A t \in Threads : at[t] = "check" /\ at'[t] = "count" =>
        \A i \in Indices :
            buffers[i].filled /\ ~buffers[i].locked => IsRecent(i)]_vars
=============================================================================
