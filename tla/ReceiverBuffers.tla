---------------------------- MODULE ReceiverBuffers ---------------------------
(***************************************************************************)
(* The buffers of the visibility receiver (vis_receive/src/receiver.c and  *)
(* buffer.c).  A buffer holds the visibilities of a range of heaps, one    *)
(* heap per time.  Of its contents the module keeps whether there are any. *)
(***************************************************************************)
EXTENDS Integers, Sequences

CONSTANTS
    MaxBuffers,  \* max_num_buffers
    NumTimes,    \* num_times_in_buffer
    Heaps        \* heap counters that occur in packets

(* The code computes heap counters as (int) item_addr - 2 (stream.c:119), so *)
(* they are negative for senders that do not start at 2, and for numbers    *)
(* that do not fit.  The division of C rounds towards zero: the first       *)
(* buffer would then not cover the heap, and the packet be copied in front  *)
(* of its data.  Senders that conform number the heaps of visibilities from 2 on *)
(* (tests/Tests.cpp), and Heaps leaves the others out.                      *)
ASSUME BuffersAssumption ==
    /\ MaxBuffers \in Nat \ {0}
    /\ NumTimes \in Nat \ {0}
    /\ Heaps \subseteq Nat

VARIABLES
    buffers,  \* the array, with heap_id_start, byte_counter > 0, locked_for_write
    recent    \* the buffers that updates of the last second went to (last_updated)

bufferVars == <<buffers, recent>>

Indices == DOMAIN buffers

Buffer == [start : Nat, filled : BOOLEAN, locked : BOOLEAN]

BuffersTypeOK ==
    /\ buffers \in Seq(Buffer)
    /\ Len(buffers) <= MaxBuffers
    /\ recent \in Seq(Indices)

BuffersInit ==
    /\ buffers = <<>>
    /\ recent = <<>>

-----------------------------------------------------------------------------
(* receiver_buffer, which runs under the lock of the receiver               *)
Start(heap) == NumTimes * (heap \div NumTimes)

Covers(i, heap) ==
    heap >= buffers[i].start /\ heap <= buffers[i].start + NumTimes - 1

Takes(i, heap) == Covers(i, heap) /\ ~buffers[i].locked

IsMatch(i, heap) ==
    Takes(i, heap) /\ \A j \in Indices : Takes(j, heap) => i <= j

NoMatch(heap) == \A i \in Indices : ~Takes(i, heap)

(* The first of the buffers with the smallest heap_id_start.                *)
IsOldest(i) ==
    \A j \in Indices :
        \/ buffers[i].start < buffers[j].start
        \/ buffers[i].start = buffers[j].start /\ i <= j

AddTo(i) ==
    /\ buffers' = [buffers EXCEPT ![i].filled = TRUE]
    /\ recent' = Append(recent, i)

(* A variant that lets the heaps just before the oldest buffer pass.        *)
LongPast(heap) ==
    \E i \in Indices : IsOldest(i) /\ heap < buffers[i].start - NumTimes

TooOld(heap) == \E i \in Indices : IsOldest(i) /\ heap < buffers[i].start

Idle(i) == ~buffers[i].filled /\ ~buffers[i].locked

(* A variant that takes the oldest buffer whatever is in it.                *)
RepurposableIfUnlocked(i) == IsOldest(i) /\ ~buffers[i].locked

Repurposable(i) == IsOldest(i) /\ Idle(i)

Repurpose(i, heap) ==
    /\ Repurposable(i)
    /\ buffers' = [buffers EXCEPT ![i].start = Start(heap), ![i].filled = TRUE]
    /\ recent' = Append(recent, i)

(* buffer_create                                                            *)
NewBuffer == [start |-> 0, filled |-> FALSE, locked |-> FALSE]

(* A variant without a limit.                                               *)
AllocateMore(heap) ==
    /\ \A i \in Indices : ~Repurposable(i)
    /\ buffers' = Append(buffers,
                         [NewBuffer EXCEPT !.start = Start(heap), !.filled = TRUE])
    /\ recent' = Append(recent, Len(buffers) + 1)

Allocate(heap) ==
    /\ \A i \in Indices : ~Repurposable(i)
    /\ Len(buffers) < MaxBuffers
    /\ buffers' = Append(buffers,
                         [NewBuffer EXCEPT !.start = Start(heap), !.filled = TRUE])
    /\ recent' = Append(recent, Len(buffers) + 1)

(* There is neither a buffer to re-purpose nor room for a new one.          *)
NoneFree ==
    /\ \A i \in Indices : ~Repurposable(i)
    /\ Len(buffers) = MaxBuffers

-----------------------------------------------------------------------------
(* The clock: the oldest of these updates becomes a second old.             *)
SecondPasses ==
    /\ recent # <<>>
    /\ recent' = Tail(recent)
    /\ UNCHANGED buffers

IsRecent(i) == \E k \in DOMAIN recent : recent[k] = i

Lock(i) ==
    /\ buffers' = [buffers EXCEPT ![i].locked = TRUE]
    /\ UNCHANGED recent

(* buffer_clear                                                             *)
Clear(i) ==
    /\ buffers' = [buffers EXCEPT ![i].filled = FALSE]
    /\ UNCHANGED recent

Unlock(i) ==
    /\ buffers' = [buffers EXCEPT ![i].locked = FALSE]
    /\ UNCHANGED recent
=============================================================================
