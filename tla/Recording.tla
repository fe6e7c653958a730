------------------------------- MODULE Recording ------------------------------
(***************************************************************************)
(* What the visibility receiver does with the data: Receiver, with the     *)
(* contents of the buffers, the threads that write a buffer to files, and  *)
(* the files, or the measurement set.  A packet holds the visibilities of  *)
(* a heap for the channel of its stream; they are known by the number of   *)
(* the heap.  All steps are steps of Receiver, which does not depend on    *)
(* the variables of this module, or leave its variables alone.             *)
(***************************************************************************)
EXTENDS Receiver, CommandLine

CONSTANTS
    NumWriters,       \* num_threads_write
    ChannelsPerFile,  \* num_channels_per_file
    Nothing,          \* what nobody has written: new memory, a missing file
    Builds,           \* built with ("ms") or without ("files") measurement sets
    MaxFailures       \* bound: files that cannot be opened

ASSUME RecordingAssumption ==
    /\ NumWriters \in Nat \ {0}
    /\ ChannelsPerFile \in Nat \ {0}
    /\ Nothing \notin Nat
    /\ Builds \subseteq {"files", "ms"}
    /\ MaxFailures \in Nat
    /\ \A w, v \in Workers : w = v    \* threadpool_create(1)

(* The sizes of the program are those its command line asks for.            *)
ASSUME SettingsAssumption ==
    Settings = [num_streams           |-> NumStreams,
                num_threads_recv      |-> NumThreads,
                num_threads_write     |-> NumWriters,
                num_times_in_buffer   |-> NumTimes,
                max_num_buffers       |-> MaxBuffers,
                num_channels_per_file |-> ChannelsPerFile]

Writers == 0 .. NumWriters - 1
Positions == (0 .. NumTimes - 1) \X Streams
Contents == [Positions -> Heaps \union {Nothing}]
Starts == {Start(heap) : heap \in Heaps}

VARIABLES
    build,     \* how the program was built
    cells,     \* vis_data: the heap whose visibilities are at each position
    nextFile,  \* c: the first channel of the next file of each writer thread
    broken,    \* writer threads that could not open a file and have ended
    stored,    \* the writer threads have been joined, or the rows are written
    files,     \* what the files for a range of heaps hold, by heap_id_start
    rows,      \* the measurement set: what each write of a buffer has added
    failures,  \* how many files could not be opened
    twins      \* history: heap_id_start that two buffers had at once

taskVars == <<nextFile, broken, stored, failures>>
diskVars == <<files, rows>>
dataVars == <<build, cells, taskVars, diskVars, twins>>
allVars == <<vars, dataVars>>

RecordingTypeOK ==
    /\ build \in Builds
    /\ cells \in [1 .. MaxBuffers -> Contents]
    /\ nextFile \in [Writers -> Nat]
    /\ broken \subseteq Writers
    /\ stored \in BOOLEAN
    /\ files \in [Starts -> Contents]
    /\ rows \in Seq(Contents)
    /\ failures \in 0 .. MaxFailures
    /\ twins \subseteq Starts

Empty == [p \in Positions |-> Nothing]

(* A variant that counts the channels from one.                             *)
FirstFilesFromOne == [u \in Writers |-> u * ChannelsPerFile - 1]

FirstFiles == [u \in Writers |-> u * ChannelsPerFile]

RecordingInit ==
    /\ Init
    /\ build \in Builds
    /\ cells = [i \in 1 .. MaxBuffers |-> Empty]
    /\ nextFile = FirstFiles
    /\ broken = {}
    /\ stored = FALSE
    /\ files = [s \in Starts |-> Empty]
    /\ rows = <<>>
    /\ failures = 0
    /\ twins = {}

-----------------------------------------------------------------------------
(* The end of stream_decode: memcpy to the place of the time and channel.   *)
Position(t) == <<heapOf[t] - buffers[target[t]].start, visiting[t]>>

Copy(t) ==
    cells' = IF at[t] = "copy"
               THEN [cells EXCEPT ![target[t]][Position(t)] = heapOf[t]]
               ELSE cells

(* A second buffer for the heaps of one that is being written.              *)
NoteTwins(t) ==
    twins' = IF /\ at[t] = "assign"
                /\ at'[t] = "copy"
                /\ \E i \in Indices \ {target'[t]} : buffers[i].start = Start(heapOf[t])
               THEN twins \union {Start(heapOf[t])}
               ELSE twins

ReceiverThread(t) ==
    /\ Proceed(t) \/ Decode(t)
    /\ Copy(t)
    /\ NoteTwins(t)
    /\ UNCHANGED <<build, taskVars, diskVars>>

-----------------------------------------------------------------------------
(* thread_write_buffer forks the writer threads, each with every NumWriters-th *)
(* file, and joins them.  Only the pool's worker has a task, so there is    *)
(* one set of writer threads at a time.                                     *)
LastChannel(c) ==
    IF c + ChannelsPerFile - 1 >= NumStreams THEN NumStreams - 1
    ELSE c + ChannelsPerFile - 1

Storing(w) == Runs(w) /\ ~stored /\ Output

HasFile(u) == u \notin broken /\ nextFile[u] < NumStreams

(* creat truncates a file that is there; all times are written, and nobody  *)
(* else uses the file or changes the buffer meanwhile.                      *)
WriteFile(w, u) ==
    /\ Storing(w)
    /\ build = "files"
    /\ HasFile(u)
    /\ files' = [files EXCEPT ![buffers[job[w]].start] =
                   [p \in Positions |->
                      IF p[2] \in nextFile[u] .. LastChannel(nextFile[u])
                        THEN cells[job[w]][p] ELSE @[p]]]
    /\ nextFile' = [nextFile EXCEPT ![u] = @ + NumWriters * ChannelsPerFile]
    /\ UNCHANGED <<vars, build, cells, broken, stored, rows, failures, twins>>

(* The thread ends, without the files it has not come to.                   *)
OpenFails(w, u) ==
    /\ Storing(w)
    /\ build = "files"
    /\ HasFile(u)
    /\ failures < MaxFailures
    /\ failures' = failures + 1
    /\ broken' = broken \union {u}
    /\ UNCHANGED <<vars, build, cells, nextFile, stored, diskVars, twins>>

(* A variant that joins one thread only.                                    *)
JoinFirstWriter(w) ==
    /\ Storing(w)
    /\ build = "files"
    /\ ~HasFile(0)
    /\ stored' = TRUE
    /\ UNCHANGED <<vars, build, cells, nextFile, broken, diskVars, failures, twins>>

JoinWriters(w) ==
    /\ Storing(w)
    /\ build = "files"
    /\ \A u \in Writers : ~HasFile(u)
    /\ stored' = TRUE
    /\ UNCHANGED <<vars, build, cells, nextFile, broken, diskVars, failures, twins>>

(* thread_write_buffer_ms: write_counter is the length of rows.             *)
WriteRows(w) ==
    /\ Storing(w)
    /\ build = "ms"
    /\ rows' = Append(rows, cells[job[w]])
    /\ stored' = TRUE
    /\ UNCHANGED <<vars, build, cells, nextFile, broken, files, failures, twins>>

(* A variant of buffer_clear that clears the data too.                      *)
ClearWithData(w) ==
    /\ ClearBuffer(w)
    /\ Output => stored
    /\ cells' = [cells EXCEPT ![job[w]] = Empty]
    /\ UNCHANGED <<build, taskVars, diskVars, twins>>

ClearStored(w) ==
    /\ ClearBuffer(w)
    /\ Output => stored
    /\ UNCHANGED dataVars

(* The task returns; the next one has writer threads of its own.            *)
UnlockStored(w) ==
    /\ UnlockBuffer(w)
    /\ nextFile' = FirstFiles
    /\ broken' = {}
    /\ stored' = FALSE
    /\ UNCHANGED <<build, cells, diskVars, failures, twins>>

PoolWorker(w) ==
    \/ \E u \in Writers : WriteFile(w, u) \/ OpenFails(w, u)
    \/ JoinWriters(w)
    \/ WriteRows(w)
    \/ ClearStored(w)
    \/ UnlockStored(w)
    \/ /\ PoolThread(w)
       /\ UNCHANGED <<barrierVars, bufferVars, receiverVars, dataVars>>

Others ==
    /\ MainThread \/ TimePasses \/ SpuriousWakeUp \/ Ended
    /\ UNCHANGED dataVars

RecordingNext ==
    \/ \E t \in Threads : ReceiverThread(t)
    \/ \E w \in Workers : PoolWorker(w)
    \/ Others

RecordingSpec == RecordingInit /\ [][RecordingNext]_allVars

-----------------------------------------------------------------------------
InMemory(heap, c) ==
    \E i \in Indices :
        /\ buffers[i].filled
        /\ Covers(i, heap)
        /\ cells[i][<<heap - buffers[i].start, c>>] = heap

OnDisk(heap, c) ==
    \/ files[Start(heap)][<<heap % NumTimes, c>>] = heap
    \/ \E n \in DOMAIN rows : rows[n][<<heap % NumTimes, c>>] = heap

Held(heap, c) == InMemory(heap, c) \/ OnDisk(heap, c)

(* The channels that are missing in the files because a writer thread ended *)
(* early: those of its files from the one on that it could not open.        *)
WriterOf(c) == (c \div ChannelsPerFile) % NumWriters
Skipped(c) == WriterOf(c) \in broken /\ c >= nextFile[WriterOf(c)]

(* When the writer threads have been joined, the files hold the whole       *)
(* buffer, each channel where it belongs, but for the channels skipped.     *)
StoredIsWhole ==
    \A w \in Workers : Runs(w) /\ stored /\ build = "files" =>
        \A p \in Positions :
            \/ files[buffers[job[w]].start][p] = cells[job[w]][p]
            \/ Skipped(p[2])

(* Visibilities that the receiver has taken are kept: in a buffer with data, *)
(* then on disk, whatever packets come late, twice or not at all, and however *)
(* often the buffer is written again or used for other heaps.  They are lost *)
(* if a writer thread cannot open their file, or when another buffer of the  *)
(* same heaps is written over them.                                          *)
HeldStays ==
    [][\A heap \in Heaps, c \in Streams :
        Output /\ Held(heap, c) /\ ~Held(heap, c)' =>
            Skipped(c) \/ Start(heap) \in twins]_allVars

(* buffer_clear clears no data, so the files of an incomplete buffer show   *)
(* old ones.  They are visibilities of the same time in an earlier buffer,  *)
(* never those of a later heap or of another time of the buffer.            *)
OnlyOlderIsLeft ==
    \A s \in Starts, p \in Positions :
        files[s][p] # Nothing =>
            files[s][p] <= s + p[1] /\ files[s][p] % NumTimes = p[1]
=============================================================================
