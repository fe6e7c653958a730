------------------------------ MODULE ThreadPool ------------------------------
(***************************************************************************)
(* vis_receive/src/thread_pool.c: workers that take tasks from a list in   *)
(* the order they were put there.  The list and the condition variable are *)
(* guarded by the mutex of the pool; do_abort is not.                      *)
(***************************************************************************)
EXTENDS Naturals, Sequences, FiniteSets

CONSTANTS Workers, Tasks

VARIABLES
    taskList,  \* task_list, up to last_task
    doAbort,   \* do_abort
    worker,    \* worker[w]: "take" (in the outer loop), "run", "signal" or "ended"
    job,       \* job[w]: the task that w took last
    idle       \* workers in pthread_cond_wait

poolVars == <<taskList, doAbort, worker, job, idle>>

NoTask == 0

ASSUME PoolAssumption ==
    /\ NoTask \notin Tasks
    /\ IsFiniteSet(Workers)

PoolTypeOK ==
    /\ taskList \in Seq(Tasks)
    /\ doAbort \in BOOLEAN
    /\ worker \in [Workers -> {"take", "run", "signal", "ended"}]
    /\ job \in [Workers -> Tasks \union {NoTask}]
    /\ idle \subseteq Workers

(* threadpool_create                                                        *)
PoolInit ==
    /\ taskList = <<>>
    /\ doAbort = FALSE
    /\ worker = [w \in Workers |-> "take"]
    /\ job = [w \in Workers |-> NoTask]
    /\ idle = {}

Runs(w) == worker[w] = "run"

(* pthread_cond_signal wakes one of the threads that wait, if any.          *)
Signal ==
    \/ idle = {} /\ UNCHANGED idle
    \/ \E w \in idle : idle' = idle \ {w}

(* A variant that wakes nobody.                                             *)
EnqueueSilently(task) ==
    /\ taskList' = Append(taskList, task)
    /\ UNCHANGED <<doAbort, worker, job, idle>>

Enqueue(task) ==
    /\ taskList' = Append(taskList, task)
    /\ Signal
    /\ UNCHANGED <<doAbort, worker, job>>

-----------------------------------------------------------------------------
(* threadpool_thread                                                        *)
CanTake(w) == worker[w] = "take" /\ w \notin idle

TakeTask(w) ==
    /\ CanTake(w)
    /\ ~doAbort
    /\ taskList # <<>>
    /\ taskList' = Tail(taskList)
    /\ job' = [job EXCEPT ![w] = Head(taskList)]
    /\ worker' = [worker EXCEPT ![w] = "run"]
    /\ UNCHANGED <<doAbort, idle>>

WaitForTask(w) ==
    /\ CanTake(w)
    /\ ~doAbort
    /\ taskList = <<>>
    /\ idle' = idle \union {w}
    /\ UNCHANGED <<taskList, doAbort, worker, job>>

GiveUp(w) ==
    /\ CanTake(w)
    /\ doAbort
    /\ worker' = [worker EXCEPT ![w] = "ended"]
    /\ UNCHANGED <<taskList, doAbort, job, idle>>

(* The return of thread_func; what it did before is up to the task.         *)
Return(w) ==
    /\ Runs(w)
    /\ worker' = [worker EXCEPT ![w] = "signal"]
    /\ job' = [job EXCEPT ![w] = NoTask]
    /\ UNCHANGED <<taskList, doAbort, idle>>

SignalIdle(w) ==
    /\ worker[w] = "signal"
    /\ worker' = [worker EXCEPT ![w] = "take"]
    /\ idle' = {}
    /\ UNCHANGED <<taskList, doAbort, job>>

PoolThread(w) == TakeTask(w) \/ WaitForTask(w) \/ GiveUp(w) \/ SignalIdle(w)

-----------------------------------------------------------------------------
(* threadpool_free: the flag first, without the mutex, then the broadcast,  *)
(* then it joins the workers and drops the tasks that nobody took.          *)
SetAbort ==
    /\ doAbort' = TRUE
    /\ UNCHANGED <<taskList, worker, job, idle>>

(* A variant without the broadcast.                                         *)
WakeNobody == UNCHANGED poolVars

WakeAll ==
    /\ idle' = {}
    /\ UNCHANGED <<taskList, doAbort, worker, job>>

(* A variant that does not join the workers.                                *)
DropWithoutJoin ==
    /\ taskList' = <<>>
    /\ UNCHANGED <<doAbort, worker, job, idle>>

JoinAndDrop ==
    /\ \A w \in Workers : worker[w] = "ended"
    /\ taskList' = <<>>
    /\ UNCHANGED <<doAbort, worker, job, idle>>
=============================================================================
