# A verification development for the SDP prototype

TLA+ modules, TLC configurations and TLAPS proofs for the control system of the
SKA Science Data Processor prototype (the repository this directory belongs
to). Paths such as `backend.py:599` abbreviate files under `src/`; the full
names are in `PROJECT.json`, whose `map` ties every definition that models code
to its lines.

Contents: [the system](#1-the-system), [the plan](#2-plan),
[the modules](#3-what-is-modelled), [the runs](#4-what-tlc-checks),
[the proofs](#5-what-is-proved),
[divergences found](#6-where-code-and-documentation-disagree),
[limits](#7-what-is-not-modelled).

## 1. The system

The SDP prototype is a set of processes that never talk to each other
directly: they share one etcd database, which they read, write and watch
through one library. A Tango device (or the `sdpcfg` command) creates
*processing blocks*; the *processing controller* sees them and creates a
*deployment* for the workflow each one names; the *Helm deployer* turns
deployments into Helm releases; the release runs a *workflow*, which claims its
processing block and creates deployments of its own, e.g. the *visibility
receiver*. Everything is undone by deleting entries of the database.

```
 Tango subarray, CLI            processing controller        Helm deployer      workflow pods
        |                              |                          |                  |
        |   create / delete PBs        |  PBs -> deployments      | deployments ->   | claim PB,
        v                              v                          v helm releases    v create deployments
 +------------------------------------------------------------------------------------------+
 |  Config / Transaction  (config.py)      paths, JSON, lease of the client, ownership        |
 |  Etcd3Transaction      (backend.py)     snapshot reads, optimistic commit, retry, watch    |
 |  Etcd3                 (backend.py)     one request per call                               |
 +------------------------------------------ etcd -------------------------------------------+
```

### Components

| component | state it keeps | operations | hard behaviour | what makes it correct |
|---|---|---|---|---|
| etcd (external) | key-value history, leases | get at a revision, transaction, lease, watch | – | (assumed) |
| `Etcd3` (`backend.py:17-340`) | connection | `lease`, `get`, `list_keys`, `create`, `update`, `delete`, `watch` | conditions must be part of the request | a conditional write applies only if its condition holds |
| `Etcd3Transaction` (`backend.py:342-820`) | `_revision`, query logs, `_updates`, callbacks, retries, watchers and their queue | `get`, `list_keys`, `create`, `update`, `delete`, `on_commit`, `loop`, `commit`, `watch`, the `for` loop | concurrent writers, phantoms, retries, stale watchers, events out of order, lost answers, lease expiry | snapshot reads, serializable commits, no false conflict, no missed or spurious wake-up, callbacks run once |
| `Config`, `Transaction` (`config.py`) | client lease | processing blocks: create, take, owner, state; deployments: create, delete; new ids | ownership is a leased key: it disappears with its owner | at most one owner; ids are unique; deletion hits only its own data |
| `deploy.py` | – | starts processes from `on_commit` callbacks | runs only after a commit | (declared temporary by the source) |
| CLI (`cli.py`) | – | one transaction per command | partial deletes | – |
| processing controller | workflow definitions and the time of their refresh | one loop: delete orphaned deployments, create workflow deployments, wait | block deleted while its workflow works; refresh fails | deployments of deleted blocks go; supported blocks get their workflow |
| Helm deployer | its own list of releases, the time of the chart refresh | one loop: uninstall, install, wait | helm fails or hangs; restart; re-created deployment | releases eventually match deployments |
| workflows | whether they own their block | claim, deploy, idle, clean up | killed between any two steps and restarted | at most one active workflow per block; its deployments are cleaned up |
| SDP subarray device | `obsState`, configured blocks, receive addresses | Tango commands | partial failure inside a command; waiting for an answer through the database | `obsState` follows the commands; addresses belong to the current scan |
| SDP master device | operating state | four commands, each one assignment | – | nothing beyond a unit test |
| receiver: thread barrier (C) | counter and generation | `wait` | a thread laps another | nobody leaves before everybody came; no deadlock |
| receiver: thread pool (C) | task list, abort flag | create, enqueue, free | shutdown with work queued | every task runs once, or is freed |
| receiver: streams and buffers (C) | buffers with heap range, locks, counters, data; files | receive packets, lock, write, clear | writer and receivers share a buffer; late and repeated packets; files that cannot be opened | no packet lands in a buffer that is written or re-assigned; what was taken is written, each channel where it belongs |
| receiver: command line (C) | sizes and output location | options of `main` | limits of the values | the sizes the receiver runs with |
| timers, logging, measurement sets, pulsar search receive/send, charts | – | I/O and formatting | – | not modelled |

### Interactions

* Every exchange between processes is an entry written by one transaction and
  seen by another, either because it polls or because `watch()` wakes it. So
  the guarantees of `Etcd3Transaction` are what all other reasoning rests on,
  and that class is the first thing verified.
* A client that creates an entry under its *lease* has it removed by etcd when
  the client dies: ownership of a processing block, and the notion that a
  workflow is alive, are built on this.
* The C receiver shares nothing with the rest but its command line; inside it,
  threads share buffers under a lock and meet in a barrier.

The hazards met while reading are in `PROJECT.json` under `hazards`, each at
its line, with the properties that cover it or, where the code does break or a
run leaves the case out, a note that says so instead.

## 2. Plan

Modules in the order of their importance; 1 to 6 are done.

1. **Transactions** (done): `EtcdStore`, `Etcd3Backend`, `Etcd3Transaction`,
   `MCTransaction`, with the proofs `EtcdStoreProofs`,
   `Etcd3TransactionProofs` and `Etcd3WatchProofs`.
2. **Control plane** (done): `Configuration` (the library), `Cluster` (helm and
   Kubernetes), `ProcessingController`, `HelmDeployer` and `VisReceiveWorkflow`,
   composed in `ControlPlane`, which implements the abstract `Leases`, checked by
   `MCControlPlane`, with the proofs `ControlPlaneProofs`.
3. **Visibility receiver** (done): `ThreadBarrier`, which implements the abstract
   `Barrier`, `ThreadPool` and `ReceiverBuffers`, composed in `Receiver`, checked by
   `MCReceiver`, with the proofs `ThreadBarrierProofs` and `ReceiverProofs`.
4. **Subarray** (done): the commands of `SDPSubarray` and the exchange of channel link
   map and receive addresses with a workflow, checked by `MCSubarray`, with the proofs
   `SubarrayProofs`.
5. **AtomicStore** (done): a store of values whose transactions take place at once, as the
   abstract specification that `Etcd3Transaction` implements; checked in `txn_commit` and
   proved in `Etcd3TransactionProofs`. The atomic transactions of `Configuration` and
   `Subarray` rest on it.
6. **Recording** (done): the data of the receiver and its output, with `CommandLine`, as a
   superposition on `Receiver`, checked by `MCRecording`, with the proofs
   `RecordingProofs`.
7. **ProcessingBlockIds** (`new_processing_block_id`, `config.py:236-255`, whose
   check for exhaustion cannot fire) and the parsing of workflow definitions
   (`processing_controller.py:39-110`), as operators checked against reference
   definitions.
8. In the control plane: the other workflows, among them the ones that claim a
   block by its workflow, and the state entry of blocks, which would join `Subarray`
   to it.

## 3. What is modelled

### EtcdStore (external)

etcd is not part of the repository; the module states what `backend.py` relies
on. The database is the sequence of its snapshots, one per revision, so a read
at revision `r` is `db[r]`, "the current state" is `db[Len(db)]`, and a watch
event is a difference of two neighbours. A missing key has `create = mod = 0`,
which is what etcd compares it with. A put keeps the create revision of an
existing key, and a put without a lease detaches the key from the lease it had.
Versions are only ever compared with 0 and are therefore abstracted to the
existence of the key. A transaction that changes nothing creates no revision.

### Etcd3Backend

The class `Etcd3`. Each method is one request to etcd, hence one atomic action:
`Grant` (`lease`), `DirectCreate`, `DirectUpdate`, `DirectUpdateAt` (`update`
with `must_be_rev`), `DirectDelete` (with its options), and the expiry of a
lease, which deletes its keys. A call that raises `Collision` or `Vanished`
changes nothing: it is the absence of the step. `KVAt` and `KeysAt` are `get`
and one recursion level of `list_keys` at a revision; the tagging of keys with
their depth is represented by `Covers` (the keys a tagged prefix matches) and
`Reach` (the sets of keys that a delete removes: with `prefix`, `recursive` and
`max_depth` it takes other keys along, in one revision).

### Etcd3Transaction

One process per client, running `for txn in etcd3.txn(max_retries): body`. The
body is *arbitrary*: any sequence of calls with any arguments.

| variable | code |
|---|---|
| `revision`, `getQ`, `listQ`, `updates` | `_revision`, `_get_queries`, `_list_queries`, `_updates` |
| `looping`, `timed` | `_loop` and `_watch`, whether `_watch_timeout` is set |
| `retries`, `callbacks` | `_retries`, `_commit_callbacks` (by the attempt each comes from) |
| `watchers`, `queue` | `_watchers` (the revision each is at), `_watch_queue` |
| `woken`, `block` | the local variables `revision` and `block` of `watch()` |
| `pc` | where the `for` loop is: in the body, waiting in `watch()`, ended |
| `startRev` | history variable: the revision at which this round of attempts started |

One step is one call of the body (`Get`, `ListKeys`, `Create`, `UpdateKey`,
`DeleteKey`, `DeleteAny`, `OnCommit`, `Loop`, or an exception, `Raise`), or
`commit()` together with the turn of `__iter__` that follows (`CommitEmpty`,
`CommitSucceeds`, `CommitFails`, and the commits that end in an exception:
`CommitLeaseGone`, and `CommitUnanswered`, where etcd did apply the updates),
or one event taken by `watch()` (`TakeEvent`), its return (`WakeUp`, `TimeOut`),
or the delivery of one revision's events by a watcher thread (`Deliver`).
`NewTxn` is a new transaction object.

What is abstracted, and why nothing is lost:

* *Calls that raise.* `Collision` from `create` and `Vanished` from `update` and
  `delete` are the guards of those actions. The exception then leaves the `for`
  loop, which is `Raise`; it is enabled at any point of a body, so it also
  stands for exceptions of the body itself and for a process that dies.
* *`list_keys` over several levels* is one step: the first query fixes the
  revision and a read at a fixed revision does not depend on when it happens.
* *Callbacks* are told apart only by the turn that registered them: "this" one, or
  an "earlier" one, which looped without updates. What a successful commit has run
  and a failed one has dropped is gone.
* *What `list_keys` returns* goes to the arbitrary body, so that only its entry in the
  query log is modelled, which `commit()` verifies.
* *The events of one revision* reach the queue in any order, and the watchers
  of one transaction are independent threads: the queue need not be ordered by
  revision.
* A watcher that is stopped delivers nothing more; `_update_watchers` keeps
  the ones that are still wanted and starts new ones at `_revision`.
* Reads come from the snapshot at any time; reconnections of a watcher and
  compaction of the history are left out.

Operators that precede a definition and are named for a mistake
(`LogGetValueOnly`, `ListVerifiedWithoutPhantoms`, ...) are variants that a
plausible slip in the code would produce. Nothing uses them; replacing the
definition by its variant must violate a property, which shows that the
property depends on the code being right at this point (`mutants` in
`PROJECT.json`).

### AtomicStore

What `Etcd3.txn` promises, without revisions, query logs or conditions: a store of values,
and clients that read, stage updates, and commit. `Commit` is one step: all the client has
read and listed is what the store holds at that moment, and all of its updates are made.
Every other step of a client (`Work`) leaves the store alone, and does not count as done
if there are updates that were not made; writers without transactions and expiring leases
(`Outside`) leave the clients alone. The mapping at the end of `Etcd3Transaction` forgets all
revisions: `store` is the value of each key in the newest snapshot, `read` and `staged`
are the values in `getQ` and `updates`, `status` summarises `pc`. Transactions without
updates are not verified by the code, so their reads need not be current in the end;
that they are a snapshot is `SnapshotReads`.

### Configuration

The database as the services see it through `config.py`: `pb` (the entries
`/pb/<id>`, reduced to the workflow they name), `owner` (`/pb/<id>/owner`), `dep`
(`/deploy/<id>`, reduced to the arguments of the deployment) and `live`, the
processes whose client lease is alive. A transaction is one atomic step: that is
what `TransactionsAreAtomic` and `SnapshotIsolation` say of the class above. A
transaction that raises `Collision` changes nothing; what its caller does then is
an action of the caller.

The id of a deployment is the pair of a block id and a name. Block ids have the
form `type-date-number` with a number of fixed width, so none is a prefix of
another; names may be prefixes of names, which is the constant `Extensions`, and
`DataOf(d)` is what `delete_deployment` deletes: every entry whose id begins with
the id of `d`. `EndLease(p)` deletes what `p` owns, whether the lease is revoked by
`close()` or expires.

### Cluster (external)

Helm and Kubernetes as far as the services depend on them. `release` says with
which arguments a release was installed; `pod` says of each process slot where its
workflow is: `"free"`, a stage of the workflow, or `"dead"`: ended, with a lease
that has not expired. A slot is used again once its lease is gone. A pod is started
while the release of its workflow is installed and all other pods of the release
are being stopped; a pod whose release is uninstalled goes on until it is killed
(`StopPod`), so that two pods may run for one block.

What goes wrong is chosen by `FaultKinds`: pods are killed, leases of running
processes expire, controller and deployer end, calls of helm fail without or after
having taken effect (`"install"` and `"leftover"`, `"uninstall"`), the definition
file cannot be fetched, somebody removes a release by hand. `MaxFaults` bounds their
number, which for liveness is an assumption on the world: faults stop at last.

### ProcessingController, HelmDeployer, VisReceiveWorkflow

| variable | code |
|---|---|
| `controller`, `defs` | whether the process runs; `workflows_realtime` |
| `deployer` | whether the process runs, and whether it is in a turn of its loop or waiting |
| `known` | `deploys`, the releases the deployer believes in |
| `target`, `toDelete`, `toAdd` | the snapshot of its transaction and what is left of its two loops over it |
| `pod[p].at` | where a workflow is: `"start"` before its claim, `"took"` after it, `"idle"` in its waiting loop, `"cleanup"` and `"close"` in its `finally` block |

* *The controller* has no side effects besides its transaction, so a turn of its
  loop is one step, `ControllerTurn`: refresh of the definitions if due, deletion of
  orphans, creation of workflow deployments for blocks without any deployment (in
  the snapshot *before* the deletions, as in the code). A turn in which
  `get_deployment` meets an entry that the turn itself has deleted ends the process:
  `ControllerTurnFails`.
* *The deployer* reads its deployments at one revision and then calls helm, which may
  take minutes. So a turn is many steps: `BeginTurn` (the snapshot), one step per
  call of helm (`Uninstall`, `UninstallFails`, `Install`, `InstallFails`, `Purge`),
  `EndTurn`. Everything else may happen in between.
* *A workflow* is a sequence of transactions, each a step: `Claim`, `Deploy`,
  `LeaveIdle`, `CleanUp`, `Close`, with the two that end in `Collision`. It may be
  killed between any two.

Abstractions, and why they are harmless. *Time*: a loop waits for a change, at most
until its refresh; the model lets it turn at any time, and fairness makes it turn
again. A turn that finds nothing to do changes nothing. *Definitions*: the file is
the constant `Supported`; what varies is whether it could be fetched. *Deployments*
are of type helm and pass validation; the others are ignored by the deployer.
*Block state*, parameters, logs and environment are not looked at by these loops.
*Batch* workflows and unknown versions are workflows that are not `Supported`.

### ControlPlane

The composition: the variables and actions of all of the above, and users (the
subarray device and `sdpcfg`), who create blocks, delete them with or without `-R`
(without it, the owner entry stays), and make deployments of their own. `MaxUses`
bounds how often users create an entry under the same id.

### Leases

What the ownership of blocks promises, without workflows, pods and transactions: a
holder takes a block that nobody holds (`Take`), once in the life of its lease; it
works on the block it has taken until it stops; the block is free again when the
lease ends (`LeaseEnds`), which the holder may notice later, or when somebody takes
it away (`Revoke`, which is possible only if users delete with `-R`). In the mapping
of `ControlPlane`, a holder is a process slot with a live lease, and it works while
its pod is at `"took"` or `"idle"`.

### Barrier, ThreadBarrier, ThreadPool

`Barrier` is what a barrier promises: threads come one by one, and the last one lets all
go at once. `ThreadBarrier` is `thread_barrier.c`; the threads that have come and not been
let go are those with `seen[t] = iter`, so one that is let go but has not woken up yet is
outside already, and a fast one may come again before it. `ThreadPool` is
`thread_pool.c`.

| variable | code |
|---|---|
| `count`, `iter` | the fields of `struct ThreadBarrier`; `iter` counts modulo `IterMod`, in the code 2^32 |
| `seen[t]`, `asleep` | the local `iter` of `barrier_wait`; the threads in `pthread_cond_wait` |
| `taskList`, `doAbort` | the list of tasks (by the buffer that is their argument), `do_abort` |
| `worker[w]`, `job[w]`, `idle` | where a pool thread is, the task it runs, the threads waiting for one |

Everything under a mutex is one step. Spurious wake-ups of the barrier are steps of their
own (`WakeForNothing`); those of the pool would only repeat the test of its loop. The test
of `do_abort` at the top of the loop and the one after the wait are one.

### ReceiverBuffers, Receiver

The receiver threads, the writer threads of the pool and the main thread
(`receiver.c`, `stream.c`, `buffer.c`).

| variable | code |
|---|---|
| `buffers[i]` | `heap_id_start`, `byte_counter > 0` (`filled`), `locked_for_write` |
| `recent` | the buffers updated within the last second (`last_updated`), in the order of the updates |
| `at[t]`, `visiting[t]`, `target[t]` | where thread `t` is in `thread_receive`, its loop variable (stream, buffer) |
| `heapOf[t]` | `heap_count` of the packet in `stream_decode` |
| `done`, `completed` | streams that have ended; `completed_streams` |
| `cleared` | writers between `buffer_clear` and the unlocking |
| `packets`, `main` | a bound; the main thread in `receiver_start` and `receiver_free` |

What runs under the lock of the receiver is one step, except where others read or write
the same data without it: the search of `receiver_buffer` is a step for the match and one
for the rest, since writers clear and unlock buffers meanwhile; the copy of a packet is a
step after it; thread 0 reads `byte_counter` and `locked_for_write` in two steps
(`CheckBuffer`, `LockBuffer`), and a writer changes them in two.

* *Contents* of a buffer are abstracted to whether there are any (`Recording` adds them). A packet has at least
  one byte of visibilities. Packets that come before a stream has said where in a heap
  they are leave no trace and are no steps; a datagram may hold several packets.
* *Time*: thread 0 reads the clock once before it looks at the buffers, so none passes
  until it is through. That a time stamp is taken just before the lock, and not under
  it, is not distinguished. A second may be over at any other time.
* *Heap counters* are natural numbers. The code computes `(int) item_addr - 2`
  (`stream.c:119`), which is negative for senders that do not conform. With no buffer yet,
  C's division (`receiver.c:94-95`), which rounds towards zero, would then give a buffer that does not
  cover the heap, `i_time` would be negative (`stream.c:218`) and the packet be copied to before
  `vis_data`. `BuffersAssumption` excludes this, and with it `CopiesAreSafe` does.
* *A single thread* does not call the barrier; a barrier of one thread never blocks.
* *Two unlocks between two iterations of one search* are not distinguished from one.
* Failing `malloc` and sockets, statistics and timers are left out. The writing itself,
  which both writers (plain files and measurement sets) do before they clear and unlock the
  buffer in the same way, is in `Recording`.

### CommandLine, Recording

`CommandLine` is the loop over the options in `main.c`: the last occurrence of an option
counts, sizes are at least one, and the receiver threads are at most the cores less two.
`Recording` is the whole receiver: `Receiver`, run with the sizes `CommandLine` computes
(`SettingsAssumption`), with the data.

| variable | code |
|---|---|
| `build` | whether `WITH_MS` was defined |
| `cells[i]` | `vis_data` of buffer `i`: for each time and channel the heap whose visibilities are there, or `Nothing` |
| `nextFile[u]`, `broken` | the loop variable `c` of `thread_write_parallel` in writer thread `u`; the threads that left the loop because `creat` failed |
| `stored` | whether `thread_write_buffer` has joined its threads, or `thread_write_buffer_ms` is past its loop |
| `files`, `rows` | the files, by the `heap_id_start` in their name; the measurement set, by `write_counter` |
| `failures`, `twins` | a bound; history: the heaps two buffers were for at the same time |

`ReceiverThread` is a step of `Receiver` in which `CopyPacket` also copies the data
(`Copy`). `PoolWorker` puts the writing before `ClearBuffer` of `Receiver`: the writer threads
open, truncate and write their files one after the other, each a step (`WriteFile`), or fail
to open one and end (`OpenFails`); they are joined (`JoinWriters`); `thread_write_buffer_ms`
adds its rows (`WriteRows`). Every step is a step of `Receiver` or leaves its variables
alone, so that all that is known of `Receiver` holds here (`RecordingIsReceiver`).

* A packet carries one heap's visibilities for the channel of its stream. Heaps that come in
  several packets, of which some are lost, are not modelled; each packet would behave as the
  one here does, at its own offset.
* Writing a file is one step, as nobody else uses the file or changes the buffer meanwhile:
  the pool has one worker, and the buffer is locked. That `write` may fail is left out (its
  result is not looked at); a time that is not in the file would be missing.
* Which buffers are called incomplete is logged only.

### Subarray

The devices of class `SDPSubarray`. Tango runs the commands of one device one after the
other; `Configure` and `ConfigureScan` are sequences of transactions, between which
other devices, workflows and users change the database, and of reads of an attribute of
the CSP.

| variable | code |
|---|---|
| `obsState`, `realtime`, `receiver`, `addresses` | `_obs_state`, `_pb_realtime`, `_pb_receive_addresses`, `_receive_addresses` |
| `at` | where a command is: `"create"` or `"update"` blocks, get the link `"map"`, `"put"` it into the state of the block, `"wait"` for addresses |
| `scan`, `todo`, `given`, `link` | local variables: the scan id, the rest of the loop over blocks, the blocks with scan parameters, the receiver until it is assigned |
| `block`, `state` | `/pb/<id>` by the scan of its parameters, and `/pb/<id>/state` by the scans of its `channel_link_map` and `receive_addresses` |
| `deleted`, `strays` | history variables: the blocks users have deleted; the blocks that were on the lists of two devices when an operator moved one of these on by writing `obsState` |

A block is listed before it is created, as in the code, so a command that ends in
`Collision` leaves somebody else's block on the list; it also leaves the device in
`CONFIGURING`. A block that has been deleted is read as `None`, which raises an exception
(`UpdateBlock`, `PutLinkMap`, `TakeAddresses`). `InitDevice` is the command of this name
and a restart of the server, at any time. Both feature toggles are on; without the link
to the CSP, `receiver` is always `None`. Configurations that fail to validate change
nothing in the end. Nothing is known of the CSP: its attribute may show the scan, show
something else for too long, not validate, or be out of reach. Maps and addresses are
told apart by their scan id, as the code does. `Answer`, the workflow that provides
addresses, is external: no workflow of the repository does, and nothing relies on it.
`obsState` may be written without a check (`write_obsState`), and the model lets operators
write any value of `Writable`. What a command that failed has left then counts again, so
`strays` records which blocks this concerns.

## 4. What TLC checks

### Transactions

`MCTransaction` holds the small instances. Bounds: `MaxRev` limits the
revisions of the database (writes stop there), `MaxOps` the entries in the logs
of one attempt (two reads and one update fit in 3), `MaxRetries` is the
parameter of the code. Clients and keys are symmetric, and the symmetry of both
is used except in the run with a liveness property.

| run | instance | shows |
|---|---|---|
| `txn_commit` | 2 clients, 2 keys, a range over both, 3 revisions | `SnapshotReads`: all reads of an attempt hold at one revision, not older than its round. `SerializableCommit`: when updates are applied, everything read or listed still holds. `ConflictHasCause`: a commit fails only because a value read, or the membership of a range listed, has changed. `ImplementsAtomicStore`: all in all, a transaction is one step on a store of values. |
| `txn_rounds` | 1 client with `MaxRetries = 2` that loops, at once or after waiting with a timeout; a lease that expires; callbacks; direct writers; 4 revisions | `RetriesNeedContention`: each failed attempt is paid for by a revision of somebody else. `SerializableCommit` again, where a lease may expire before the commit under it or delete what was read, and a key may be deleted and created again with the same value between the read and the commit. |
| `txn_watch` | 1 client that loops, at once or on watch, 2 keys and a range, direct writers who may delete both keys in one revision, fairness | `TypeOK`, `NoSpuriousWakeUp`: `watch()` returns early only for a change of what was read. `NoChangeForgotten`: while it blocks in spite of such a change, an event that will wake it is in its queue or still to come from a watcher. `NoMissedWakeUp`: it does not sleep through such a change. |
| `callbacks_twice` | smallest instance | violated, see section 6. |

*Why these bounds are enough to be interesting.* A conflict needs one revision
besides the initial one, a conflict between two committed transactions two, and
delete-and-recreate between a read and a commit two more: 3 and 4 revisions
contain them. Two keys under one query give a read key inside and outside a
listed range, phantoms and removals. Every action of `Next` occurs in the
passing runs, and every property is violated by a mistaken variant of the code
on the same instance. For the properties that are proved (section 5) the bounds
do not matter.

*Deadlock* is checked except in `txn_watch`, where a client may
wait for ever because nobody writes any more, as in the real system.

*Fairness* (`FairSpec`, used by `txn_watch` only): weak fairness of `Deliver`,
since each watcher is a thread of its own that forwards what etcd sends; of
`TakeEvent` and of `WakeUp`, since the thread in `watch()` does nothing but
take events from its queue and return when it is empty. No fairness is assumed
of clients, of writers, of commits, or of timeouts.

### Control plane

`MCControlPlane` holds the instances: one block, two process slots (one in most of
the violated ones), two or three deployment names. One block is enough where the
actors treat blocks independently; several deployments of one block, and several
lives of one id, are where they interact. Two slots let an old pod and its successor
run together.

| run | instance | shows |
|---|---|---|
| `cp_claims` | nested names, deployments made by hand, 2 faults (`"kill"`, `"lease"`, `"deployer"`, `"install"`, `"leftover"`), 2 lives of each id | `TypeOK`; `OwnersAreLive`: the owner of a block is a process with a live lease that claimed this block; `OneAtWork`: of two workflows on a block, one has lost its lease; `ImplementsLeases`: blocks are owned as `Leases` promises; `DeletionStaysInBlock`: a block that exists loses a deployment only to its own workflow, when this cleans up, and only the one it made, with those whose ids extend its id. |
| `cp_orphans` | 2 faults of all kinds but `"leftover"`, 2 lives, deletion with and without `-R` | `OrphansGo`: when a block is gone for good, its deployments, releases and pods go. |
| `cp_works` | 5 faults (`"lease"`, `"controller"`, `"deployer"`, `"install"`, `"fetch"`), each id used once, an unsupported workflow | `ListIsTrue`: the deployer's list of releases is what is installed; `WorkflowDeployed`: a block with a supported workflow gets its deployment; `DeploymentsInstalled`: a deployment that stays gets its release; `WorkflowRuns`: a block ends up with a workflow that owns it and has made its deployment. |
| `id_reused` | smallest instance | violated, see section 6. |

`ListIsTrue` depends on the faults that may happen: a failed installation may leave a
release that is not on the list, a failed or foreign removal an id that has none. The
run has none of these, so there the list is exact; the theorem has all cases.

The liveness runs stop where the code does: `cp_works` uses each id
once (`id_reused`), kills no pod, and no release disappears behind the deployer's back;
`cp_orphans` has no nested names (for all three, see the end of section 6). Neither has installations that fail and leave a release: the purge
of the release kills its pod, and if the deployment is deleted before the next
attempt, the release stays until the deployer is restarted. Within these limits the properties hold under all other faults.

*Fairness* (`FairSpec`): the controller and the deployer are Kubernetes Deployments,
so they are started when they are down; their loops turn at least once per refresh
interval, because `watch()` returns at its timeout, and the refresh of the
definitions is due once per interval; calls of helm end, because `invoke` has a
timeout; a running workflow goes on; Kubernetes starts a pod that is missing and
kills one that it has told to stop; etcd expires the lease of a process that has
ended. All of it is weak fairness of the action concerned, over the variables of the
component. Nothing is assumed of users, and no fault ever has to happen. `ControllerTurn`
with a successful fetch is fair since the faults that make it fail are bounded.

*Deadlock* is checked in all runs: the loops never stop turning.

### Visibility receiver

| run | instance | shows |
|---|---|---|
| `receiver` | 2 receiver threads, 2 streams, 2 buffers of one heap each, heaps 0 to 2, 3 packets, generations of the barrier modulo 2, 1 writer, fairness | `CopiesAreSafe`: the copy of a packet, which no lock protects, goes to a buffer that covers its heap, counts as filled and is not being written. `LockedMeansQueued`: a buffer is locked exactly as long as one task has it (its last part, that two workers never have the same buffer, says something only in the theorem: the run, as the code, has one worker). `FreedLast`: nothing is freed while somebody may use it. `BlocksUntilDone`: no thread leaves while a stream goes on. `ImplementsBarrier`: the barrier is a `Barrier`. `FilledIsWritten`: data are written in the end, if the streams go on. `EndsWithStreams`: when all streams have ended, so does the receiver. `ThreadZeroAlone`: while thread 0 looks at the buffers and clears the counters of the streams, without the lock, no other thread receives. `LeavesOnlyRecent`: what a pass of thread 0 leaves unlocked has no data, or was updated within the last second; this bounds what is lost when the streams end. `NobodySleepsForGood`: who sleeps in the barrier waits for a thread that has yet to come and has not left the loop; while a worker sleeps, as many others are on their way to the tasks as there are tasks; after the abort the main thread is about to wake all. |
| `recording` | files or measurement set, 1 receiver thread, 2 streams, 2 buffers of 2 heaps each, heaps 0 and 3, 3 packets, 2 writer threads of 1 channel each, 1 failing `creat` | `RecordingTypeOK`. `StoredIsWhole`: when the writer threads have been joined, the files hold the buffer, each channel in its place, but for the channels of a thread that failed. `HeldStays`: visibilities that have been taken are in a buffer that counts as filled, or on disk, ever after, unless their writer thread fails or a second buffer for the same heaps is written. `OnlyOlderIsLeft`: old data in a file are of the same time of an earlier buffer. |
| `locked_empty` | 1 thread, 1 stream, 2 packets | violated, see section 6. |

Two threads are where they lap one another in the barrier, and where thread 0 differs from
the others; two buffers and three heaps give a packet without a free buffer, one that is too
old, and the re-use of a buffer; a buffer of one heap suffices since only membership of a
range matters. Generations modulo 2 make a wrap-around happen at once. With three packets, a
buffer is filled, written, and filled again while the other one is in use.

`recording` has one receiver thread, since what two do to each other is checked in `receiver`
and the data follow it; two streams, so that a buffer has two channels in two files; heaps 0
and 3, so that a buffer of two times is used again, filled at another time than before, and
shows old data of both times; three packets, so that a heap comes twice, late, or while its
buffer is being written, which makes twins. The loop of a writer thread over several files is
not reached with two channels and two writers; the theorems hold for any numbers.

*Fairness* (`FairSpec`): each thread goes on (weak fairness of its steps); a mutex is free
again after one step. Time passes (strong fairness, since it stops for a moment in each turn
of thread 0). Nothing is assumed of the network: no packet and no end of a stream has to come.
*Deadlock* is checked; the end is the explicit step `Ended`.

### Subarray

| run | instance | shows |
|---|---|---|
| `subarray` | 2 devices, 2 real-time blocks and a batch block, 2 scans, 2 configurations and 2 updates that overlap, users who delete the first block, operators who write `IDLE`, `READY`, `SCANNING` and `FAULT` | `TypeOK`. `AddressesOfScan`: after a command that succeeded, and until the next, the addresses shown are those of its scan, or none. `BlocksAreOwn`: two configured devices share no real-time block but those deleted and the strays. `ScanReachesBlocks`: after a command that succeeded, and until the next, its blocks have its scan, with the same exceptions. `QuestionStands`: while a device waits for addresses, its link map stays in the state of its receiver, unless the block is deleted; so an answer would end the wait. |

Both configurations have the second real-time block, so collisions, foreign blocks on a list,
and deletion and re-creation by the other device occur. A collision on it, or a
`ConfigureScan` that meets the deleted first block, ends the command half way; two scans make
stale addresses. `PAUSED`, `ABORTED` and `CONFIGURING`, which operators may write as well,
stop a device as `FAULT` does. Devices and scans are symmetric. Without the exception for
strays TLC finds `BlocksAreOwn` and `ScanReachesBlocks` violated: a Collision, `IDLE` or
`READY` written by hand, and a `ConfigureScan` that changes another device's block (section 6).

No fairness is assumed, and it is not claimed that commands end: `_get_receive_addresses`
waits without a timeout for an answer that nothing in the repository gives. *Deadlock* is
checked.

## 5. What is proved

### Transactions

All theorems hold for every number of clients, keys, values, leases, queries,
retries and revisions; `TLAPS` checks them to the last leaf. Their only
assumptions are the named ones on the constants: `StoreAssumption`,
`BackendAssumption` and `TxnAssumption` (distinct markers such as `None` are
not values; `Covers` gives sets of keys and `Reach` sets of these; keys are finite
in number and are not queries).

| theorem (`Etcd3TransactionProofs`) | establishes |
|---|---|
| `Invariant` | `Spec => []IInv`, the inductive invariant |
| `TypeCorrect` | `[]TypeOK` |
| `SnapshotIsolation` | `[]SnapshotReads` |
| `Serializability` | `SerializableCommit` |
| `TransactionsAreAtomic` | `ImplementsAtomicStore` |
| `NoFalseConflicts` | `ConflictHasCause` |
| `RetriesArePaidFor` | `[]RetriesNeedContention` |
| `WakeUpsAreGenuine` | `[]NoSpuriousWakeUp` |
| `WatchInvariant` (`Etcd3WatchProofs`) | `[]WatchInv`, inductive relative to `IInv` |
| `ChangesAreRemembered` (`Etcd3WatchProofs`) | `[]NoChangeForgotten` |

*The argument.* `commit()` compares revisions, not values; that this is enough
is a fact about the whole history of the database. `EtcdStoreProofs` therefore
defines `History(d)` and shows that every write preserves it
(`WriteKeepsHistory`):

* `WellFormed`: a key exists at revision `r` iff its create and mod revisions
  lie in `1..r`, in this order; otherwise it is `NoKV`;
* `WrittenAtMod`: the state of a key at `r` is its state at its mod revision,
  so equal mod revisions mean equal states (`SameModSameValue`);
* `AliveSinceCreate`: a key exists at all revisions from its creation on, so a
  create revision not newer than the snapshot means the key was in it
  (`OldKeyExisted`): this is the condition of `commit()` against phantoms;
* `ChangesTraced`: a key whose state differs between two revisions was changed
  at a revision between them, which gives every conflict a cause;
* `DeletionsTraced`: a key that exists at one revision and is gone at a later one was
  deleted at a revision between them, which gives every removal from a range an event.

`IInv` adds, for each client, that its query logs are the snapshot at its baked
revision (`LogsOK`), that a round of attempts with `n` failures reads at least
`n` revisions after its start (`RoundOK`, without which the count of retries is
not inductive: a failed attempt has seen a revision newer than its own read,
and the next one must read at or after it), and that queued events are real
changes and `woken` has not fallen behind what was read (`WatchOK`, without
which an event of an old watcher could be taken for news). `StepIInv` shows
that every step preserves it: one lemma for steps that leave a client alone
(the database only grows, `DbStep`, `SameKeeps`), one for each group of
actions. The two action properties follow from `IInv` and a step of `Next`
(`VerifiedReadsHold`, `FailureHasCause`).

`TransactionsAreAtomic` uses the same invariant. The step that applies the updates is the commit
of `AtomicStore`: the conditions hold, so the reads do (`VerifiedReadsHold`), as values too,
since by `WellFormed` a key has a value iff it exists (`ValuesAreCurrent`); the new snapshot has
the values staged (`UpdatesAreMade`). Every other step of a client leaves the database alone,
and ends well only without updates (`AppliesOrSpares`); what others do changes nothing of the
client's own (`OthersSame`).

`ChangesAreRemembered` is the safety half of `NoMissedWakeUp`; fairness of the watchers and
of the loop in `watch()` is all that the other half adds. `WatchInv` says what the position of
a watcher is worth: every event before it is *digested*, that is, not newer than the
snapshot, on the queue, or taken by `watch()`, which then either woke up or found it irrelevant.
Watchers of an earlier turn are kept and new ones start right behind the snapshot, so it holds
anew at the start of each wait. A change that affects the reads then is an event of some
watcher (`Affected`, with `ChangesTraced` and `DeletionsTraced`: a key that left a listed range
may have changed again since, and the relevant event is the deletion between), and it is
relevant; so it is not digested unless it is on the queue.

### Control plane

The assumptions are the named ones of the modules (`ConfigurationAssumption`,
`ClusterAssumption`, `ControllerAssumption`, `WorkflowAssumption`, `UserAssumption`):
markers are not values, names and supported workflows come from their sets. Blocks,
names, processes, faults and uses are arbitrary.

| theorem (`ControlPlaneProofs`) | establishes |
|---|---|
| `TypeCorrect` | `[]TypeOK` |
| `ClaimsDieWithClaimants` | `[]OwnersAreLive` |
| `OneWorkflowPerBlock` | `[]OneAtWork`, if `Recursive` does not contain `TRUE` |
| `OwnershipIsLeased` | `ImplementsLeases` |
| `DeployerListIsTrue` | `[]ListIsTrue` |
| `OnlySupportedWorkflowsRun` | `[]OnlySupportedRuns` |
| `DeletionsStayInBlock` | `DeletionStaysInBlock` |

`StepKinds` sorts the steps of all actors by what they do to ownership: most leave
it and the pods' work alone (`Quiet`), the others clear an owner (`Clears`), start or
end a pod, give up a lease (`Abandons`), claim, or move a workflow on (`Moves`).
`OwnersAreLive` is then inductive as it stands: a step that ends a process leaves it
`"dead"` while its lease lives, and a claim needs a pod at `"start"`, which owns
nothing. `OneAtWork` is not: a second claim has to fail *because* the first owner is
still entered. The strengthening is `Claimed`: a pod at work whose lease is alive is
the owner of its block. It needs the assumption that nobody deletes owner entries by
hand: `sdpcfg delete -R` of a block whose workflow runs, followed by the creation of
the block anew, gives two workflows at work.

`OwnershipIsLeased` maps each kind of step to one of `Leases` or to a stutter. That a block
is taken once in the life of a lease needs `Fresh`: a slot that is free, or whose pod has not
claimed its block yet, has no lease, so that a restarted workflow never goes on with the
lease of its predecessor.

`ListIsTrue` is inductive only together with `TurnIsSound`: while a turn of the deployer is
under way, what it has yet to uninstall is on its list and what it has yet to install is not,
and has arguments in the snapshot. The statement names the faults that break it: with a
failed uninstallation or a foreign removal among them the list may have ids without a
release, with leftovers it may lack some.

`OnlySupportedRuns` (defined in `ControlPlaneProofs`, not checked by a run): no workflow is
installed under the id of a block's workflow deployment that is not in the definition file,
unless users make deployments under this id. An unlisted workflow would have to pass the
definitions, the entry and the snapshot of the deployer; `OnlySupportedAsked` follows it
through these, and `PassedOn` is the step they have in common. `DeletionStaysInBlock` follows
from the types and a step: orphans are found and deleted in one transaction, so a block that
has been created again meanwhile keeps what it has.

### Visibility receiver

For all numbers of threads, streams, buffers, workers, heaps and packets
(`BarrierAssumption`, `PoolAssumption`, `BuffersAssumption`, `ReceiverAssumption`; generations
modulo any number from 2 on).

| theorem (`ReceiverProofs`) | establishes |
|---|---|
| `BarrierIsAbstract` | `ImplementsBarrier` |
| `Invariant` | `Spec => []IInv`, the inductive invariant |
| `TypeCorrect` | `[]TypeOK` |
| `CopiesProtected` | `[]CopiesAreSafe` |
| `LockedBuffersHaveOneTask` | `[]LockedMeansQueued` |
| `BlocksUntilStreamsEnd` | `[]BlocksUntilDone` |
| `NothingFreedEarly` | `[]FreedLast` |
| `OthersWaitForThreadZero` | `[]ThreadZeroAlone` |
| `PassLeavesOnlyRecent` | `LeavesOnlyRecent` |
| `SleepersWillBeWoken` | `[]NobodySleepsForGood` |

`ThreadBarrierProofs` shows that a step of the barrier is one of the abstract barrier, from
`BarrierInv`: `count` and the number of threads that have come to the current generation
add up to the number of threads. The copy of a packet is safe although no lock
covers it, because buffers are locked only by thread 0 between the two barriers, when no
thread copies. That is `SameSide`: all threads are in the same part of the loop, counting
a thread that has been let go by a barrier as being past it. It is inductive only together
with `BarrierInv`. A re-assignment cannot take the buffer away since it counts as filled,
which only a writer changes, and a writer has only locked buffers (`LockedMeansQueued`).
`BlocksUntilDone` needs `CountOK`: the count of ended streams, which thread 0 sets to zero
and adds up anew in every turn, reaches the number of streams only if all have ended.
`LeavesOnlyRecent` speaks of the end of a pass whose checks were made earlier, while the writer
goes on clearing and unlocking: `PassInv` says that each buffer thread 0 has passed is locked,
empty or recent; a writer only unlocks what it has cleared (`ClearedEmpty`), and nobody fills a
buffer or lets a second pass meanwhile (`ThreadZeroAlone`).

`SleepersWillBeWoken` is what `EndsWithStreams` and `FilledIsWritten` rest on besides fairness.
A thread asleep in the barrier has not been let go (`SleepersAreHere`), so by `BarrierInv` some
thread is yet to come; that this one has not left the loop is `EndTogether`: a thread on its way
to the first barrier has not seen all streams counted, and once one thread has ended, all are
past the second barrier. The pool signals once for each task, so a worker may sleep although
there are tasks; but then each task has a worker awake that looks at the list before it sleeps
again (`TasksHaveTakers`), which needs `Workers` to be finite (`num_threads`, part of
`PoolAssumption`). The abort is seen by workers that have not slept yet, and the others are woken
before anything is dropped (`AbortWakes`).

| theorem (`RecordingProofs`) | establishes |
|---|---|
| `RecordingIsReceiver` | `RecordingSpec => Spec` |
| `RecordingInvariant` | `[]RecordingIInv`, the inductive invariant |
| `RecordingTypeCorrect` | `[]RecordingTypeOK` |
| `FilesAreWhole` | `[]StoredIsWhole` |
| `OnlyOlderDataAreLeft` | `[]OnlyOlderIsLeft` |
| `TakenDataStay` | `HeldStays` |

These need `RecordingAssumption` and `SettingsAssumption` besides: there is one worker
(`threadpool_create(1)`), and the sizes are those of the command line. `RecordingIInv`
contains the invariant of `Receiver`, by `RecordingIsReceiver`, and adds: the files that a
writer thread has behind it hold their channels of the buffer (with the arithmetic that the
blocks of all writer threads cover all channels, and that `LastChannel` is the end of a
block); what is in a cell is of a heap not later than the buffer's, at its own time, which
is kept when a buffer is used for other heaps because these are never earlier than the
oldest start (`TooOld`; the oldest exists by well-founded induction); starts are multiples of
`NumTimes`, so that two buffers that cover a common heap have the same start; and two
buffers with the same start are in `twins`. `HeldStays` follows step by step: a copy replaces
a heap's data by the same heap's, a re-assignment needs an empty buffer, clearing needs the
data to be stored, and a file is truncated only for a buffer of its heaps.

### Subarray

For all devices, blocks, scans, configurations and values written to `obsState`
(`SubarrayAssumption`).

| theorem (`SubarrayProofs`) | establishes |
|---|---|
| `Invariant` | `Spec => []IInv`, the inductive invariant |
| `TypeCorrect` | `[]TypeOK` |
| `AddressesMatch` | `[]AddressesOfScan` |
| `NobodySharesBlocks` | `[]BlocksAreOwn` |
| `ScansArrive` | `[]ScanReachesBlocks` |
| `QuestionsStand` | `[]QuestionStands` |

A device whose command has failed may have a block of somebody else on its list. So `IInv`
distinguishes devices that are `InCharge`: their last command has not failed, or `obsState`
lets them take commands all the same. Blocks on a list, of whatever device, exist in the
database or have been deleted, hence a block that can be created is on no list; two devices
in charge share only deleted blocks and strays (`ListsOK`), because a device that fails is no
longer in charge, and one that an operator puts in charge again adds what it shares to
`strays`. The blocks with parameters carry the scan as far as the loop has come (`GivenOK`,
`ScansOK`); nobody else updates them, since only a device in charge updates blocks.

`QuestionStands` needs no exception but deletion: only a `Configure` that has created all of
its blocks sets the receiver, so a receiver is asked by the device that created it. `Asked(d)`
is the receiver of `d` together with the block that will be, once it has been created, and
`ReceiversOK` says that nobody else asks these, and that their states exist.

### Only model-checked

`NoMissedWakeUp`, `OrphansGo`, `WorkflowDeployed`, `DeploymentsInstalled`,
`WorkflowRuns`, `FilledIsWritten` and `EndsWithStreams`, which are liveness under
fairness and out of reach of the prover, and the violations. For three of them the safety half is
proved: `ChangesAreRemembered` for `NoMissedWakeUp`, `SleepersWillBeWoken` for `FilledIsWritten`
and `EndsWithStreams`.

## 6. Where code and documentation disagree

1. **A callback runs twice** (`callbacks_twice`). `on_commit` promises side-effects "that
   are guaranteed to not get duplicated" (`backend.py:636-638`). A turn of the loop without
   updates returns from `commit()` before the callbacks are looked at (`backend.py:576-579`)
   and `reset()` does not clear them; the next turn registers its callback again, and a commit
   with updates runs both.
2. **A re-used id gets no workflow** (`id_reused`). The controller skips a block
   that has any deployment (`processing_controller.py:174-176`), including those its
   predecessor of the same id left, and those it deletes in the same turn. "To execute
   a Processing Block, it requests the deployment of the corresponding Workflow"
   (`design.rst:42-45`).
3. **An empty buffer is written** (`locked_empty`). "Determine if the buffer is ready to be
   written" (`receiver.c:410`) reads the byte counter and then the lock flag without the
   lock that other code takes for them; a writer that clears and unlocks the buffer in between
   (`receiver.c:297-298`) makes thread 0 lock and write it a second time. With measurement
   sets its rows are written again.

Also seen in the code while modelling, without a run of its own:

* A killed workflow does not come back: `create_deployment` raises `Collision` on the
  deployment made before the kill (`vis_receive.py:34-35`), outside of the `try` that would
  clean it up, so every restart fails.
* A deleted key is still listed: `list_keys` takes uncommitted updates into account, "We
  might have created or deleted an uncommitted key that falls into the range"
  (`backend.py:475-476`), but asks whether the entry of `_updates` is `None`
  (`backend.py:482-487`), whereas `delete` stores the pair `(None, None)`. So a key deleted by
  the transaction is not removed from the list, and even added to it.
* An `update` puts a leased key without a lease, after which it outlives the lease
  (`backend.py:546`; the services never do this).
* Nested ids stop the controller: `delete_deployment` deletes by prefix
  (`config.py:419-422`); `get_deployment` of a longer id then raises a `TypeError`
  (`processing_controller.py:169`), in every turn after every restart.
* A failed uninstallation blocks its id: "Assume it was already gone"
  (`helm_deploy.py:108`), but the id stays in `deploys`, and a deployment created under it
  is never installed until the deployer is restarted.
* The deployer compares only the ids of deployments, so a release keeps the arguments it
  was installed with (`helm_deploy.py:204-205`).
* A transaction that loops with `watch` but has read nothing has no revision: an event left on
  the queue from an earlier turn raises an `AttributeError` (`backend.py:790-792`,
  `TakeEventWithoutReads`), and without one it sleeps for ever.
* `range(9999)` never yields 9999, so the check for exhaustion in `new_processing_block_id`
  cannot fire and an id in use is returned (`config.py:248-254`).
* The data of the last second before all streams end are never written (`receiver.c:385`,
  `LeavesOnlyRecent`). A packet for a buffer that is being written opens a second buffer for the
  same heaps, whose file replaces that of the first (`receiver.c:48`, `twins` in `HeldStays`).
  Old data are not cleared (`buffer.c:8`), so the files of an incomplete buffer show those of an
  earlier one (`OnlyOlderIsLeft` says which), and the warning about incomplete buffers counts
  bytes, which packets that come twice make up (`receiver.c:257`). A writer thread that cannot
  open a file does not write its other files either (`receiver.c:232`). The uvw coordinates of
  all times of a buffer are computed from the time stamp of the newest packet (`receiver.c:517`).
  "Repurpose the oldest buffer not in use" (`receiver.c:29-30`) looks at the oldest of all
  buffers only.
* The options `--buffers` and `--buffertimes` are swapped (`main.c:147-152`). The README of the
  receiver and the chart start it with `./recv -d .` and `./recv -d /output`
  (`vis_receive/README.md:56`, `vis_receive_deploy.yaml:23`), but `-d` is the declination
  (`main.c:165`), so nothing is written. On a machine with two cores or fewer there are no receiver
  threads (`main.c:189`).
* `EndSB` without `EndScan` leaves the receive addresses in place (`SDPSubarray.py:486-504`).
  A command that ends in `Collision` leaves the device in `CONFIGURING` with its lists
  extended; if `IDLE`, `READY` or `SCANNING` is written to `obsState` then, `ConfigureScan` may
  change a block of another subarray (the strays of `BlocksAreOwn` and `ScanReachesBlocks`). A scan id that is used again with another link map gets the old addresses.
  If a block is deleted without `-R` during the wait for addresses, the command never returns.

## 7. What is not modelled

Components with status `not_modelled` in `PROJECT.json` are either in the plan
(section 2) or have nothing to model: the master device, logging, formatting,
the calls into helm, Kubernetes, Tango, the streaming and the file libraries,
the coordinates and the statistics of the receiver, charts and images.
`write_ms_access.c` is not called by anything. Of the subarray
device: the Tango state, admin mode and the attribute `processingBlockState`. The
messages of helm are taken as the code takes them: a name in use is reported as
"already exists" (`helm_deploy.py:139`). The refresh of charts only delays a turn.
Exceptions inside a workflow's waiting loop other than the loss of its lease are
left out. Of `backend.py`: the
stand-alone use of a watcher, `close()`, and the encoding of depths in keys.
