--------------------------- MODULE Etcd3Transaction ---------------------------
(***************************************************************************)
(* The Etcd3Transaction class of config_db/ska_sdp_config/backend.py:      *)
(* optimistic transactions over the database.  Every client runs           *)
(*                                                                         *)
(*     for txn in etcd3.txn(max_retries):                                  *)
(*         ... any calls of get, list_keys, create, update, delete,        *)
(*             on_commit and loop, in any order ...                        *)
(*                                                                         *)
(* The body reads one snapshot of the database and collects its updates;   *)
(* commit sends them with the conditions that what was read still stands.  *)
(* One step of a client is one call of its body, or the commit and the     *)
(* turn of __iter__ that follows it, or one event taken by watch().        *)
(*                                                                         *)
(* The clients' calls interleave with each other, with the direct          *)
(* operations of Etcd3Backend, with the expiry of leases and with the      *)
(* delivery of watch events, each watcher having a thread of its own.      *)
(***************************************************************************)
EXTENDS Etcd3Backend, FiniteSets

CONSTANTS
    Clients,     \* processes that run a transaction
    ListCalls,   \* a list_keys call: the set of queries, one per level listed
    Unread,      \* a query that is not in the query log
    MaxRetries,  \* max_retries
    MaxOps,      \* bound: entries in the logs of one attempt
    LoopModes,   \* how bodies call loop(): "now", "watch", "timeout"
    UseCallbacks \* whether bodies call on_commit()

ASSUME TxnAssumption ==
    /\ ListCalls \subseteq SUBSET Queries
    /\ Unread \notin KV
    /\ \A ks \in SUBSET Keys : ks # Unread
    /\ MaxRetries \in Nat
    /\ MaxOps \in Nat
    /\ LoopModes \subseteq {"now", "watch", "timeout"}
    /\ UseCallbacks \in BOOLEAN
    /\ Queries \intersect Keys = {}
    /\ IsFiniteSet(Keys)
    /\ NoUpdate \notin Vals \union {None}

VARIABLES
    pc,         \* where the for loop of the client is, see TypeOK
    revision,   \* _revision, baked in by the first read; NoRev before
    getQ,       \* _get_queries
    listQ,      \* _list_queries
    updates,    \* _updates
    looping,    \* _loop and _watch: "no", "now" or "watch"
    timed,      \* _watch_timeout is set
    retries,    \* _retries
    callbacks,  \* _commit_callbacks, by the attempt that registered them
    watchers,   \* _watchers: the next revision each delivers events of
    queue,      \* _watch_queue
    woken,      \* the local variable revision of watch(): newest change seen
    block,      \* the local variable block of watch()
    startRev    \* history: database revision when the current round of
                \* attempts started (first attempt, or last success)

bodyVars == <<revision, getQ, listQ, updates, looping, timed>>
roundVars == <<retries, callbacks, startRev>>
watchVars == <<watchers, queue, woken, block>>
txnVars == <<pc, revision, getQ, listQ, updates, looping, timed,
             retries, callbacks, startRev, watchers, queue, woken, block>>
vars == <<db, lease, pc, revision, getQ, listQ, updates, looping, timed,
          retries, callbacks, startRev, watchers, queue, woken, block>>

NoRev == 0
NotWatching == 0
WatchIds == Queries \union Keys
Event == [key : Keys, value : Vals \union {None}, rev : Nat]

(* A callback is abstracted to the turn that registered it: the current     *)
(* one, or an earlier turn of the loop.                                     *)
CallbackOrigins == {"this", "earlier"}

TypeOK ==
    /\ StoreTypeOK
    /\ pc \in [Clients -> {"body", "watching", "done", "raised", "exhausted"}]
    /\ revision \in [Clients -> Nat]
    /\ getQ \in [Clients -> [Keys -> KV \union {Unread}]]
    /\ listQ \in [Clients -> [Queries -> {Unread} \union SUBSET Keys]]
    /\ updates \in [Clients -> [Keys -> Update \union {NoUpdate}]]
    /\ looping \in [Clients -> {"no", "now", "watch"}]
    /\ timed \in [Clients -> BOOLEAN]
    /\ retries \in [Clients -> Nat]
    /\ callbacks \in [Clients -> SUBSET CallbackOrigins]
    /\ startRev \in [Clients -> Nat]
    /\ watchers \in [Clients -> [WatchIds -> Nat]]
    /\ queue \in [Clients -> Seq(Event)]
    /\ woken \in [Clients -> Nat]
    /\ block \in [Clients -> BOOLEAN]

NoGets == [k \in Keys |-> Unread]
NoLists == [q \in Queries |-> Unread]
NoUpdates == [k \in Keys |-> NoUpdate]
NoWatchers == [w \in WatchIds |-> NotWatching]

Init ==
    /\ \E ks \in SUBSET Keys, v \in Vals : db = Populated(ks, v)
    /\ lease = [l \in Leases |-> "new"]
    /\ pc = [c \in Clients |-> "body"]
    /\ revision = [c \in Clients |-> NoRev]
    /\ getQ = [c \in Clients |-> NoGets]
    /\ listQ = [c \in Clients |-> NoLists]
    /\ updates = [c \in Clients |-> NoUpdates]
    /\ looping = [c \in Clients |-> "no"]
    /\ timed = [c \in Clients |-> FALSE]
    /\ retries = [c \in Clients |-> 0]
    /\ callbacks = [c \in Clients |-> {}]
    /\ startRev = [c \in Clients |-> 1]
    /\ watchers = [c \in Clients |-> NoWatchers]
    /\ queue = [c \in Clients |-> <<>>]
    /\ woken = [c \in Clients |-> NoRev]
    /\ block = [c \in Clients |-> TRUE]

-----------------------------------------------------------------------------
(* Reads.  A value comes from the updates of this attempt, else from the    *)
(* query log, else from the snapshot at _revision; the first read bakes the *)
(* revision in.                                                             *)
ReadRev(c) == IF revision[c] = NoRev THEN Revision(db) ELSE revision[c]

GetValue(c, k) ==
    IF updates[c][k] # NoUpdate THEN updates[c][k].value
    ELSE IF getQ[c][k] # Unread THEN getQ[c][k].value
    ELSE KVAt(ReadRev(c), k).value

(* Mistaken variants, named for their mistake, precede some definitions:    *)
(* they are what the properties below must tell from the code.              *)
LogGetValueOnly(c, k) ==
    /\ getQ' = [getQ EXCEPT ![c][k] = KVAt(ReadRev(c), k).value]
    /\ revision' = [revision EXCEPT ![c] = ReadRev(c)]

LogGet(c, k) ==
    IF updates[c][k] = NoUpdate /\ getQ[c][k] = Unread
    THEN /\ getQ' = [getQ EXCEPT ![c][k] = KVAt(ReadRev(c), k)]
         /\ revision' = [revision EXCEPT ![c] = ReadRev(c)]
    ELSE UNCHANGED <<getQ, revision>>

(* The queries of a list_keys call that are not in the log yet are answered *)
(* at one revision: the first of them bakes it in for the others.           *)
LogList(c, qs) ==
    /\ listQ' = [listQ EXCEPT ![c] =
                    [q \in Queries |-> IF q \in qs /\ listQ[c][q] = Unread
                                       THEN KeysAt(ReadRev(c), q)
                                       ELSE listQ[c][q]]]
    /\ revision' = [revision EXCEPT ![c] = ReadRev(c)]

LogSize(c) == Cardinality({k \in Keys : getQ[c][k] # Unread})
            + Cardinality({q \in Queries : listQ[c][q] # Unread})
            + Cardinality({k \in Keys : updates[c][k] # NoUpdate})

InBody(c) == pc[c] = "body" /\ LogSize(c) < MaxOps

ResetKeepingRevision(c) ==
    /\ getQ' = [getQ EXCEPT ![c] = NoGets]
    /\ listQ' = [listQ EXCEPT ![c] = NoLists]
    /\ updates' = [updates EXCEPT ![c] = NoUpdates]
    /\ looping' = [looping EXCEPT ![c] = "no"]
    /\ timed' = [timed EXCEPT ![c] = FALSE]
    /\ UNCHANGED revision

(* reset(): the transaction can be built again.                             *)
Reset(c) ==
    /\ revision' = [revision EXCEPT ![c] = NoRev]
    /\ getQ' = [getQ EXCEPT ![c] = NoGets]
    /\ listQ' = [listQ EXCEPT ![c] = NoLists]
    /\ updates' = [updates EXCEPT ![c] = NoUpdates]
    /\ looping' = [looping EXCEPT ![c] = "no"]
    /\ timed' = [timed EXCEPT ![c] = FALSE]

(* The for loop ends: the generator is closed, which stops the watchers.    *)
(* Nothing uses the transaction object any more, so its logs are dropped.   *)
Leave(c, how) ==
    /\ pc' = [pc EXCEPT ![c] = how]
    /\ Reset(c)
    /\ watchers' = [watchers EXCEPT ![c] = NoWatchers]
    /\ queue' = [queue EXCEPT ![c] = <<>>]
    /\ woken' = [woken EXCEPT ![c] = NoRev]
    /\ block' = [block EXCEPT ![c] = TRUE]

-----------------------------------------------------------------------------
(* The calls of a transaction body.                                         *)
Get(c, k) ==
    /\ InBody(c)
    /\ LogGet(c, k)
    /\ UNCHANGED <<pc, listQ, updates, looping, timed>>
    /\ UNCHANGED <<storeVars, roundVars, watchVars>>

ListKeys(c, qs) ==
    /\ InBody(c)
    /\ LogList(c, qs)
    /\ UNCHANGED <<pc, getQ, updates, looping, timed>>
    /\ UNCHANGED <<storeVars, roundVars, watchVars>>

(* Add an entry to the updates, having looked the key up.                   *)
SetUpdate(c, k, u) ==
    /\ InBody(c)
    /\ LogGet(c, k)
    /\ updates' = [updates EXCEPT ![c][k] = u]
    /\ UNCHANGED <<pc, listQ, looping, timed>>
    /\ UNCHANGED <<storeVars, roundVars, watchVars>>

Create(c, k, v, l) ==
    /\ GetValue(c, k) = None
    /\ SetUpdate(c, k, Put(v, l))

UpdateKey(c, k, v) ==
    /\ GetValue(c, k) # None
    /\ SetUpdate(c, k, Put(v, NoLease))

DeleteKey(c, k) ==
    /\ GetValue(c, k) # None
    /\ SetUpdate(c, k, Delete)

(* delete with must_exist=False does not look the key up.                   *)
DeleteAny(c, k) ==
    /\ InBody(c)
    /\ updates' = [updates EXCEPT ![c][k] = Delete]
    /\ UNCHANGED <<pc, revision, getQ, listQ, looping, timed>>
    /\ UNCHANGED <<storeVars, roundVars, watchVars>>

(* An exception leaves the for loop: Collision from create, Vanished from   *)
(* update and delete, or one of the body's own.                             *)
Raise(c) ==
    /\ pc[c] = "body"
    /\ Leave(c, "raised")
    /\ UNCHANGED <<storeVars, roundVars>>

OnCommit(c) ==
    /\ UseCallbacks
    /\ pc[c] = "body"
    /\ callbacks' = [callbacks EXCEPT ![c] = @ \union {"this"}]
    /\ UNCHANGED <<pc, bodyVars, retries, startRev>>
    /\ UNCHANGED <<storeVars, watchVars>>

(* loop(): of several calls, looping immediately takes precedence.          *)
Loop(c, mode) ==
    /\ pc[c] = "body"
    /\ looping' = [looping EXCEPT ![c] =
                     IF mode = "now" \/ @ = "now" THEN "now" ELSE "watch"]
    /\ timed' = [timed EXCEPT ![c] = @ \/ mode = "timeout"]
    /\ UNCHANGED <<pc, revision, getQ, listQ, updates>>
    /\ UNCHANGED <<storeVars, roundVars, watchVars>>

Body(c) ==
    \/ \E k \in Keys :
        \/ Get(c, k)
        \/ \E v \in Vals, l \in Leases \union {NoLease} :
              /\ l \in Leases => lease[l] # "new"
              /\ Create(c, k, v, l)
        \/ \E v \in Vals : UpdateKey(c, k, v)
        \/ DeleteKey(c, k)
        \/ DeleteAny(c, k)
    \/ \E qs \in ListCalls : ListKeys(c, qs)
    \/ OnCommit(c)
    \/ Raise(c)
    \/ \E mode \in LoopModes : Loop(c, mode)

-----------------------------------------------------------------------------
GetVerifiedByExistence(c, k) ==
    getQ[c][k] # Unread => Exists(getQ[c][k]) = Exists(Current(db)[k])

(* The conditions that commit sends to etcd with the updates.               *)
GetVerified(c, k) ==
    getQ[c][k] # Unread =>
        IF Exists(getQ[c][k])
        THEN Current(db)[k].mod = getQ[c][k].mod
        ELSE ~Exists(Current(db)[k])

ListVerifiedWithoutPhantoms(c, q) ==
    listQ[c][q] # Unread => \A k \in listQ[c][q] : Exists(Current(db)[k])

ListVerifiedByMod(c, q) ==
    listQ[c][q] # Unread =>
        /\ \A k \in listQ[c][q] : Exists(Current(db)[k])
        /\ \A k \in Covers[q] : Current(db)[k].mod < revision[c] + 1

ListVerified(c, q) ==
    listQ[c][q] # Unread =>
        /\ \A k \in listQ[c][q] : Exists(Current(db)[k])
        /\ \A k \in Covers[q] : Current(db)[k].create < revision[c] + 1

Verified(c) ==
    /\ \A k \in Keys : GetVerified(c, k)
    /\ \A q \in Queries : ListVerified(c, q)

HasPuts(c) == \E k \in Keys : updates[c][k] # NoUpdate /\ updates[c][k].value # None

HasUpdates(c) == updates[c] # NoUpdates

LeasesValid(c) ==
    \A k \in Keys : updates[c][k] # NoUpdate => LeaseValid(updates[c][k].lease)

(* A commit without updates returns before it looks at the callbacks: they  *)
(* stay in the list.  Every other commit empties it.                        *)
KeptCallbacks(c) == IF callbacks[c] = {} THEN {} ELSE {"earlier"}

(* The watchers that match what was read, and _update_watchers(): a key     *)
(* that falls into a listed range is not watched on its own; watchers of    *)
(* earlier attempts that are still wanted go on, the others are stopped.    *)
WatchRange(w) == IF w \in Queries THEN Covers[w] ELSE {w}

Listed(c) == {q \in Queries : listQ[c][q] # Unread}

ActiveWatchers(c) ==
    Listed(c) \union {k \in Keys : /\ getQ[c][k] # Unread
                                   /\ \A q \in Listed(c) : k \notin Covers[q]}

UpdateWatchersFromNow(c) ==
    watchers' = [watchers EXCEPT ![c] =
        [w \in WatchIds |->
            IF w \notin ActiveWatchers(c) THEN NotWatching
            ELSE IF watchers[c][w] # NotWatching THEN watchers[c][w]
            ELSE Len(db) + 1]]

UpdateWatchers(c) ==
    watchers' = [watchers EXCEPT ![c] =
        [w \in WatchIds |->
            IF w \notin ActiveWatchers(c) THEN NotWatching
            ELSE IF watchers[c][w] # NotWatching THEN watchers[c][w]
            ELSE revision[c]]]

(* __iter__ after a commit that succeeded: leave the loop, enter watch(),   *)
(* or build the transaction again.                                          *)
AfterSuccess(c) ==
    /\ retries' = [retries EXCEPT ![c] = 0]
    /\ startRev' = [startRev EXCEPT ![c] = Len(db')]
    /\ \/ /\ looping[c] = "no"
          /\ Leave(c, "done")
       \/ /\ looping[c] = "watch"
          /\ pc' = [pc EXCEPT ![c] = "watching"]
          /\ UpdateWatchers(c)
          /\ woken' = [woken EXCEPT ![c] = revision[c]]
          /\ block' = [block EXCEPT ![c] = TRUE]
          /\ UNCHANGED <<bodyVars, queue>>
       \/ /\ looping[c] = "now"
          /\ Reset(c)
          /\ UNCHANGED <<pc, watchVars>>

(* commit() without updates does not verify what was read.                  *)
CommitEmpty(c) ==
    /\ pc[c] = "body"
    /\ ~HasUpdates(c)
    /\ callbacks' = [callbacks EXCEPT ![c] = KeptCallbacks(c)]
    /\ UNCHANGED storeVars
    /\ AfterSuccess(c)

CanCommit(c) ==
    /\ pc[c] = "body"
    /\ HasUpdates(c)
    /\ Verified(c)

(* etcd performs the updates in one revision.                               *)
ApplyUpdates(c) ==
    /\ CanCommit(c)
    /\ LeasesValid(c)
    /\ CanWrite
    /\ db' = Write(db, updates[c])
    /\ UNCHANGED lease

CommitSucceeds(c) ==
    /\ ApplyUpdates(c)
    /\ callbacks' = [callbacks EXCEPT ![c] = {}]
    /\ AfterSuccess(c)

(* The updates were performed, but the answer of etcd is lost, or the       *)
(* process dies or a callback raises before commit() returns: the exception *)
(* leaves the for loop.  (Updates that are not performed: see Raise.)       *)
CommitUnanswered(c) ==
    /\ ApplyUpdates(c)
    /\ Leave(c, "raised")
    /\ UNCHANGED roundVars

(* The commit failed: try again, or give up with a RuntimeError.            *)
CommitFails(c) ==
    /\ pc[c] = "body"
    /\ HasUpdates(c)
    /\ ~Verified(c)
    /\ retries' = [retries EXCEPT ![c] = @ + 1]
    /\ callbacks' = [callbacks EXCEPT ![c] = {}]
    /\ \/ /\ retries[c] < MaxRetries
          /\ Reset(c)
          /\ UNCHANGED <<pc, watchVars>>
       \/ /\ retries[c] >= MaxRetries
          /\ Leave(c, "exhausted")
    /\ UNCHANGED <<storeVars, startRev>>

(* etcd refuses a put under a lease that has expired; the client library    *)
(* turns that into an exception.                                            *)
CommitLeaseGone(c) ==
    /\ CanCommit(c)
    /\ ~LeasesValid(c)
    /\ Leave(c, "raised")
    /\ UNCHANGED <<roundVars, storeVars>>

(* A new transaction object, txn().                                         *)
NewTxn(c) ==
    /\ pc[c] \in {"done", "raised", "exhausted"}
    /\ pc' = [pc EXCEPT ![c] = "body"]
    /\ retries' = [retries EXCEPT ![c] = 0]
    /\ callbacks' = [callbacks EXCEPT ![c] = {}]
    /\ startRev' = [startRev EXCEPT ![c] = Len(db)]
    /\ UNCHANGED <<bodyVars, storeVars, watchVars>>

-----------------------------------------------------------------------------
(* Watching.  A watcher delivers the events of its range in the order of    *)
(* their revisions, starting with the revision it was given, and puts them  *)
(* on the queue that the watchers of the transaction share.                 *)
EventsAt(w, r) == Changed(db, r) \intersect WatchRange(w)

Deliver(c, w) ==
    /\ watchers[c][w] # NotWatching
    /\ \E r \in watchers[c][w] .. Revision(db) :
        /\ EventsAt(w, r) # {}
        /\ \A s \in watchers[c][w] .. r - 1 : EventsAt(w, s) = {}
        /\ \E n \in [1 .. Cardinality(EventsAt(w, r)) -> EventsAt(w, r)] :
            /\ \A i, j \in DOMAIN n : n[i] = n[j] => i = j
            /\ queue' = [queue EXCEPT ![c] = @ \o
                 [i \in DOMAIN n |->
                    [key |-> n[i], value |-> KVAt(r, n[i]).value, rev |-> r]]]
        /\ watchers' = [watchers EXCEPT ![c][w] = r + 1]
    /\ UNCHANGED <<pc, bodyVars, roundVars, storeVars, woken, block>>

RelevantIfListed(c, e) ==
    getQ[c][e.key] # Unread \/ \E q \in Listed(c) : e.key \in Covers[q]

RelevantUnlessCreated(c, e) ==
    getQ[c][e.key] # Unread \/ \E q \in Listed(c) : e.key \in Covers[q] /\ e.value = None

(* Is this the change of a value read, or of the membership of a range?     *)
Relevant(c, e) ==
    \/ getQ[c][e.key] # Unread
    \/ \E q \in Listed(c) : /\ e.key \in Covers[q]
                            /\ e.value = None \/ e.key \notin listQ[c][q]

(* One turn of the loop of watch().  Without reads there is no revision to  *)
(* compare an event left from an earlier attempt with: AttributeError.      *)
TakeEvent(c) ==
    /\ pc[c] = "watching"
    /\ revision[c] # NoRev
    /\ queue[c] # <<>>
    /\ queue' = [queue EXCEPT ![c] = Tail(@)]
    /\ LET e == Head(queue[c])
           news == e.rev > woken[c] /\ Relevant(c, e)
       IN  /\ woken' = [woken EXCEPT ![c] = IF news THEN e.rev ELSE @]
           /\ block' = [block EXCEPT ![c] = IF news THEN FALSE ELSE @]
    /\ UNCHANGED <<pc, bodyVars, roundVars, storeVars, watchers>>

TakeEventWithoutReads(c) ==
    /\ pc[c] = "watching"
    /\ revision[c] = NoRev
    /\ queue[c] # <<>>
    /\ Leave(c, "raised")
    /\ UNCHANGED <<roundVars, storeVars>>

(* The queue is empty: return when something was found or the time is up.   *)
Return(c) ==
    /\ pc[c] = "watching"
    /\ queue[c] = <<>>
    /\ pc' = [pc EXCEPT ![c] = "body"]
    /\ Reset(c)
    /\ woken' = [woken EXCEPT ![c] = NoRev]
    /\ block' = [block EXCEPT ![c] = TRUE]
    /\ UNCHANGED <<roundVars, storeVars, watchers, queue>>

WakeUp(c) == ~block[c] /\ Return(c)

TimeOut(c) == block[c] /\ timed[c] /\ Return(c)

Watch(c) == TakeEvent(c) \/ TakeEventWithoutReads(c) \/ WakeUp(c) \/ TimeOut(c)

-----------------------------------------------------------------------------
Commit(c) ==
    \/ CommitEmpty(c)
    \/ CommitSucceeds(c)
    \/ CommitUnanswered(c)
    \/ CommitFails(c)
    \/ CommitLeaseGone(c)

Client(c) == Body(c) \/ Commit(c) \/ NewTxn(c) \/ Watch(c)

Next ==
    \/ Direct /\ UNCHANGED txnVars
    \/ \E c \in Clients : Client(c)
    \/ \E c \in Clients, w \in WatchIds : Deliver(c, w)

Spec == Init /\ [][Next]_vars

(* Watch events arrive, and the thread that waits for them takes them.      *)
FairSpec ==
    /\ Spec
    /\ \A c \in Clients :
        /\ WF_vars(TakeEvent(c))
        /\ WF_vars(WakeUp(c))
        /\ \A w \in WatchIds : WF_vars(Deliver(c, w))

-----------------------------------------------------------------------------
(* What transactions promise.                                               *)

(* Everything the attempt of c has read is what the snapshot d holds.       *)
ReadsHold(c, d) ==
    /\ \A k \in Keys : getQ[c][k] # Unread => getQ[c][k] = d[k]
    /\ \A q \in Queries :
         listQ[c][q] # Unread => listQ[c][q] = {k \in Covers[q] : Exists(d[k])}

(* An attempt reads a consistent snapshot: whatever was written while its   *)
(* body ran, there is one revision, not older than the start of the round   *)
(* of attempts, at which all of its reads hold.                             *)
SnapshotReads ==
    \A c \in Clients : pc[c] = "body" =>
        \E r \in startRev[c] .. Len(db) : ReadsHold(c, db[r])

(* Commits are serializable: when the updates of a transaction are applied, *)
(* all it has read and listed, and hence all it has concluded from it,      *)
(* still holds in the very state the updates apply to.  No update of        *)
(* another client between the reads and the commit is lost, and no key has  *)
(* entered or left a listed range.                                          *)
SerializableCommit ==
    [][\A c \in Clients : ApplyUpdates(c) => ReadsHold(c, Current(db))]_vars

(* The reads of c are affected by what happened at revision r.              *)
Affected(c, r) ==
    \/ \E k \in Changed(db, r) : getQ[c][k] # Unread
    \/ \E q \in Listed(c) : Covers[q] \intersect Flips(db, r) # {}

(* No commit fails without a cause: since the snapshot that was read,       *)
(* another client has written a key that was read, or a key of a listed     *)
(* range has been created or deleted.  In particular, a mere update of a    *)
(* listed key does not disturb a transaction that did not read its value.   *)
ConflictHasCause ==
    [][\A c \in Clients : CommitFails(c) =>
        \E r \in revision[c] + 1 .. Len(db) : Affected(c, r)]_vars

(* The retries of a transaction are paid for by others: to use up n retries *)
(* since its last success it takes n revisions written meanwhile.  So       *)
(* "Transaction did not succeed after {} retries!" is never raised by a     *)
(* client that runs alone, and of clients in conflict one always succeeds.  *)
RetriesNeedContention ==
    \A c \in Clients : startRev[c] + retries[c] <= Len(db)

(* on_commit: "additional side-effects to a transaction that are guaranteed *)
(* to not get duplicated".  A commit that is about to run its callbacks has *)
(* those of one turn of the body only.                                      *)
SideEffectsNotDuplicated ==
    \A c \in Clients : CanCommit(c) => callbacks[c] # {"this", "earlier"}

(* watch: "block until one of the values read changes".  It does not return *)
(* early because of events of old watchers, of updates it has read already, *)
(* or of values it only listed the keys of.                                 *)
NoSpuriousWakeUp ==
    \A c \in Clients : pc[c] = "watching" /\ ~block[c] =>
        \E r \in revision[c] + 1 .. Len(db) : Affected(c, r)

(* The event that tells c of the change of k at revision r is on the queue, *)
(* or a watcher of its range has yet to deliver it.                         *)
EventOf(k, r) == [key |-> k, value |-> KVAt(r, k).value, rev |-> r]

Queued(c, e) == \E i \in 1 .. Len(queue[c]) : queue[c][i] = e

OnItsWay(c, e) ==
    \/ Queued(c, e)
    \/ \E w \in WatchIds : watchers[c][w] \in 1 .. e.rev /\ e.key \in WatchRange(w)

(* watch never forgets a change of what the transaction has read: while it  *)
(* blocks although there was one, an event that will wake it is queued or   *)
(* still to be delivered.  So also when the change happened between the     *)
(* reads and the start of the watchers, when the watchers and the queue are *)
(* left from an earlier turn of the loop, when the key changed again since, *)
(* or when a new listed range has taken over a watcher's keys.              *)
NoChangeForgotten ==
    \A c \in Clients :
        /\ pc[c] = "watching"
        /\ block[c]
        /\ \E r \in revision[c] + 1 .. Len(db) : Affected(c, r)
        => \E r \in revision[c] + 1 .. Len(db) : \E k \in Changed(db, r) :
              Relevant(c, EventOf(k, r)) /\ OnItsWay(c, EventOf(k, r))

(* watch never sleeps through a change of what the transaction has read,    *)
(* also when it happened between the reads and the start of the watchers,   *)
(* or when the watchers are left from an earlier turn of the loop.          *)
NoMissedWakeUp ==
    \A c \in Clients :
        (pc[c] = "watching" /\ \E r \in revision[c] + 1 .. Len(db) : Affected(c, r))
            ~> pc[c] # "watching"

(* The transactions of this module are transactions on a store of values.   *)
ValueRead(c, k) == IF getQ[c][k] = Unread THEN Unread ELSE getQ[c][k].value
ValueStaged(c, k) == IF updates[c][k] = NoUpdate THEN NoUpdate ELSE updates[c][k].value
Status(c) ==
    CASE pc[c] = "body" -> "body"
      [] pc[c] \in {"done", "watching"} -> "done"
      [] pc[c] \in {"raised", "exhausted"} -> "failed"

Atomic == INSTANCE AtomicStore WITH
    Values    <- Vals,
    Missing   <- None,
    Untouched <- NoUpdate,
    store     <- [k \in Keys |-> Current(db)[k].value],
    status    <- [c \in Clients |-> Status(c)],
    read      <- [c \in Clients |-> [k \in Keys |-> ValueRead(c, k)]],
    listed    <- listQ,
    staged    <- [c \in Clients |-> [k \in Keys |-> ValueStaged(c, k)]]

(* Etcd3.txn: a transaction, although it is a series of requests with those *)
(* of others between them, is a single step: what it has read holds when    *)
(* its updates are made, all of them are, and an attempt that fails, raises *)
(* or dies makes none.                                                      *)
ImplementsAtomicStore == Atomic!Spec
=============================================================================
