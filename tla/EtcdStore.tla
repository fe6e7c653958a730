------------------------------ MODULE EtcdStore ------------------------------
(***************************************************************************)
(* The etcd database as config_db/ska_sdp_config/backend.py uses it: a     *)
(* multi-version key-value store.  etcd itself is not part of the          *)
(* repository; this module states the behaviour the backend relies on.     *)
(*                                                                         *)
(* A database is the sequence of its snapshots, one per revision: db[r]    *)
(* maps every key to its state at revision r, so that a read "at revision  *)
(* r" is db[r] and the current state is db[Len(db)].  A key that does not  *)
(* exist has the key-value NoKV, whose revisions are 0: this is what etcd  *)
(* compares a missing key with.                                            *)
(***************************************************************************)
EXTENDS Naturals, Sequences

CONSTANTS
    Keys,      \* database keys (depth-tagged paths)
    Vals,      \* the values written
    Leases,    \* lease identifiers
    None,      \* Python's None: no value
    NoLease,   \* lease id 0: the key does not expire
    NoUpdate   \* a key that a write does not touch

ASSUME StoreAssumption ==
    /\ None \notin Vals
    /\ NoLease \notin Leases
    /\ NoUpdate \notin [value : Vals \union {None}, lease : Leases \union {NoLease}]

-----------------------------------------------------------------------------
(* What etcd stores for a key; versions are only ever compared with 0, so   *)
(* the version is abstracted to the existence of the key.                   *)
KV == [value : Vals \union {None}, create : Nat, mod : Nat,
       lease : Leases \union {NoLease}]

NoKV == [value |-> None, create |-> 0, mod |-> 0, lease |-> NoLease]

Exists(kv) == kv.mod # 0

Revision(d) == Len(d)

Current(d) == d[Len(d)]

(* One request of an etcd transaction: put a value under a lease, or delete *)
(* (value None).                                                            *)
Update == [value : Vals \union {None}, lease : Leases \union {NoLease}]

Put(v, l) == [value |-> v, lease |-> l]

Delete == [value |-> None, lease |-> NoLease]

(* A put on an existing key keeps its create revision; without a lease it   *)
(* detaches the key from the lease it had.                                  *)
Updated(kv, u, rev) ==
    IF u = NoUpdate THEN kv
    ELSE IF u.value = None THEN NoKV
    ELSE [value  |-> u.value,
          create |-> IF Exists(kv) THEN kv.create ELSE rev,
          mod    |-> rev,
          lease  |-> u.lease]

(* The state after a transaction that performs the updates w at once.       *)
After(d, w) == [k \in Keys |-> Updated(Current(d)[k], w[k], Len(d) + 1)]

(* A transaction that touches no key (it deletes keys that do not exist)    *)
(* does not create a revision.                                              *)
Write(d, w) == IF After(d, w) = Current(d) THEN d ELSE Append(d, After(d, w))

(* Revocation or expiry of a lease deletes its keys in one revision.        *)
LeaseKeys(d, l) == {k \in Keys : Exists(Current(d)[k]) /\ Current(d)[k].lease = l}

DeleteKeys(ks) == [k \in Keys |-> IF k \in ks THEN Delete ELSE NoUpdate]

(* The keys with a watch event at revision r.                               *)
Changed(d, r) == {k \in Keys : d[r][k] # IF r = 1 THEN NoKV ELSE d[r - 1][k]}

(* The keys that are created or deleted at revision r.                      *)
Flips(d, r) == {k \in Keys : ~(Exists(d[r][k]) <=> (r > 1 /\ Exists(d[r - 1][k])))}

-----------------------------------------------------------------------------
Snapshots == [Keys -> KV]

(* A database that already holds the keys ks.                               *)
Populated(ks, v) ==
    << [k \in Keys |-> IF k \in ks
                       THEN [value |-> v, create |-> 1, mod |-> 1, lease |-> NoLease]
                       ELSE NoKV] >>
=============================================================================
