----------------------------- MODULE Etcd3Backend -----------------------------
(***************************************************************************)
(* The Etcd3 class of config_db/ska_sdp_config/backend.py: the operations  *)
(* a client performs on the database without a transaction object.  Each   *)
(* is one request to etcd, hence one atomic step.  An operation that       *)
(* raises Collision or Vanished changes nothing: it is the absence of the  *)
(* step.                                                                   *)
(*                                                                         *)
(* A key is a depth-tagged path.  A query is what list_keys asks etcd for  *)
(* one recursion level: a path prefix tagged with a depth; Covers[q] is the *)
(* set of keys with that tagged prefix.  Reach[k] has the sets of keys that *)
(* a delete of path k removes, one for each choice of its options: k, with  *)
(* prefix all keys of its level that begin with k, with recursive also the  *)
(* keys under these, down to max_depth.                                     *)
(***************************************************************************)
EXTENDS EtcdStore

CONSTANTS
    Queries,   \* (path, depth) pairs that are listed
    Covers,     \* Covers[q]: the keys with the tagged prefix of query q
    Reach,     \* Reach[k]: the sets of keys that deletes of k may remove
    DirectKeys,\* the keys that clients without transactions write
    MaxRev     \* bound: no write beyond this database revision

ASSUME BackendAssumption ==
    /\ Covers \in [Queries -> SUBSET Keys]
    /\ Reach \in [Keys -> SUBSET SUBSET Keys]
    /\ DirectKeys \subseteq Keys
    /\ MaxRev \in Nat

VARIABLES
    db,       \* the snapshots of the database, one per revision
    lease     \* lease[l]: "new" (not granted yet), "alive" or "expired"

storeVars == <<db, lease>>

StoreTypeOK ==
    /\ db \in Seq(Snapshots)
    /\ Len(db) > 0
    /\ lease \in [Leases -> {"new", "alive", "expired"}]

CanWrite == Revision(db) < MaxRev

LeaseValid(l) == l = NoLease \/ (l \in Leases /\ lease[l] = "alive")

-----------------------------------------------------------------------------
(* A mistaken variant: get and list_keys do not pass the revision on.       *)
KVAtLatest(r, k) == Current(db)[k]

(* get: the key-value at a revision.                                        *)
KVAt(r, k) == db[r][k]

(* list_keys for one recursion level: the existing keys with the prefix.    *)
KeysAt(r, q) == {k \in Covers[q] : Exists(KVAt(r, k))}

(* lease(): the caller is granted a fresh lease, kept alive by a daemon.    *)
Grant(l) ==
    /\ lease[l] = "new"
    /\ lease' = [lease EXCEPT ![l] = "alive"]
    /\ UNCHANGED db

(* The client died, or could not refresh its lease in time.                 *)
Expire(l) ==
    /\ lease[l] = "alive"
    /\ LeaseKeys(db, l) # {} => CanWrite
    /\ lease' = [lease EXCEPT ![l] = "expired"]
    /\ db' = Write(db, DeleteKeys(LeaseKeys(db, l)))

OneUpdate(k, u) == [j \in Keys |-> IF j = k THEN u ELSE NoUpdate]

DirectCreate(k, v, l) ==
    /\ CanWrite
    /\ ~Exists(Current(db)[k])
    /\ LeaseValid(l)
    /\ db' = Write(db, OneUpdate(k, Put(v, l)))
    /\ UNCHANGED lease

(* update without must_be_rev                                               *)
DirectUpdate(k, v) ==
    /\ CanWrite
    /\ Exists(Current(db)[k])
    /\ db' = Write(db, OneUpdate(k, Put(v, NoLease)))
    /\ UNCHANGED lease

(* update with must_be_rev, the revision that a get at revision r returned  *)
DirectUpdateAt(k, v, r) ==
    /\ Exists(KVAt(r, k))
    /\ Current(db)[k].mod = KVAt(r, k).mod
    /\ DirectUpdate(k, v)

(* delete, with any of its options, in one request.                         *)
DirectDelete(k, mustExist, reached) ==
    /\ CanWrite
    /\ mustExist => Exists(Current(db)[k])
    /\ db' = Write(db, DeleteKeys(reached))
    /\ UNCHANGED lease

(* Anything that happens to the database outside of transactions.           *)
Direct ==
    \/ \E l \in Leases : Grant(l) \/ Expire(l)
    \/ \E k \in DirectKeys, v \in Vals :
        \/ \E l \in Leases \union {NoLease} : DirectCreate(k, v, l)
        \/ DirectUpdate(k, v)
        \/ \E r \in 1 .. Revision(db) : DirectUpdateAt(k, v, r)
    \/ \E k \in DirectKeys, mustExist \in BOOLEAN : \E reached \in Reach[k] :
        DirectDelete(k, mustExist, reached)
=============================================================================
