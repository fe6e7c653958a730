---------------------------- MODULE EtcdStoreProofs ----------------------------
(***************************************************************************)
(* What every database that grows by Write has in common.  The lemmas of   *)
(* this module are about the history of one key; transactions rely on them *)
(* to conclude from revision numbers that nothing has happened.            *)
(***************************************************************************)
EXTENDS EtcdStore, TLAPS

Writes == [Keys -> Update \union {NoUpdate}]

(* The revisions of a key-value lie in order, up to the snapshot's own.     *)
WellFormed(d) ==
    \A i \in 1 .. Len(d), k \in Keys :
        \/ d[i][k] = NoKV
        \/ /\ d[i][k].value \in Vals
           /\ 1 <= d[i][k].create /\ d[i][k].create <= d[i][k].mod /\ d[i][k].mod <= i

(* A key-value is the one that was written at its mod revision.             *)
WrittenAtMod(d) ==
    \A i \in 1 .. Len(d), k \in Keys :
        Exists(d[i][k]) => d[d[i][k].mod][k] = d[i][k]

(* A key exists without interruption since its create revision, and did not *)
(* exist just before it.                                                    *)
AliveSinceCreate(d) ==
    \A i \in 1 .. Len(d), k \in Keys :
        Exists(d[i][k]) =>
            /\ \A j \in d[i][k].create .. i : Exists(d[j][k])
            /\ d[i][k].create > 1 => ~Exists(d[d[i][k].create - 1][k])

(* Two snapshots that differ in a key have a change of it between them, and *)
(* a creation or deletion if they differ in its existence.                  *)
ChangesTraced(d) ==
    \A i, j \in 1 .. Len(d), k \in Keys : i < j =>
        /\ d[i][k] # d[j][k] => \E r \in i + 1 .. j : k \in Changed(d, r)
        /\ ~(Exists(d[i][k]) <=> Exists(d[j][k])) => \E r \in i + 1 .. j : k \in Flips(d, r)

(* A key that exists and later does not was deleted in between.             *)
DeletionsTraced(d) ==
    \A i, j \in 1 .. Len(d), k \in Keys :
        i < j /\ Exists(d[i][k]) /\ ~Exists(d[j][k]) =>
            \E r \in i + 1 .. j : k \in Changed(d, r) /\ ~Exists(d[r][k])

History(d) ==
    /\ d \in Seq(Snapshots)
    /\ Len(d) > 0
    /\ WellFormed(d)
    /\ WrittenAtMod(d)
    /\ AliveSinceCreate(d)
    /\ ChangesTraced(d)
    /\ DeletionsTraced(d)

-----------------------------------------------------------------------------
(* A write leaves the database as it is or adds one snapshot.               *)
LEMMA WriteCases ==
    ASSUME NEW d \in Seq(Snapshots), Len(d) > 0, NEW w \in Writes
    PROVE  /\ After(d, w) \in Snapshots
           /\ \/ Write(d, w) = d
              \/ Write(d, w) = Append(d, After(d, w))
<1>1. Current(d) \in Snapshots
  BY DEF Current
<1>2. ASSUME NEW k \in Keys
      PROVE  Updated(Current(d)[k], w[k], Len(d) + 1) \in KV
  <2>1. Current(d)[k] \in KV
    BY <1>1 DEF Snapshots
  <2>2. w[k] = NoUpdate \/ w[k] \in Update
    BY DEF Writes
  <2>3. NoKV \in KV
    BY DEF NoKV, KV
  <2> QED
    BY <2>1, <2>2, <2>3 DEF Updated, KV, Update, Exists
<1>3. After(d, w) \in Snapshots
  BY <1>2 DEF After, Snapshots
<1> QED
  BY <1>3 DEF Write

(* What a write does to one key.                                            *)
LEMMA UpdatedKey ==
    ASSUME NEW d \in Seq(Snapshots), Len(d) > 0, NEW w \in Writes, NEW k \in Keys
    PROVE  LET old == Current(d)[k]
               new == After(d, w)[k]
           IN  \/ new = old
               \/ new = NoKV
               \/ /\ new.mod = Len(d) + 1
                  /\ new.value \in Vals
                  /\ new.create = IF Exists(old) THEN old.create ELSE Len(d) + 1
<1> DEFINE old == Current(d)[k]
           u == w[k]
           new == After(d, w)[k]
<1>1. new = Updated(old, u, Len(d) + 1)
  BY DEF After
<1>2. CASE u = NoUpdate
  BY <1>1, <1>2 DEF Updated
<1>3. CASE u # NoUpdate /\ u.value = None
  BY <1>1, <1>3 DEF Updated
<1>4. CASE u # NoUpdate /\ u.value # None
  <2>1. new = [value |-> u.value, create |-> IF Exists(old) THEN old.create ELSE Len(d) + 1,
               mod |-> Len(d) + 1, lease |-> u.lease]
    BY <1>1, <1>4 DEF Updated
  <2>2. u.value \in Vals
    BY <1>4 DEF Writes, Update
  <2> QED
    BY <2>1, <2>2
<1> QED
  BY <1>2, <1>3, <1>4

(* Writing keeps the history in order.                                      *)
LEMMA WriteKeepsHistory ==
    ASSUME NEW d, History(d), NEW w \in Writes
    PROVE  History(Write(d, w))
<1> DEFINE n == Len(d)
           s == After(d, w)
           e == Append(d, s)
<1>1. d \in Seq(Snapshots) /\ n \in Nat /\ n > 0
  BY DEF History
<1>2. s \in Snapshots
  BY <1>1, WriteCases
<1>3. e \in Seq(Snapshots) /\ Len(e) = n + 1
  BY <1>1, <1>2
<1>4. \A i \in 1 .. n : e[i] = d[i]
  BY <1>1, <1>2
<1>5. e[n + 1] = s /\ Current(d) = e[n]
  BY <1>1, <1>2, <1>4 DEF Current
<1>6. ASSUME NEW k \in Keys
      PROVE  \/ s[k] = e[n][k]
             \/ s[k] = NoKV
             \/ /\ s[k].mod = n + 1
                /\ s[k].value \in Vals
                /\ s[k].create = IF Exists(e[n][k]) THEN e[n][k].create ELSE n + 1
  BY <1>1, <1>5, UpdatedKey
<1> HIDE DEF e, s
<1>7. \A i \in 1 .. n, k \in Keys :
         \/ e[i][k] = NoKV
         \/ /\ e[i][k].value \in Vals
            /\ e[i][k].create \in Nat /\ e[i][k].mod \in Nat
            /\ 1 <= e[i][k].create /\ e[i][k].create <= e[i][k].mod /\ e[i][k].mod <= i
  <2>1. \A i \in 1 .. n, k \in Keys : d[i][k] \in KV
    BY <1>1 DEF Snapshots
  <2> QED
    BY <1>4, <2>1 DEF History, WellFormed, KV
<1>8. ~Exists(NoKV)
  BY DEF NoKV, Exists
<1>9. WellFormed(e)
  <2> SUFFICES ASSUME NEW i \in 1 .. n + 1, NEW k \in Keys
               PROVE  \/ e[i][k] = NoKV
                      \/ /\ e[i][k].value \in Vals
                         /\ 1 <= e[i][k].create /\ e[i][k].create <= e[i][k].mod
                         /\ e[i][k].mod <= i
    BY <1>3 DEF WellFormed
  <2>1. CASE i \in 1 .. n
    BY <2>1, <1>7
  <2>2. CASE i = n + 1
    <3>1. n \in 1 .. n /\ e[i][k] = s[k]
      BY <2>2, <1>1, <1>5
    <3>2. \/ e[n][k] = NoKV
          \/ /\ e[n][k].value \in Vals
             /\ e[n][k].create \in Nat /\ e[n][k].mod \in Nat
             /\ 1 <= e[n][k].create /\ e[n][k].create <= e[n][k].mod /\ e[n][k].mod <= n
      BY <3>1, <1>7
    <3> QED
      BY <2>2, <3>1, <3>2, <1>1, <1>6, <1>8
  <2> QED
    BY <2>1, <2>2, <1>1
<1>10. WrittenAtMod(e)
  <2> SUFFICES ASSUME NEW i \in 1 .. n + 1, NEW k \in Keys, Exists(e[i][k])
               PROVE  e[e[i][k].mod][k] = e[i][k]
    BY <1>3 DEF WrittenAtMod
  <2>1. ASSUME NEW j \in 1 .. n, Exists(e[j][k])
        PROVE  e[e[j][k].mod][k] = e[j][k]
    <3>1. e[j][k].mod \in 1 .. n
      BY <2>1, <1>7, <1>8
    <3>2. d[d[j][k].mod][k] = d[j][k]
      BY <2>1, <1>4 DEF History, WrittenAtMod
    <3> QED
      BY <3>1, <3>2, <1>4
  <2>2. CASE i \in 1 .. n
    BY <2>1, <2>2
  <2>3. CASE i = n + 1
    <3>1. CASE s[k] = e[n][k]
      <4>1. e[i][k] = e[n][k] /\ n \in 1 .. n
        BY <2>3, <3>1, <1>1, <1>5
      <4> QED
        BY <4>1, <2>1
    <3>2. CASE s[k].mod = n + 1
      BY <2>3, <3>2, <1>5
    <3> QED
      BY <2>3, <3>1, <3>2, <1>5, <1>6, <1>8
  <2> QED
    BY <2>2, <2>3, <1>1
<1>11. AliveSinceCreate(e)
  <2> SUFFICES ASSUME NEW i \in 1 .. n + 1, NEW k \in Keys, Exists(e[i][k])
               PROVE  /\ \A j \in e[i][k].create .. i : Exists(e[j][k])
                      /\ e[i][k].create > 1 => ~Exists(e[e[i][k].create - 1][k])
    BY <1>3 DEF AliveSinceCreate
  <2>1. ASSUME NEW h \in 1 .. n, Exists(e[h][k])
        PROVE  /\ \A j \in e[h][k].create .. h : Exists(e[j][k])
               /\ e[h][k].create > 1 => ~Exists(e[e[h][k].create - 1][k])
    <3>1. e[h][k].create \in 1 .. h
      BY <2>1, <1>7, <1>8
    <3>2. /\ \A j \in d[h][k].create .. h : Exists(d[j][k])
          /\ d[h][k].create > 1 => ~Exists(d[d[h][k].create - 1][k])
      BY <2>1, <1>4 DEF History, AliveSinceCreate
    <3> QED
      BY <3>1, <3>2, <1>4, <1>1
  <2>4. CASE i \in 1 .. n
    BY <2>1, <2>4
  <2>2. CASE i = n + 1 /\ Exists(e[n][k])
    <3>1. e[n + 1][k].create = e[n][k].create
      BY <2>2, <1>1, <1>5, <1>6, <1>8
    <3>2. e[n][k].create \in 1 .. n
      BY <2>2, <1>1, <1>7, <1>8
    <3> QED
      BY <2>1, <2>2, <3>1, <3>2, <1>1
  <2>3. CASE i = n + 1 /\ ~Exists(e[n][k])
    <3>1. e[i][k].create = n + 1
      BY <2>3, <1>1, <1>5, <1>6, <1>8
    <3> QED
      BY <2>3, <3>1, <1>1
  <2> QED
    BY <2>2, <2>3, <2>4, <1>1
<1>12. ChangesTraced(e)
  <2> SUFFICES ASSUME NEW i \in 1 .. n + 1, NEW j \in 1 .. n + 1, NEW k \in Keys, i < j
               PROVE  /\ e[i][k] # e[j][k] => \E r \in i + 1 .. j : k \in Changed(e, r)
                      /\ ~(Exists(e[i][k]) <=> Exists(e[j][k]))
                            => \E r \in i + 1 .. j : k \in Flips(e, r)
    BY <1>3 DEF ChangesTraced
  <2>1. \A r \in 1 .. n : Changed(e, r) = Changed(d, r) /\ Flips(e, r) = Flips(d, r)
    <3> SUFFICES ASSUME NEW r \in 1 .. n
                 PROVE  Changed(e, r) = Changed(d, r) /\ Flips(e, r) = Flips(d, r)
      OBVIOUS
    <3>1. e[r] = d[r] /\ (r # 1 => e[r - 1] = d[r - 1])
      BY <1>1, <1>4
    <3> QED
      BY <3>1 DEF Changed, Flips
  <2>2. ASSUME NEW h \in 1 .. n, i < h
        PROVE  /\ e[i][k] # e[h][k] => \E r \in i + 1 .. h : k \in Changed(e, r)
               /\ ~(Exists(e[i][k]) <=> Exists(e[h][k]))
                     => \E r \in i + 1 .. h : k \in Flips(e, r)
    <3>1. i \in 1 .. n
      BY <2>2, <1>1
    <3>2. /\ d[i][k] # d[h][k] => \E r \in i + 1 .. h : k \in Changed(d, r)
          /\ ~(Exists(d[i][k]) <=> Exists(d[h][k]))
                => \E r \in i + 1 .. h : k \in Flips(d, r)
      BY <2>2, <3>1 DEF History, ChangesTraced
    <3>3. e[i] = d[i] /\ e[h] = d[h]
      BY <3>1, <1>4
    <3> QED
      BY <3>2, <3>3, <2>1, <1>1, <3>1
  <2>3. CASE j = n + 1
    <3>1. e[n][k] # e[n + 1][k] => k \in Changed(e, n + 1)
      BY <1>1 DEF Changed
    <3>2. ~(Exists(e[n][k]) <=> Exists(e[n + 1][k])) => k \in Flips(e, n + 1)
      BY <1>1 DEF Flips
    <3>3. CASE i = n
      BY <2>3, <3>1, <3>2, <3>3, <1>1
    <3>4. CASE i < n
      <4>1. /\ e[i][k] # e[n][k] => \E r \in i + 1 .. n : k \in Changed(e, r)
            /\ ~(Exists(e[i][k]) <=> Exists(e[n][k])) => \E r \in i + 1 .. n : k \in Flips(e, r)
        BY <2>2, <3>4, <1>1
      <4> QED
        BY <2>3, <3>1, <3>2, <4>1, <1>1
    <3> QED
      BY <2>3, <3>3, <3>4, <1>1
  <2> QED
    BY <2>2, <2>3, <1>1
<1>13. DeletionsTraced(e)
  <2> SUFFICES ASSUME NEW i \in 1 .. n + 1, NEW j \in 1 .. n + 1, NEW k \in Keys,
                      i < j, Exists(e[i][k]), ~Exists(e[j][k])
               PROVE  \E r \in i + 1 .. j : k \in Changed(e, r) /\ ~Exists(e[r][k])
    BY <1>3 DEF DeletionsTraced
  <2>1. ASSUME NEW h \in 1 .. n, i < h, ~Exists(e[h][k])
        PROVE  \E r \in i + 1 .. h : k \in Changed(e, r) /\ ~Exists(e[r][k])
    <3>1. i \in 1 .. n /\ d[i] = e[i] /\ d[h] = e[h]
      BY <2>1, <1>1, <1>4
    <3>2. PICK r \in i + 1 .. h : k \in Changed(d, r) /\ ~Exists(d[r][k])
      BY <2>1, <3>1 DEF History, DeletionsTraced
    <3>3. r \in 1 .. n /\ r - 1 \in 1 .. n
      BY <3>1, <1>1
    <3>4. e[r] = d[r] /\ e[r - 1] = d[r - 1]
      BY <3>3, <1>4
    <3> QED
      BY <3>2, <3>4 DEF Changed
  <2>2. CASE j = n + 1 /\ Exists(e[n][k])
    <3>1. k \in Changed(e, n + 1)
      BY <2>2, <1>1 DEF Changed
    <3> QED
      BY <2>2, <3>1, <1>1
  <2>3. CASE j = n + 1 /\ ~Exists(e[n][k])
    <3>1. i < n
      BY <2>3, <1>1
    <3> QED
      BY <2>1, <2>3, <3>1, <1>1
  <2> QED
    BY <2>1, <2>2, <2>3, <1>1
<1> USE DEF e, s
<1>14. History(e)
  BY <1>1, <1>3, <1>9, <1>10, <1>11, <1>12, <1>13 DEF History
<1> QED
  BY <1>1, <1>14, WriteCases

(* A database that starts with some keys has a history of one revision.     *)
LEMMA PopulatedHistory ==
    ASSUME NEW ks \in SUBSET Keys, NEW v \in Vals
    PROVE  History(Populated(ks, v))
<1> DEFINE p == [k \in Keys |-> IF k \in ks
                   THEN [value |-> v, create |-> 1, mod |-> 1, lease |-> NoLease]
                   ELSE NoKV]
           d == Populated(ks, v)
<1>1. d = <<p>> /\ p \in Snapshots
  BY DEF Populated, Snapshots, KV, NoKV
<1>2. d \in Seq(Snapshots) /\ Len(d) = 1 /\ d[1] = p
  BY <1>1
<1>3. \A i \in 1 .. Len(d) : i = 1
  BY <1>2
<1>4. \A k \in Keys : d[1][k] = NoKV \/ d[1][k] =
                        [value |-> v, create |-> 1, mod |-> 1, lease |-> NoLease]
  BY <1>2
<1>5. WellFormed(d) /\ WrittenAtMod(d) /\ AliveSinceCreate(d)
  BY <1>2, <1>3, <1>4 DEF WellFormed, WrittenAtMod, AliveSinceCreate, Exists, NoKV
<1>6. ChangesTraced(d) /\ DeletionsTraced(d)
  BY <1>3 DEF ChangesTraced, DeletionsTraced
<1> QED
  BY <1>2, <1>5, <1>6 DEF History

-----------------------------------------------------------------------------
(* A key that exists now with the mod revision it had at revision r is what *)
(* it was at r; this is what commit relies on to verify a get.              *)
LEMMA SameModSameValue ==
    ASSUME NEW d, History(d), NEW r \in 1 .. Len(d), NEW k \in Keys,
           Exists(d[r][k]), Current(d)[k].mod = d[r][k].mod
    PROVE  Current(d)[k] = d[r][k]
BY DEF History, WrittenAtMod, Current, Exists

(* A key that exists now and was not created after revision r existed at r; *)
(* this is what commit relies on to verify a list.                          *)
LEMMA OldKeyExisted ==
    ASSUME NEW d, History(d), NEW r \in 1 .. Len(d), NEW k \in Keys,
           Exists(Current(d)[k]), Current(d)[k].create < r + 1
    PROVE  Exists(d[r][k])
<1> DEFINE n == Len(d)
<1>1. n \in Nat /\ n >= 1 /\ d[n][k] \in KV
  BY DEF History, Snapshots
<1>2. d[n][k].create \in Nat
  BY <1>1 DEF KV
<1>3. \A j \in d[n][k].create .. n : Exists(d[j][k])
  BY <1>1 DEF History, AliveSinceCreate, Current
<1> QED
  BY <1>1, <1>2, <1>3 DEF Current

(* When nothing has been written since revision r, all is what it was.      *)
LEMMA MissingIsNoKV ==
    ASSUME NEW d, History(d), NEW r \in 1 .. Len(d), NEW k \in Keys, ~Exists(d[r][k])
    PROVE  d[r][k] = NoKV
<1>1. d[r][k] \in KV
  BY DEF History, Snapshots
<1> QED
  BY <1>1 DEF History, WellFormed, Exists, KV
=============================================================================
