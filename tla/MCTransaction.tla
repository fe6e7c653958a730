---------------------------- MODULE MCTransaction ----------------------------
(* Small instances of Etcd3Transaction for TLC.                             *)
EXTENDS Etcd3Transaction, TLC

CONSTANTS k1, k2, qAll, v1, l1, c1, c2

MCCovers == [q \in {qAll} |-> {k1, k2}]
MCCoversNone == [q \in {} |-> {}]
MCListCalls == {{qAll}}

(* Deletes of one key; and keys of which k1 is a prefix of k2.              *)
MCFlat == [k \in Keys |-> {{k}}]
MCNested == [k \in Keys |-> IF k = k1 THEN {{k1}, {k1, k2}} ELSE {{k}}]

Symmetry == Permutations(Clients) \union Permutations(Keys)
=============================================================================
