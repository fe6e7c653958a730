----------------------------- MODULE AtomicStore -----------------------------
(***************************************************************************)
(* What transactions promise to those who write them: a store of values    *)
(* without revisions, in which a transaction takes place at once.  At that *)
(* moment everything it has read and listed is what the store holds, so    *)
(* that its whole body may as well have run then, and all of its updates   *)
(* are made; until then, or if that moment never comes, none is.           *)
(***************************************************************************)
CONSTANTS
    Clients,   \* those who run transactions
    Keys,
    Values,    \* what a key may have
    Missing,   \* the value of a key that does not exist
    Queries,   \* the ranges that are listed
    Covers,    \* Covers[q]: the keys of the range q
    Unread,    \* a key or range that the transaction has not read
    Untouched  \* a key that the transaction does not update

VARIABLES
    store,     \* the value of every key
    status,    \* status[c]: "body" of a transaction, "done" or "failed"
    read,      \* read[c][k]: the value that c has read
    listed,    \* listed[c][q]: the keys of the range that c has seen
    staged     \* staged[c][k]: the value that c is going to write

clientVars == <<status, read, listed, staged>>
vars == <<store, clientVars>>

Stores == [Keys -> Values \union {Missing}]

Init ==
    /\ store \in Stores
    /\ status = [c \in Clients |-> "body"]
    /\ read = [c \in Clients |-> [k \in Keys |-> Unread]]
    /\ listed = [c \in Clients |-> [q \in Queries |-> Unread]]
    /\ staged = [c \in Clients |-> [k \in Keys |-> Untouched]]

Only(c) ==
    \A o \in Clients \ {c} :
        /\ status'[o] = status[o]
        /\ read'[o] = read[o]
        /\ listed'[o] = listed[o]
        /\ staged'[o] = staged[o]

Updates(c) == {k \in Keys : staged[c][k] # Untouched}

(* A call of the body, an attempt given up, or a new transaction: it is not *)
(* done with updates that have not been made.                               *)
Work(c) ==
    /\ status[c] = "body" /\ status'[c] = "done" => Updates(c) = {}
    /\ Only(c)
    /\ UNCHANGED store

ReadsAreCurrent(c) ==
    /\ \A k \in Keys : read[c][k] # Unread => read[c][k] = store[k]
    /\ \A q \in Queries :
         listed[c][q] # Unread => listed[c][q] = {k \in Covers[q] : store[k] # Missing}

Commit(c) ==
    /\ status[c] = "body"
    /\ ReadsAreCurrent(c)
    /\ store' = [k \in Keys |-> IF k \in Updates(c) THEN staged[c][k]
                                                   ELSE store[k]]
    /\ Only(c)

(* Writes without a transaction, and keys whose lease has expired.          *)
Outside ==
    /\ store' \in Stores
    /\ UNCHANGED clientVars

Next ==
    \/ \E c \in Clients : Work(c) \/ Commit(c)
    \/ Outside

Spec == Init /\ [][Next]_vars
=============================================================================
