-------------------------------- MODULE Leases --------------------------------
(***************************************************************************)
(* What the ownership of processing blocks promises: a holder takes a      *)
(* block that nobody holds, once in the life of its lease, and works only  *)
(* on the block it has taken.  It loses the block when its lease ends, and *)
(* never to another holder; but it may not notice at once, and go on.      *)
(***************************************************************************)
CONSTANTS
    Blocks,
    Holders,
    Nobody,
    Revocable  \* whether somebody else may take a block away

VARIABLES
    holder,  \* holder[b]: who holds b, or Nobody
    alive,   \* the holders with a lease
    work     \* work[h]: the block that h works on, or Nobody

vars == <<holder, alive, work>>

Init ==
    /\ holder = [b \in Blocks |-> Nobody]
    /\ alive = {}
    /\ work = [h \in Holders |-> Nobody]

(* The holder goes on to work on the block, or ends with its lease alive.   *)
Take(h, b) ==
    /\ holder[b] = Nobody
    /\ h \notin alive
    /\ work[h] = Nobody
    /\ holder' = [holder EXCEPT ![b] = h]
    /\ alive' = alive \union {h}
    /\ work' \in {work, [work EXCEPT ![h] = b]}

Stop(h) ==
    /\ work[h] # Nobody
    /\ work' = [work EXCEPT ![h] = Nobody]
    /\ UNCHANGED <<holder, alive>>

LeaseEnds(h) ==
    /\ h \in alive
    /\ alive' = alive \ {h}
    /\ holder' = [b \in Blocks |-> IF holder[b] = h THEN Nobody ELSE holder[b]]
    /\ UNCHANGED work

Revoke(b) ==
    /\ Revocable
    /\ holder' = [holder EXCEPT ![b] = Nobody]
    /\ UNCHANGED <<alive, work>>

Next ==
    \/ \E h \in Holders, b \in Blocks : Take(h, b)
    \/ \E h \in Holders : Stop(h) \/ LeaseEnds(h)
    \/ \E b \in Blocks : Revoke(b)

Spec == Init /\ [][Next]_vars
=============================================================================
