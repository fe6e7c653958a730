----------------------------- MODULE Configuration -----------------------------
(***************************************************************************)
(* The configuration database as the services see it through the Config    *)
(* and Transaction classes of config_db/ska_sdp_config/config.py.          *)
(*                                                                         *)
(* A transaction is one atomic step here, and one that raises Collision is *)
(* the absence of the step (the caller's reaction is an action of the      *)
(* caller): this is what the theorems Serializability and                  *)
(* SnapshotIsolation of Etcd3TransactionProofs justify.                    *)
(*                                                                         *)
(* The id of a deployment is the id of a processing block and a name,      *)
(* joined by '-'.                                                          *)
(***************************************************************************)
EXTENDS Naturals

CONSTANTS
    PBs,        \* processing block ids
    Workflows,  \* what the workflow entry of a block may name
    Names,      \* second parts of deployment ids
    Engine,     \* the arguments of a deployment made by a workflow
    Extensions, \* Extensions[n]: the names that n is a proper prefix of
    Processes,  \* the processes that may claim a block
    None        \* no entry

ASSUME ConfigurationAssumption ==
    /\ None \notin Workflows \union {Engine} \union Processes
    /\ Extensions \in [Names -> SUBSET Names]

VARIABLES
    pb,     \* pb[b]: the workflow of the block at /pb/b
    owner,  \* owner[b]: the process that /pb/b/owner identifies
    dep,    \* dep[d]: the arguments of the deployment at /deploy/d
    live    \* the processes whose client lease is alive

configVars == <<pb, owner, dep, live>>

DeployIds == PBs \X Names
Args == Workflows \union {Engine}

ConfigTypeOK ==
    /\ pb \in [PBs -> Workflows \union {None}]
    /\ owner \in [PBs -> Processes \union {None}]
    /\ dep \in [DeployIds -> Args \union {None}]
    /\ live \subseteq Processes

ConfigInit ==
    /\ pb = [b \in PBs |-> None]
    /\ owner = [b \in PBs |-> None]
    /\ dep = [d \in DeployIds |-> None]
    /\ live = {}

-----------------------------------------------------------------------------
(* get_pb_id_from_deploy_id                                                 *)
PbOf(d) == d[1]

Deployments == {d \in DeployIds : dep[d] # None}

CreateProcessingBlock(b, w) ==
    /\ pb[b] = None
    /\ pb' = [pb EXCEPT ![b] = w]
    /\ UNCHANGED <<owner, dep, live>>

(* Mistaken variants, named for their mistake, precede some definitions.    *)
DeleteWithOwner(b, recursive) ==
    /\ pb[b] # None
    /\ pb' = [pb EXCEPT ![b] = None]
    /\ owner' = [owner EXCEPT ![b] = None]
    /\ UNCHANGED <<dep, live>>

(* sdpcfg delete [-R] /pb/b.  Without -R the owner stays.                   *)
DeleteProcessingBlock(b, recursive) ==
    /\ pb[b] # None \/ (recursive /\ owner[b] # None)
    /\ pb' = [pb EXCEPT ![b] = None]
    /\ owner' = [owner EXCEPT ![b] = IF recursive THEN None ELSE @]
    /\ UNCHANGED <<dep, live>>

(* Mistaken: the owner entry does not expire; the block is taken from others. *)
ClaimWithoutLease(b, p) ==
    /\ owner[b] = None
    /\ owner' = [owner EXCEPT ![b] = p]
    /\ UNCHANGED <<pb, dep, live>>

ClaimByUpdate(b, p) ==
    /\ owner' = [owner EXCEPT ![b] = p]
    /\ live' = live \union {p}
    /\ UNCHANGED <<pb, dep>>

(* take_processing_block under the client lease.  The block itself need not *)
(* exist.                                                                   *)
TakeProcessingBlock(b, p) ==
    /\ owner[b] = None
    /\ owner' = [owner EXCEPT ![b] = p]
    /\ live' = live \union {p}
    /\ UNCHANGED <<pb, dep>>

IsProcessingBlockOwner(b, p) == pb[b] # None /\ owner[b] = p

(* The client lease of p is revoked by close(), or expires.                 *)
EndLease(p) ==
    /\ live' = live \ {p}
    /\ owner' = [b \in PBs |-> IF owner[b] = p /\ p \in live THEN None ELSE owner[b]]
    /\ UNCHANGED <<pb, dep>>

CreateDeploymentById(d, a) ==
    /\ dep[d] = None
    /\ dep' = [dep EXCEPT ![d] = d]
    /\ UNCHANGED <<pb, owner, live>>

CreateDeployment(d, a) ==
    /\ dep[d] = None
    /\ dep' = [dep EXCEPT ![d] = a]
    /\ UNCHANGED <<pb, owner, live>>

(* What delete_deployment(d) deletes: all entries whose id begins with d.   *)
DataOf(d) == {d} \union {<<PbOf(d), n>> : n \in Extensions[d[2]]}

DeleteDeployment(d) ==
    /\ dep' = [e \in DeployIds |-> IF e \in DataOf(d) THEN None ELSE dep[e]]
    /\ UNCHANGED <<pb, owner, live>>
=============================================================================
