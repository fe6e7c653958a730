----------------------------- MODULE ControlPlane -----------------------------
(***************************************************************************)
(* The control plane of the SDP: users, the processing controller, the     *)
(* Helm deployer and the workflows, which only share the configuration     *)
(* database and the cluster.                                               *)
(***************************************************************************)
EXTENDS ProcessingController, HelmDeployer, VisReceiveWorkflow

CONSTANTS
    MaxUses,    \* bound: how often users create an entry under the same id
    HandMade,   \* ids of the deployments that users make
    Recursive   \* whether users delete with -R, without, or both

ASSUME UserAssumption ==
    /\ MaxUses \in Nat
    /\ HandMade \subseteq DeployIds
    /\ Recursive \subseteq BOOLEAN

VARIABLE uses   \* uses[i]: how often users have created an entry with id i

vars == <<configVars, clusterVars, faults, controllerVars, deployerVars, uses>>

TypeOK ==
    /\ ConfigTypeOK
    /\ ClusterTypeOK
    /\ ControllerTypeOK
    /\ DeployerTypeOK
    /\ uses \in [PBs \union HandMade -> 0 .. MaxUses]

Init ==
    /\ ConfigInit
    /\ ClusterInit
    /\ ControllerInit
    /\ DeployerInit
    /\ uses = [i \in PBs \union HandMade |-> 0]

-----------------------------------------------------------------------------
(* Users: the subarray device and the commands of sdpcfg.                   *)
Use(i) ==
    /\ uses[i] < MaxUses
    /\ uses' = [uses EXCEPT ![i] = @ + 1]

UserCreates(b, w) == Use(b) /\ CreateProcessingBlock(b, w)

UserDeletes(b, recursive) ==
    /\ DeleteProcessingBlock(b, recursive)
    /\ UNCHANGED uses

(* cmd_deploy                                                               *)
UserDeploys(d) == Use(d) /\ CreateDeployment(d, Engine)

User ==
    \/ \E b \in PBs, w \in Workflows : UserCreates(b, w)
    \/ \E b \in PBs, recursive \in Recursive : UserDeletes(b, recursive)
    \/ \E d \in HandMade : UserDeploys(d)

Next ==
    \/ User /\ UNCHANGED <<clusterVars, faults, controllerVars, deployerVars>>
    \/ ControllerNext /\ UNCHANGED <<deployerVars, uses>>
    \/ DeployerNext /\ UNCHANGED <<controllerVars, uses>>
    \/ WorkflowNext /\ UNCHANGED <<controllerVars, deployerVars, uses>>
    \/ ClusterNext /\ UNCHANGED <<controllerVars, deployerVars, uses>>

Spec == Init /\ [][Next]_vars

(* No fairness of users and of faults.                                      *)
FairSpec == Spec /\ ControllerFairness /\ DeployerFairness /\ WorkflowFairness

-----------------------------------------------------------------------------
(* A claim never outlives its claimant: the owner of a block is a process   *)
(* with a live lease that got past its claim of this block.                 *)
OwnersAreLive ==
    \A b \in PBs : owner[b] # None =>
        /\ owner[b] \in live
        /\ \/ pod[owner[b]] = Dead
           \/ pod[owner[b]].at \in Running \ {"start"} /\ pod[owner[b]].block = b

(* Of two processes that work on the same block, one has lost its lease,    *)
(* unless a user has deleted the owner entry.                               *)
OneAtWork ==
    \A p, q \in live :
        /\ pod[p].at \in {"took", "idle"}
        /\ pod[q].at \in {"took", "idle"}
        /\ pod[p].block = pod[q].block
        => p = q

(* The block that a workflow works on, as it sees it.                       *)
WorkOf(p) == IF pod[p].at \in {"took", "idle"} THEN pod[p].block ELSE None

(* Blocks are owned as Leases promises, whatever is killed, restarted or    *)
(* expires: they are taken only when free, once in the life of a lease, and *)
(* lost only with the lease, or to a user who deletes the owner entry.      *)
Ownership == INSTANCE Leases WITH
    Blocks    <- PBs,
    Holders   <- Processes,
    Nobody    <- None,
    Revocable <- TRUE \in Recursive,
    holder    <- owner,
    alive     <- live,
    work      <- [p \in Processes |-> WorkOf(p)]

ImplementsLeases == Ownership!Spec

(* What the deployer believes to be installed is what is installed, unless  *)
(* helm left a failed release behind, failed to uninstall one, or somebody  *)
(* else removed one.                                                        *)
ListIsTrue ==
    deployer # "down" =>
        /\ Releases \subseteq known \/ "leftover" \in FaultKinds
        /\ known \subseteq Releases \/ FaultKinds \intersect {"uninstall", "removal"} # {}

(* As long as a block exists it loses no deployment but the one its own     *)
(* workflow made (with those whose ids extend that id), and this only when  *)
(* a workflow of the block cleans up.                                       *)
DeletionStaysInBlock ==
    [][\A d \in DeployIds :
         dep[d] # None /\ dep'[d] = None /\ pb[PbOf(d)] # None =>
             /\ d \in DataOf(EngineOf(PbOf(d)))
             /\ \E p \in PodsOf(PbOf(d)) : At(p, "cleanup")]_vars

Gone(b) ==
    /\ \A n \in Names : dep[<<b, n>>] = None /\ release[<<b, n>>] = None
    /\ PodsOf(b) = {}

(* "Delete deployments not associated with processing blocks": when a block *)
(* is gone for good, so are its deployments, releases and pods, in the end. *)
OrphansGo == \A b \in PBs : <>[](pb[b] = None) => <>[]Gone(b)

(* "To execute a Processing Block, it requests the deployment of the        *)
(* corresponding Workflow": a block with a supported workflow gets it.      *)
WorkflowDeployed ==
    \A b \in PBs, w \in Supported :
        <>[](pb[b] = w) => <>[](dep[WorkflowOf(b)] = w)

(* Deployments are carried out: one that stays has a release, in the end.   *)
DeploymentsInstalled ==
    \A d \in DeployIds : <>[](dep[d] # None) => <>[](release[d] # None)

(* A block with a supported workflow has a workflow that has claimed it and *)
(* made its deployment, in the end.                                         *)
WorkflowRuns ==
    \A b \in PBs, w \in Supported :
        <>[](pb[b] = w) => <>[](\E p \in PodsOf(b) : At(p, "idle") /\ owner[b] = p)
=============================================================================
