------------------------ MODULE ProcessingController ------------------------
(***************************************************************************)
(* processing_controller.py: creates the workflow deployment of every      *)
(* processing block that has none, and deletes the deployments of blocks   *)
(* that are gone.  A turn of its loop is one transaction; it begins with   *)
(* the refresh of the workflow definitions when that is due, and ends with *)
(* a wait for a change that lasts at most until the next refresh.          *)
(***************************************************************************)
EXTENDS Cluster

CONSTANT Supported  \* the realtime workflows in the definition file

ASSUME ControllerAssumption == Supported \subseteq Workflows

VARIABLES
    controller,  \* "down" or "up"
    defs         \* workflows_realtime: the workflows it can deploy

controllerVars == <<controller, defs>>

ControllerTypeOK ==
    /\ controller \in {"down", "up"}
    /\ defs \subseteq Workflows

ControllerInit == controller = "down" /\ defs = {}

(* update_workflow_definition returns empty dictionaries when the file      *)
(* cannot be fetched, decoded or validated.                                 *)
FetchDefinitions(outcome) ==
    \/ outcome = "fetched" /\ defs' = Supported /\ UNCHANGED faults
    \/ outcome = "failed" /\ defs' = {} /\ Fault("fetch")

(* Mistaken: the definitions are fetched at the start only.                 *)
NoRefresh(outcome) == outcome = "fetched" /\ UNCHANGED <<defs, faults>>

RefreshDefinitions(outcome) ==
    \/ FetchDefinitions(outcome)
    \/ outcome = "not due" /\ UNCHANGED <<defs, faults>>

StartController(outcome) ==
    /\ controller = "down"
    /\ controller' = "up"
    /\ FetchDefinitions(outcome)
    /\ UNCHANGED <<configVars, clusterVars>>

-----------------------------------------------------------------------------
(* Mistaken: only workflow deployments are looked at.                       *)
OrphanedWorkflows == {d \in Deployments : pb[PbOf(d)] = None /\ d[2] = WorkflowName}

(* Mistaken: a block without an owner is taken for a block that is gone.    *)
UnownedDeployments == {d \in Deployments : owner[PbOf(d)] = None}

(* Deployments not associated with processing blocks.                       *)
Orphans == {d \in Deployments : pb[PbOf(d)] = None}

PbsWithDeployment == {PbOf(d) : d \in Deployments}

(* The blocks whose workflow is deployed in this turn.                      *)
ToDeploy == {b \in PBs : /\ pb[b] \in defs'
                         /\ b \notin PbsWithDeployment}

(* When an orphan is deleted, the ones whose id extends its id go with it.  *)
(* They come later in the list, and get_deployment then fails on them.      *)
NestedOrphans == \E d \in Orphans : Orphans \intersect DataOf(d) # {d}

ControllerTurn(outcome) ==
    /\ controller = "up"
    /\ RefreshDefinitions(outcome)
    /\ ~NestedOrphans
    /\ dep' = [d \in DeployIds |->
                 IF \E e \in Orphans : d \in DataOf(e) THEN None
                 ELSE IF \E b \in ToDeploy : d = WorkflowOf(b) THEN pb[PbOf(d)]
                 ELSE dep[d]]
    /\ UNCHANGED <<pb, owner, live, clusterVars, controller>>

(* TypeError: the process ends, nothing is committed.                       *)
ControllerTurnFails ==
    /\ controller = "up"
    /\ NestedOrphans
    /\ controller' = "down"
    /\ UNCHANGED <<configVars, clusterVars, defs, faults>>

StopController ==
    /\ controller = "up"
    /\ Fault("controller")
    /\ controller' = "down"
    /\ UNCHANGED <<configVars, clusterVars, defs>>

ControllerNext ==
    \/ \E outcome \in {"fetched", "failed"} : StartController(outcome)
    \/ \E outcome \in {"fetched", "failed", "not due"} : ControllerTurn(outcome)
    \/ ControllerTurnFails
    \/ StopController

(* Kubernetes restarts the process; its loop turns, and refreshes the       *)
(* definitions, at least once in every refresh interval.                    *)
controllerView == <<configVars, clusterVars, faults, controllerVars>>

ControllerFairness ==
    /\ WF_controllerView(StartController("fetched"))
    /\ WF_controllerView(ControllerTurn("fetched"))
    /\ WF_controllerView(ControllerTurnFails)
=============================================================================
