----------------------------- MODULE HelmDeployer -----------------------------
(***************************************************************************)
(* helm_deploy.py: makes the Helm releases follow the deployments.  A turn *)
(* of its loop reads one snapshot of the deployments, compares their ids   *)
(* with its own list of releases, uninstalls and installs, one call of     *)
(* helm after the other, and waits for a change, at most until the charts  *)
(* are due for a refresh.  The calls take time: each is a step of its own. *)
(***************************************************************************)
EXTENDS Cluster

VARIABLES
    deployer,  \* "down", "waiting" or "busy"
    known,     \* deploys: the releases it believes to exist
    target,    \* the deployments in the snapshot of this turn
    toDelete,  \* the rest of the loop over deploys
    toAdd      \* the rest of the loop over target_deploys

turnVars == <<target, toDelete, toAdd>>
deployerVars == <<deployer, known, target, toDelete, toAdd>>

DeployerTypeOK ==
    /\ deployer \in {"down", "waiting", "busy"}
    /\ known \subseteq DeployIds
    /\ target \in [DeployIds -> Args \union {None}]
    /\ toDelete \subseteq DeployIds
    /\ toAdd \subseteq DeployIds

NoTarget == [d \in DeployIds |-> None]

NoTurn == target' = NoTarget /\ toDelete' = {} /\ toAdd' = {}

DeployerInit ==
    /\ deployer = "down"
    /\ known = {}
    /\ target = NoTarget
    /\ toDelete = {}
    /\ toAdd = {}

-----------------------------------------------------------------------------
(* Mistaken: what ought to be installed is taken to be installed.           *)
KnownFromDatabase == Deployments

(* The releases are those that helm lists.                                  *)
KnownAtStart == Releases

StartDeployer ==
    /\ deployer = "down"
    /\ deployer' = "waiting"
    /\ known' = KnownAtStart
    /\ UNCHANGED <<turnVars, configVars, clusterVars, faults>>

BeginTurn ==
    /\ deployer = "waiting"
    /\ deployer' = "busy"
    /\ target' = dep
    /\ toDelete' = known \ Deployments
    /\ toAdd' = Deployments \ known
    /\ UNCHANGED <<known, configVars, clusterVars, faults>>

(* delete_helm                                                              *)
Uninstall(d) ==
    /\ deployer = "busy"
    /\ d \in toDelete
    /\ release[d] # None
    /\ HelmUninstall(d)
    /\ known' = known \ {d}
    /\ toDelete' = toDelete \ {d}
    /\ UNCHANGED <<deployer, target, toAdd, configVars, faults>>

(* delete_helm when helm reports an error: there is no such release, or an  *)
(* error occurred before or after the release was removed.                  *)
UninstallFails(d) ==
    /\ deployer = "busy"
    /\ d \in toDelete
    /\ \/ release[d] = None /\ UNCHANGED <<clusterVars, faults>>
       \/ release[d] # None /\ Fault("uninstall") /\ UNCHANGED clusterVars
       \/ release[d] # None /\ Fault("uninstall") /\ HelmUninstall(d)
    /\ toDelete' = toDelete \ {d}
    /\ UNCHANGED <<deployer, known, target, toAdd, configVars>>

(* create_helm                                                              *)
Install(d) ==
    /\ deployer = "busy"
    /\ toDelete = {}
    /\ d \in toAdd
    /\ release[d] = None
    /\ HelmInstall(d, target[d])
    /\ known' = known \union {d}
    /\ toAdd' = toAdd \ {d}
    /\ UNCHANGED <<deployer, target, toDelete, configVars, faults>>

(* create_helm when helm reports an error: a failed release may be left.    *)
InstallFails(d) ==
    /\ deployer = "busy"
    /\ toDelete = {}
    /\ d \in toAdd
    /\ release[d] = None
    /\ \/ Fault("install") /\ UNCHANGED clusterVars
       \/ Fault("leftover") /\ HelmInstall(d, target[d])
    /\ toAdd' = toAdd \ {d}
    /\ UNCHANGED <<deployer, known, target, toDelete, configVars>>

(* create_helm when the release "already exists": it is purged, and the     *)
(* next turn tries again.                                                   *)
Purge(d) ==
    /\ deployer = "busy"
    /\ toDelete = {}
    /\ d \in toAdd
    /\ release[d] # None
    /\ \/ HelmUninstall(d) /\ UNCHANGED faults
       \/ Fault("uninstall") /\ UNCHANGED clusterVars
    /\ toAdd' = toAdd \ {d}
    /\ UNCHANGED <<deployer, known, target, toDelete, configVars>>

EndTurn ==
    /\ deployer = "busy"
    /\ toDelete = {}
    /\ toAdd = {}
    /\ deployer' = "waiting"
    /\ NoTurn
    /\ UNCHANGED <<known, configVars, clusterVars, faults>>

(* The process is stopped, or a call of helm takes longer than HELM_TIMEOUT. *)
StopDeployer ==
    /\ deployer # "down"
    /\ Fault("deployer")
    /\ deployer' = "down"
    /\ known' = {}
    /\ NoTurn
    /\ UNCHANGED <<configVars, clusterVars>>

DeployerNext ==
    \/ StartDeployer
    \/ BeginTurn
    \/ \E d \in DeployIds :
        Uninstall(d) \/ UninstallFails(d) \/ Install(d) \/ InstallFails(d) \/ Purge(d)
    \/ EndTurn
    \/ StopDeployer

(* Kubernetes restarts the process; its loop turns at least once in every   *)
(* refresh interval, and the calls of helm end.                             *)
deployerView == <<configVars, clusterVars, faults, deployerVars>>

DeployerFairness ==
    /\ WF_deployerView(StartDeployer)
    /\ WF_deployerView(BeginTurn)
    /\ \A d \in DeployIds :
        /\ WF_deployerView(Uninstall(d) \/ UninstallFails(d))
        /\ WF_deployerView(Install(d) \/ InstallFails(d) \/ Purge(d))
    /\ WF_deployerView(EndTurn)
=============================================================================
