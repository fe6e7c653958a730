------------------------------- MODULE Cluster -------------------------------
(***************************************************************************)
(* Helm and Kubernetes as the services use them, which are not part of the *)
(* repository: the releases that are installed, and the pod that the       *)
(* workflow chart (a Kubernetes Deployment with one replica) asks for.     *)
(*                                                                         *)
(* A pod that ends is started again as long as its release is installed;   *)
(* the pod of a release that is uninstalled is told to stop, and killed    *)
(* some time later.  Until then a pod of a later release may run, too.     *)
(*                                                                         *)
(* What goes wrong is bounded: each fault uses up one of MaxFaults.        *)
(***************************************************************************)
EXTENDS Configuration

CONSTANTS
    WorkflowName,  \* the name of the deployment that runs the workflow
    FaultKinds,    \* the faults that may happen
    MaxFaults      \* bound: how many faults happen in all

ASSUME ClusterAssumption ==
    /\ WorkflowName \in Names
    /\ MaxFaults \in Nat

VARIABLES
    release,  \* release[d]: the arguments release d was installed with
    pod,      \* where the process is, see PodStates
    faults    \* number of faults so far

clusterVars == <<release, pod>>

(* "free": not started; "dead": ended, but its lease has not expired yet;   *)
(* the others are the stages of a workflow.                                 *)
Running == {"start", "took", "idle", "cleanup", "close"}
PodStates == [at : Running, block : PBs, stopping : BOOLEAN]
Free == [at |-> "free"]
Dead == [at |-> "dead"]

ClusterTypeOK ==
    /\ release \in [DeployIds -> Args \union {None}]
    /\ pod \in [Processes -> PodStates \union {Free, Dead}]
    /\ faults \in 0 .. MaxFaults

ClusterInit ==
    /\ release = [d \in DeployIds |-> None]
    /\ pod = [p \in Processes |-> Free]
    /\ faults = 0

Fault(kind) ==
    /\ kind \in FaultKinds
    /\ faults < MaxFaults
    /\ faults' = faults + 1

Releases == {d \in DeployIds : release[d] # None}

WorkflowOf(b) == <<b, WorkflowName>>

PodsOf(b) == {p \in Processes : pod[p].at \in Running /\ pod[p].block = b}

HelmInstall(d, a) ==
    /\ release' = [release EXCEPT ![d] = a]
    /\ UNCHANGED pod

HelmUninstall(d) ==
    /\ release' = [release EXCEPT ![d] = None]
    /\ pod' = [p \in Processes |->
                 IF \E b \in PBs : d = WorkflowOf(b) /\ p \in PodsOf(b)
                 THEN [pod[p] EXCEPT !.stopping = TRUE]
                 ELSE pod[p]]

-----------------------------------------------------------------------------
StartPod(p, b) ==
    /\ release[WorkflowOf(b)] # None
    /\ pod[p] = Free
    /\ \A q \in PodsOf(b) : pod[q].stopping
    /\ pod' = [pod EXCEPT ![p] = [at |-> "start", block |-> b, stopping |-> FALSE]]
    /\ UNCHANGED <<release, faults, configVars>>

(* The process ends without closing its client.                             *)
End(p) == pod' = [pod EXCEPT ![p] = IF p \in live' THEN Dead ELSE Free]

(* The pod of an uninstalled release is killed.                             *)
StopPod(p) ==
    /\ pod[p].at \in Running
    /\ pod[p].stopping
    /\ UNCHANGED <<release, faults, configVars>>
    /\ End(p)

(* The container is killed, or its node fails.                              *)
KillPod(p) ==
    /\ pod[p].at \in Running
    /\ ~pod[p].stopping
    /\ Fault("kill")
    /\ UNCHANGED <<release, configVars>>
    /\ End(p)

(* The lease of a process that has ended expires.                           *)
ExpireLease(p) ==
    /\ pod[p] = Dead
    /\ EndLease(p)
    /\ pod' = [pod EXCEPT ![p] = Free]
    /\ UNCHANGED <<release, faults>>

(* A running process fails to refresh its lease in time.                    *)
LoseLease(p) ==
    /\ pod[p].at \in Running
    /\ p \in live
    /\ Fault("lease")
    /\ EndLease(p)
    /\ UNCHANGED <<release, pod>>

(* Somebody removes a release by hand.                                      *)
RemoveRelease(d) ==
    /\ release[d] # None
    /\ Fault("removal")
    /\ HelmUninstall(d)
    /\ UNCHANGED configVars

ClusterNext ==
    \/ \E p \in Processes, b \in PBs : StartPod(p, b)
    \/ \E p \in Processes : StopPod(p) \/ KillPod(p) \/ ExpireLease(p) \/ LoseLease(p)
    \/ \E d \in DeployIds : RemoveRelease(d)
=============================================================================
