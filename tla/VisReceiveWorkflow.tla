-------------------------- MODULE VisReceiveWorkflow --------------------------
(***************************************************************************)
(* workflows/vis_receive/vis_receive.py, the shape that all workflows have *)
(* in common: claim the processing block under a lease, create a           *)
(* deployment, idle as long as the block exists and is owned, then clean   *)
(* up and close the client.  Each transaction is a step; between any two   *)
(* the process may be killed (Cluster).                                    *)
(***************************************************************************)
EXTENDS Cluster

CONSTANT EngineName  \* "vis-receive", the name of the deployment it makes

ASSUME WorkflowAssumption == EngineName \in Names \ {WorkflowName}

EngineOf(b) == <<b, EngineName>>

Goto(p, at) == pod' = [pod EXCEPT ![p].at = at]

At(p, at) == pod[p].at = at

-----------------------------------------------------------------------------
(* Without the block there is no pb.pb_id, and the process ends.            *)
Claim(p) ==
    /\ At(p, "start")
    /\ TakeProcessingBlock(pod[p].block, p)
    /\ IF pb[pod[p].block] # None THEN Goto(p, "took") ELSE End(p)
    /\ UNCHANGED <<release, faults>>

(* Collision: the block is owned by another process.                        *)
ClaimFails(p) ==
    /\ At(p, "start")
    /\ owner[pod[p].block] # None
    /\ UNCHANGED <<configVars, release, faults>>
    /\ End(p)

Deploy(p) ==
    /\ At(p, "took")
    /\ CreateDeployment(EngineOf(pod[p].block), Engine)
    /\ Goto(p, "idle")
    /\ UNCHANGED <<release, faults>>

(* Collision: the deployment exists.  This is outside of the try block, so  *)
(* nothing is cleaned up.                                                   *)
DeployFails(p) ==
    /\ At(p, "took")
    /\ dep[EngineOf(pod[p].block)] # None
    /\ UNCHANGED <<configVars, release, faults>>
    /\ End(p)

LeaveIdle(p) ==
    /\ At(p, "idle")
    /\ ~IsProcessingBlockOwner(pod[p].block, p)
    /\ Goto(p, "cleanup")
    /\ UNCHANGED <<configVars, release, faults>>

(* Mistaken: the deployment is left behind.                                 *)
NoCleanUp(p) ==
    /\ At(p, "cleanup")
    /\ Goto(p, "close")
    /\ UNCHANGED <<configVars, release, faults>>

CleanUp(p) ==
    /\ At(p, "cleanup")
    /\ DeleteDeployment(EngineOf(pod[p].block))
    /\ Goto(p, "close")
    /\ UNCHANGED <<release, faults>>

(* config.close() revokes the client lease.                                 *)
Close(p) ==
    /\ At(p, "close")
    /\ EndLease(p)
    /\ End(p)
    /\ UNCHANGED <<release, faults>>

Workflow(p) ==
    \/ Claim(p)
    \/ ClaimFails(p)
    \/ Deploy(p)
    \/ DeployFails(p)
    \/ LeaveIdle(p)
    \/ CleanUp(p)
    \/ Close(p)

WorkflowNext == \E p \in Processes : Workflow(p)

(* A workflow goes on; Kubernetes starts and kills pods; etcd expires the   *)
(* leases of processes that have ended.                                     *)
workflowView == <<configVars, clusterVars, faults>>

WorkflowFairness ==
    \A p \in Processes :
        /\ WF_workflowView(Workflow(p))
        /\ WF_workflowView(\E b \in PBs : StartPod(p, b))
        /\ WF_workflowView(StopPod(p))
        /\ WF_workflowView(ExpireLease(p))
=============================================================================
