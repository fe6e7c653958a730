-------------------------- MODULE ControlPlaneProofs --------------------------
(***************************************************************************)
(* Proofs about ControlPlane, for every number of blocks, processes,       *)
(* deployment names and workflows, and for any number of faults and uses:  *)
(* its types, that a claim never outlives its claimant, that at most one   *)
(* workflow with a live lease works on a block, that blocks are owned as   *)
(* Leases promises, what the deployer's list of releases is worth, which   *)
(* workflows are ever installed, and who may delete deployments.           *)
(***************************************************************************)
EXTENDS ControlPlane, TLAPS

(* Pods that run are the ones with a block.                                 *)
LEMMA PodCases ==
    ASSUME NEW x \in PodStates \union {Free, Dead}
    PROVE  /\ x.at \in Running <=> x \in PodStates
           /\ x.at \in Running => x # Free /\ x # Dead
           /\ x.at \in Running \/ x = Free \/ x = Dead
<1>1. CASE x \in PodStates
  <2>1. x.at \in Running
    BY <1>1 DEF PodStates
  <2>2. Free.at \notin Running /\ Dead.at \notin Running
    BY DEF Free, Dead, Running
  <2> QED BY <1>1, <2>1, <2>2
<1>2. CASE x \in {Free, Dead}
  <2>1. x.at \notin Running
    BY <1>2 DEF Free, Dead, Running
  <2>2. x \notin PodStates
    BY <2>1 DEF PodStates
  <2> QED BY <1>2, <2>1, <2>2
<1> QED BY <1>1, <1>2

LEMMA MovedPod ==
    ASSUME NEW x \in PodStates, NEW at \in Running
    PROVE  /\ [x EXCEPT !.at = at] \in PodStates
           /\ [x EXCEPT !.at = at].at = at
           /\ [x EXCEPT !.at = at].block = x.block
BY DEF PodStates

LEMMA ToldPod ==
    ASSUME NEW x \in PodStates
    PROVE  /\ [x EXCEPT !.stopping = TRUE] \in PodStates
           /\ [x EXCEPT !.stopping = TRUE].at = x.at
           /\ [x EXCEPT !.stopping = TRUE].block = x.block
BY DEF PodStates

-----------------------------------------------------------------------------
(* Type correctness of the configuration database.                          *)
LEMMA ConfigSteps ==
    ASSUME ConfigTypeOK,
           NEW b \in PBs, NEW w \in Workflows, NEW r \in BOOLEAN,
           NEW p \in Processes, NEW d \in DeployIds, NEW a \in Args
    PROVE  /\ CreateProcessingBlock(b, w) => ConfigTypeOK'
           /\ DeleteProcessingBlock(b, r) => ConfigTypeOK'
           /\ TakeProcessingBlock(b, p) => ConfigTypeOK'
           /\ EndLease(p) => ConfigTypeOK'
           /\ CreateDeployment(d, a) => ConfigTypeOK'
           /\ DeleteDeployment(d) => ConfigTypeOK'
<1> USE DEF ConfigTypeOK
<1>1. CreateProcessingBlock(b, w) => ConfigTypeOK'
  BY DEF CreateProcessingBlock
<1>2. DeleteProcessingBlock(b, r) => ConfigTypeOK'
  BY DEF DeleteProcessingBlock
<1>3. TakeProcessingBlock(b, p) => ConfigTypeOK'
  BY DEF TakeProcessingBlock
<1>4. EndLease(p) => ConfigTypeOK'
  BY DEF EndLease
<1>5. CreateDeployment(d, a) => ConfigTypeOK'
  BY DEF CreateDeployment
<1>6. DeleteDeployment(d) => ConfigTypeOK'
  BY DEF DeleteDeployment
<1> QED BY <1>1, <1>2, <1>3, <1>4, <1>5, <1>6

LEMMA ConfigUnchanged == ConfigTypeOK /\ UNCHANGED configVars => ConfigTypeOK'
BY DEF ConfigTypeOK, configVars

(* Type correctness of pods.                                                *)
PodsTypeOK == pod \in [Processes -> PodStates \union {Free, Dead}]

LEMMA PodSteps ==
    ASSUME PodsTypeOK, NEW p \in Processes, NEW b \in PBs,
           NEW d \in DeployIds, NEW at \in Running
    PROVE  /\ StartPod(p, b) => PodsTypeOK'
           /\ End(p) => PodsTypeOK'
           /\ HelmUninstall(d) => PodsTypeOK'
           /\ pod[p].at \in Running /\ Goto(p, at) => PodsTypeOK'
<1>1. StartPod(p, b) => PodsTypeOK'
  BY DEF StartPod, PodsTypeOK, PodStates, Running
<1>2. End(p) => PodsTypeOK'
  BY DEF End, PodsTypeOK
<1>3. HelmUninstall(d) => PodsTypeOK'
  <2>1. ASSUME NEW q \in Processes, NEW c \in PBs, q \in PodsOf(c)
        PROVE  [pod[q] EXCEPT !.stopping = TRUE] \in PodStates
    <3>1. pod[q] \in PodStates
      BY <2>1, PodCases DEF PodsOf, PodsTypeOK
    <3> QED BY <3>1, ToldPod
  <2> QED BY <2>1 DEF HelmUninstall, PodsTypeOK
<1>4. ASSUME pod[p].at \in Running, Goto(p, at) PROVE PodsTypeOK'
  <2>1. pod[p] \in PodStates
    BY <1>4, PodCases DEF PodsTypeOK
  <2>2. [pod[p] EXCEPT !.at = at] \in PodStates
    BY <2>1, MovedPod
  <2> QED BY <1>4, <2>2 DEF Goto, PodsTypeOK
<1> QED BY <1>1, <1>2, <1>3, <1>4

(* Type correctness of releases and faults.                                 *)
ReleasesTypeOK == release \in [DeployIds -> Args \union {None}]

FaultsTypeOK == faults \in 0 .. MaxFaults

LEMMA ClusterParts == ClusterTypeOK <=> ReleasesTypeOK /\ PodsTypeOK /\ FaultsTypeOK
BY DEF ClusterTypeOK, ReleasesTypeOK, PodsTypeOK, FaultsTypeOK

LEMMA FaultStep == ASSUME NEW kind, FaultsTypeOK, Fault(kind) PROVE FaultsTypeOK'
BY ClusterAssumption DEF FaultsTypeOK, Fault

LEMMA HelmSteps ==
    ASSUME ReleasesTypeOK, PodsTypeOK,
           NEW d \in DeployIds, NEW a \in Args \union {None}
    PROVE  /\ HelmInstall(d, a) => ReleasesTypeOK' /\ PodsTypeOK'
           /\ HelmUninstall(d) => ReleasesTypeOK' /\ PodsTypeOK'
<1>1. HelmInstall(d, a) => ReleasesTypeOK' /\ PodsTypeOK'
  BY DEF HelmInstall, ReleasesTypeOK, PodsTypeOK
<1>2. HelmUninstall(d) => ReleasesTypeOK'
  BY DEF HelmUninstall, ReleasesTypeOK
<1>3. HelmUninstall(d) => PodsTypeOK'
  <2>1. ASSUME NEW q \in Processes, NEW c \in PBs, q \in PodsOf(c)
        PROVE  [pod[q] EXCEPT !.stopping = TRUE] \in PodStates
    <3>1. pod[q] \in PodStates
      BY <2>1, PodCases DEF PodsOf, PodsTypeOK
    <3> QED BY <3>1, ToldPod
  <2> QED BY <2>1 DEF HelmUninstall, PodsTypeOK
<1> QED BY <1>1, <1>2, <1>3

-----------------------------------------------------------------------------
(* Each actor preserves the types.                                          *)
LEMMA UserTypes ==
    ASSUME TypeOK, User, UNCHANGED <<clusterVars, faults, controllerVars, deployerVars>>
    PROVE  TypeOK'
<1> USE DEF TypeOK
<1>1. ConfigTypeOK'
  <2>1. ASSUME NEW b \in PBs, NEW w \in Workflows, UserCreates(b, w) PROVE ConfigTypeOK'
    BY <2>1 DEF UserCreates, CreateProcessingBlock, ConfigTypeOK
  <2>2. ASSUME NEW b \in PBs, NEW r \in Recursive, UserDeletes(b, r) PROVE ConfigTypeOK'
    BY <2>2 DEF UserDeletes, DeleteProcessingBlock, ConfigTypeOK
  <2>3. ASSUME NEW d \in HandMade, UserDeploys(d) PROVE ConfigTypeOK'
    BY <2>3, UserAssumption DEF UserDeploys, CreateDeployment, ConfigTypeOK, Args
  <2> QED BY <2>1, <2>2, <2>3 DEF User
<1>2. (uses \in [PBs \union HandMade -> 0 .. MaxUses])'
  BY UserAssumption DEF User, UserCreates, UserDeletes, UserDeploys, Use
<1>3. ClusterTypeOK' /\ ControllerTypeOK' /\ DeployerTypeOK'
  BY DEF ClusterTypeOK, ControllerTypeOK, DeployerTypeOK, clusterVars, controllerVars,
         deployerVars
<1> QED BY <1>1, <1>2, <1>3

LEMMA ControllerTypes ==
    ASSUME TypeOK, ControllerNext, UNCHANGED <<deployerVars, uses>>
    PROVE  TypeOK'
<1> USE DEF TypeOK
<1>1. ReleasesTypeOK /\ PodsTypeOK /\ FaultsTypeOK
  BY ClusterParts
<1>2. ASSUME NEW outcome, FetchDefinitions(outcome)
      PROVE  defs' \subseteq Workflows /\ FaultsTypeOK'
  BY <1>1, <1>2, FaultStep, ControllerAssumption DEF FetchDefinitions, FaultsTypeOK
<1>3. ASSUME NEW outcome, RefreshDefinitions(outcome)
      PROVE  defs' \subseteq Workflows /\ FaultsTypeOK'
  <2>1. CASE FetchDefinitions(outcome)
    BY <1>2, <2>1
  <2>2. CASE UNCHANGED <<defs, faults>>
    BY <1>1, <2>2 DEF ControllerTypeOK, FaultsTypeOK
  <2> QED BY <1>3, <2>1, <2>2 DEF RefreshDefinitions
<1>4. ASSUME NEW outcome, StartController(outcome)
      PROVE  ConfigTypeOK' /\ ClusterTypeOK' /\ ControllerTypeOK'
  <2>1. ConfigTypeOK'
    BY <1>4, ConfigUnchanged DEF StartController
  <2>2. defs' \subseteq Workflows /\ FaultsTypeOK'
    BY <1>2, <1>4 DEF StartController
  <2>3. ReleasesTypeOK' /\ PodsTypeOK' /\ controller' = "up"
    BY <1>1, <1>4 DEF StartController, clusterVars, ReleasesTypeOK, PodsTypeOK
  <2> QED BY <2>1, <2>2, <2>3, ClusterParts
          DEF ControllerTypeOK, ClusterTypeOK, ReleasesTypeOK, PodsTypeOK, FaultsTypeOK
<1>5. ASSUME NEW outcome, ControllerTurn(outcome)
      PROVE  ConfigTypeOK' /\ ClusterTypeOK' /\ ControllerTypeOK'
  <2>1. dep' \in [DeployIds -> Args \union {None}]
    <3>1. \A d \in DeployIds : pb[PbOf(d)] \in Args \union {None}
      BY DEF PbOf, DeployIds, ConfigTypeOK, Args
    <3> QED BY <1>5, <3>1 DEF ControllerTurn, ConfigTypeOK
  <2>2. ConfigTypeOK'
    BY <1>5, <2>1 DEF ControllerTurn, ConfigTypeOK
  <2>3. defs' \subseteq Workflows /\ FaultsTypeOK'
    BY <1>3, <1>5 DEF ControllerTurn
  <2>4. ReleasesTypeOK' /\ PodsTypeOK' /\ controller' = controller
    BY <1>1, <1>5 DEF ControllerTurn, clusterVars, ReleasesTypeOK, PodsTypeOK
  <2> QED BY <2>2, <2>3, <2>4
          DEF ControllerTypeOK, ClusterTypeOK, ReleasesTypeOK, PodsTypeOK, FaultsTypeOK
<1>6. ASSUME ControllerTurnFails \/ StopController
      PROVE  ConfigTypeOK' /\ ClusterTypeOK' /\ ControllerTypeOK'
  <2>1. FaultsTypeOK'
    BY <1>1, <1>6, FaultStep DEF ControllerTurnFails, StopController, FaultsTypeOK
  <2>2. ConfigTypeOK'
    BY <1>6, ConfigUnchanged DEF ControllerTurnFails, StopController
  <2>3. ReleasesTypeOK' /\ PodsTypeOK' /\ ControllerTypeOK'
    BY <1>1, <1>6 DEF ControllerTurnFails, StopController, clusterVars, ReleasesTypeOK,
                      PodsTypeOK, ControllerTypeOK
  <2> QED BY <2>1, <2>2, <2>3
          DEF ClusterTypeOK, ReleasesTypeOK, PodsTypeOK, FaultsTypeOK
<1>7. ConfigTypeOK' /\ ClusterTypeOK' /\ ControllerTypeOK'
  BY <1>4, <1>5, <1>6 DEF ControllerNext
<1>8. DeployerTypeOK' /\ (uses \in [PBs \union HandMade -> 0 .. MaxUses])'
  BY DEF DeployerTypeOK, deployerVars
<1> QED BY <1>7, <1>8

LEMMA DeployerTypes ==
    ASSUME TypeOK, DeployerNext, UNCHANGED <<controllerVars, uses>>
    PROVE  TypeOK'
<1> USE DEF TypeOK
<1>1. ReleasesTypeOK /\ PodsTypeOK /\ FaultsTypeOK
  BY ClusterParts
<1>2. configVars' = configVars
  BY DEF DeployerNext, StartDeployer, BeginTurn, Uninstall, UninstallFails, Install,
         InstallFails, Purge, EndTurn, StopDeployer
<1>3. ASSUME StartDeployer \/ BeginTurn \/ EndTurn
      PROVE  DeployerTypeOK' /\ ClusterTypeOK'
  <2>1. ClusterTypeOK'
    BY <1>3 DEF StartDeployer, BeginTurn, EndTurn, ClusterTypeOK, clusterVars
  <2>2. DeployerTypeOK'
    BY <1>3 DEF StartDeployer, BeginTurn, EndTurn, DeployerTypeOK, turnVars, KnownAtStart,
                Releases, Deployments, ConfigTypeOK, NoTurn, NoTarget
  <2> QED BY <2>1, <2>2
<1>4. ASSUME StopDeployer
      PROVE  DeployerTypeOK' /\ ClusterTypeOK'
  <2>1. FaultsTypeOK'
    BY <1>1, <1>4, FaultStep DEF StopDeployer
  <2>2. ReleasesTypeOK' /\ PodsTypeOK' /\ DeployerTypeOK'
    BY <1>1, <1>4 DEF StopDeployer, ReleasesTypeOK, PodsTypeOK, clusterVars, DeployerTypeOK,
                      NoTurn, NoTarget
  <2> QED BY <2>1, <2>2 DEF ClusterTypeOK, ReleasesTypeOK, PodsTypeOK, FaultsTypeOK
<1>5. ASSUME NEW d \in DeployIds,
             Uninstall(d) \/ UninstallFails(d) \/ Install(d) \/ InstallFails(d) \/ Purge(d)
      PROVE  DeployerTypeOK' /\ ClusterTypeOK'
  <2>1. DeployerTypeOK'
    BY <1>5 DEF Uninstall, UninstallFails, Install, InstallFails, Purge, DeployerTypeOK
  <2>2. FaultsTypeOK'
    <3>1. faults' = faults \/ \E kind \in {"uninstall", "install", "leftover"} : Fault(kind)
      BY <1>5 DEF Uninstall, UninstallFails, Install, InstallFails, Purge
    <3> QED BY <1>1, <3>1, FaultStep DEF FaultsTypeOK
  <2>3. \/ UNCHANGED clusterVars
        \/ HelmUninstall(d)
        \/ HelmInstall(d, target[d])
    BY <1>5 DEF Uninstall, UninstallFails, Install, InstallFails, Purge
  <2>4. target[d] \in Args \union {None}
    BY DEF DeployerTypeOK
  <2>5. ReleasesTypeOK' /\ PodsTypeOK'
    <3>1. CASE UNCHANGED clusterVars
      BY <1>1, <3>1 DEF clusterVars, ReleasesTypeOK, PodsTypeOK
    <3>2. CASE HelmUninstall(d) \/ HelmInstall(d, target[d])
      BY <1>1, <2>4, <3>2, HelmSteps
    <3> QED BY <2>3, <3>1, <3>2
  <2> QED BY <2>1, <2>2, <2>5 DEF ClusterTypeOK, ReleasesTypeOK, PodsTypeOK, FaultsTypeOK
<1>6. DeployerTypeOK' /\ ClusterTypeOK'
  BY <1>3, <1>4, <1>5 DEF DeployerNext
<1>7. ConfigTypeOK' /\ ControllerTypeOK' /\ (uses \in [PBs \union HandMade -> 0 .. MaxUses])'
  BY <1>2, ConfigUnchanged DEF ControllerTypeOK, controllerVars
<1> QED BY <1>6, <1>7

LEMMA WorkflowTypes ==
    ASSUME TypeOK, WorkflowNext, UNCHANGED <<controllerVars, deployerVars, uses>>
    PROVE  TypeOK'
<1> USE DEF TypeOK
<1>1. ReleasesTypeOK /\ PodsTypeOK /\ FaultsTypeOK
  BY ClusterParts
<1>2. PICK p \in Processes : Workflow(p)
  BY DEF WorkflowNext
<1>3. pod[p] \in PodStates /\ pod[p].at \in Running
  <2>1. pod[p].at \in Running
    BY <1>2 DEF Workflow, Claim, ClaimFails, Deploy, DeployFails, LeaveIdle, CleanUp, Close,
                At, Running
  <2> QED BY <1>1, <2>1, PodCases DEF PodsTypeOK
<1>4. pod[p].block \in PBs /\ EngineOf(pod[p].block) \in DeployIds /\ Engine \in Args
  BY <1>3, WorkflowAssumption DEF PodStates, EngineOf, DeployIds, Args
<1>5. ConfigTypeOK'
  <2>1. \/ UNCHANGED configVars
        \/ TakeProcessingBlock(pod[p].block, p)
        \/ CreateDeployment(EngineOf(pod[p].block), Engine)
        \/ DeleteDeployment(EngineOf(pod[p].block))
        \/ EndLease(p)
    BY <1>2 DEF Workflow, Claim, ClaimFails, Deploy, DeployFails, LeaveIdle, CleanUp, Close
  <2>2. CASE TakeProcessingBlock(pod[p].block, p)
    BY <1>4, <2>2 DEF TakeProcessingBlock, ConfigTypeOK
  <2>3. CASE CreateDeployment(EngineOf(pod[p].block), Engine)
    BY <1>4, <2>3 DEF CreateDeployment, ConfigTypeOK
  <2>4. CASE DeleteDeployment(EngineOf(pod[p].block))
    BY <1>4, <2>4 DEF DeleteDeployment, ConfigTypeOK
  <2>5. CASE EndLease(p)
    BY <2>5 DEF EndLease, ConfigTypeOK
  <2> QED BY <2>1, <2>2, <2>3, <2>4, <2>5, ConfigUnchanged
<1>6. PodsTypeOK'
  <2>1. End(p) \/ \E at \in {"took", "idle", "cleanup", "close"} : Goto(p, at)
    BY <1>2 DEF Workflow, Claim, ClaimFails, Deploy, DeployFails, LeaveIdle, CleanUp, Close
  <2>2. CASE End(p)
    BY <1>1, <2>2 DEF End, PodsTypeOK
  <2>3. ASSUME NEW at \in {"took", "idle", "cleanup", "close"}, Goto(p, at)
        PROVE  PodsTypeOK'
    <3>1. at \in Running
      BY DEF Running
    <3>2. [pod[p] EXCEPT !.at = at] \in PodStates
      BY <1>3, <3>1, MovedPod
    <3> QED BY <1>1, <2>3, <3>2 DEF Goto, PodsTypeOK
  <2> QED BY <2>1, <2>2, <2>3
<1>7. UNCHANGED <<release, faults>>
  BY <1>2 DEF Workflow, Claim, ClaimFails, Deploy, DeployFails, LeaveIdle, CleanUp, Close
<1>8. ClusterTypeOK'
  BY <1>1, <1>6, <1>7 DEF ClusterTypeOK, ReleasesTypeOK, PodsTypeOK, FaultsTypeOK
<1>9. ControllerTypeOK' /\ DeployerTypeOK' /\ (uses \in [PBs \union HandMade -> 0 .. MaxUses])'
  BY DEF ControllerTypeOK, DeployerTypeOK, controllerVars, deployerVars
<1> QED BY <1>5, <1>8, <1>9

LEMMA ClusterTypes ==
    ASSUME TypeOK, ClusterNext, UNCHANGED <<controllerVars, deployerVars, uses>>
    PROVE  TypeOK'
<1> USE DEF TypeOK
<1>1. ReleasesTypeOK /\ PodsTypeOK /\ FaultsTypeOK
  BY ClusterParts
<1>2. ASSUME NEW p \in Processes, NEW b \in PBs, StartPod(p, b)
      PROVE  ConfigTypeOK' /\ ClusterTypeOK'
  <2>1. PodsTypeOK'
    BY <1>1, <1>2 DEF StartPod, PodsTypeOK, PodStates, Running
  <2>2. ConfigTypeOK' /\ ReleasesTypeOK' /\ FaultsTypeOK'
    BY <1>1, <1>2, ConfigUnchanged DEF StartPod, ReleasesTypeOK, FaultsTypeOK
  <2> QED BY <2>1, <2>2 DEF ClusterTypeOK, ReleasesTypeOK, PodsTypeOK, FaultsTypeOK
<1>3. ASSUME NEW p \in Processes, StopPod(p) \/ KillPod(p) \/ ExpireLease(p) \/ LoseLease(p)
      PROVE  ConfigTypeOK' /\ ClusterTypeOK'
  <2>1. PodsTypeOK'
    BY <1>1, <1>3 DEF StopPod, KillPod, ExpireLease, LoseLease, End, PodsTypeOK
  <2>2. UNCHANGED configVars \/ EndLease(p)
    BY <1>3 DEF StopPod, KillPod, ExpireLease, LoseLease
  <2>3. ConfigTypeOK'
    BY <2>2, ConfigUnchanged DEF EndLease, ConfigTypeOK
  <2>4. faults' = faults \/ \E kind \in {"kill", "lease"} : Fault(kind)
    BY <1>3 DEF StopPod, KillPod, ExpireLease, LoseLease
  <2>5. FaultsTypeOK'
    BY <1>1, <2>4, FaultStep DEF FaultsTypeOK
  <2>6. ReleasesTypeOK'
    BY <1>1, <1>3 DEF StopPod, KillPod, ExpireLease, LoseLease, ReleasesTypeOK
  <2> QED BY <2>1, <2>3, <2>5, <2>6
          DEF ClusterTypeOK, ReleasesTypeOK, PodsTypeOK, FaultsTypeOK
<1>4. ASSUME NEW d \in DeployIds, RemoveRelease(d)
      PROVE  ConfigTypeOK' /\ ClusterTypeOK'
  <2>1. ReleasesTypeOK' /\ PodsTypeOK'
    BY <1>1, <1>4, HelmSteps DEF RemoveRelease
  <2>2. FaultsTypeOK' /\ ConfigTypeOK'
    BY <1>1, <1>4, FaultStep, ConfigUnchanged DEF RemoveRelease
  <2> QED BY <2>1, <2>2 DEF ClusterTypeOK, ReleasesTypeOK, PodsTypeOK, FaultsTypeOK
<1>5. ConfigTypeOK' /\ ClusterTypeOK'
  BY <1>2, <1>3, <1>4 DEF ClusterNext
<1>6. ControllerTypeOK' /\ DeployerTypeOK' /\ (uses \in [PBs \union HandMade -> 0 .. MaxUses])'
  BY DEF ControllerTypeOK, DeployerTypeOK, controllerVars, deployerVars
<1> QED BY <1>5, <1>6

-----------------------------------------------------------------------------
LEMMA TypeStep == TypeOK /\ [Next]_vars => TypeOK'
<1> SUFFICES ASSUME TypeOK, [Next]_vars
             PROVE  TypeOK'
  OBVIOUS
<1>1. CASE UNCHANGED vars
  BY <1>1 DEF vars, configVars, clusterVars, controllerVars, deployerVars, TypeOK,
              ConfigTypeOK, ClusterTypeOK, ControllerTypeOK, DeployerTypeOK
<1>2. CASE Next
  BY <1>2, UserTypes, ControllerTypes, DeployerTypes, WorkflowTypes, ClusterTypes DEF Next
<1> QED BY <1>1, <1>2

LEMMA TypeInit == Init => TypeOK
<1> SUFFICES ASSUME Init
             PROVE  TypeOK
  OBVIOUS
<1>1. ConfigTypeOK
  BY DEF Init, ConfigInit, ConfigTypeOK
<1>2. ClusterTypeOK
  BY ClusterAssumption DEF Init, ClusterInit, ClusterTypeOK
<1>3. ControllerTypeOK /\ DeployerTypeOK
  BY DEF Init, ControllerInit, ControllerTypeOK, DeployerInit, DeployerTypeOK, NoTarget
<1>4. uses \in [PBs \union HandMade -> 0 .. MaxUses]
  BY UserAssumption DEF Init
<1> QED BY <1>1, <1>2, <1>3, <1>4 DEF TypeOK

(* The variables of all components keep their types: the database, the      *)
(* cluster, the controller, the deployer and the bounded inputs of users.   *)
THEOREM TypeCorrect == Spec => []TypeOK
BY TypeInit, TypeStep, PTL DEF Spec

-----------------------------------------------------------------------------
(* Ownership.  A step concerns it in one of the following ways.             *)

(* Pods that run on the same block at the same stage as before, or that     *)
(* have ended and stay as they are.                                         *)
SamePods ==
    \A p \in Processes :
        \/ pod'[p] = pod[p]
        \/ /\ pod[p].at \in Running
           /\ pod'[p].at = pod[p].at
           /\ pod'[p].block = pod[p].block

LEMMA SamePodsStep ==
    ASSUME PodsTypeOK, NEW d \in DeployIds, HelmUninstall(d)
    PROVE  SamePods
<1> SUFFICES ASSUME NEW p \in Processes, NEW b \in PBs, p \in PodsOf(b),
                    pod'[p] = [pod[p] EXCEPT !.stopping = TRUE]
             PROVE  /\ pod[p].at \in Running
                    /\ pod'[p].at = pod[p].at
                    /\ pod'[p].block = pod[p].block
  BY DEF SamePods, HelmUninstall
<1>1. pod[p] \in PodStates /\ pod[p].at \in Running
  BY PodCases DEF PodsOf, PodsTypeOK
<1> QED BY <1>1, ToldPod

(* Whoever owns a block works on it.                                        *)
Holds(p, b) ==
    /\ p \in live
    /\ \/ pod[p] = Dead
       \/ pod[p].at \in Running \ {"start"} /\ pod[p].block = b

LEMMA OwnersHold == OwnersAreLive <=> \A b \in PBs : owner[b] # None => Holds(owner[b], b)
BY DEF OwnersAreLive, Holds

(* A pod at work has the block it works on, unless its lease is gone.       *)
Claimed ==
    \A p \in live : pod[p].at \in {"took", "idle"} => owner[pod[p].block] = p

LEMMA ClaimedAlone == Claimed => OneAtWork
BY DEF Claimed, OneAtWork

(* The kinds of steps, as far as ownership goes.                            *)
Quiet == UNCHANGED <<owner, live>> /\ SamePods

Clears(b) ==
    /\ TRUE \in Recursive
    /\ owner' = [owner EXCEPT ![b] = None]
    /\ UNCHANGED <<live, pod>>

Ends(p) == UNCHANGED <<owner, live>> /\ End(p)

Abandons(p) ==
    /\ EndLease(p)
    /\ \/ UNCHANGED pod
       \/ pod[p].at \notin {"took", "idle"} /\ pod' = [pod EXCEPT ![p] = Free]

Moves(p, at) ==
    /\ UNCHANGED <<owner, live>>
    /\ pod[p].at \in Running \ {"start"}
    /\ at \in {"idle", "cleanup", "close"}
    /\ at = "idle" => pod[p].at = "took"
    /\ Goto(p, at)

LEMMA StepKinds ==
    ASSUME TypeOK, [Next]_vars
    PROVE  \/ Quiet
           \/ \E b \in PBs : Clears(b)
           \/ \E p \in Processes, b \in PBs : StartPod(p, b)
           \/ \E p \in Processes : Ends(p)
           \/ \E p \in Processes : Abandons(p)
           \/ \E p \in Processes : Claim(p)
           \/ \E p \in Processes, at \in Running : Moves(p, at)
<1>1. PodsTypeOK
  BY DEF TypeOK, ClusterTypeOK, PodsTypeOK
<1>2. UNCHANGED <<owner, live, pod>> => Quiet
  BY DEF Quiet, SamePods
<1>3. CASE UNCHANGED vars
  BY <1>2, <1>3 DEF vars, configVars, clusterVars
<1>4. CASE User /\ UNCHANGED <<clusterVars, faults, controllerVars, deployerVars>>
  <2>1. UNCHANGED <<live, pod>>
    BY <1>4 DEF User, UserCreates, UserDeletes, UserDeploys, CreateProcessingBlock,
                DeleteProcessingBlock, CreateDeployment, clusterVars
  <2>2. CASE UNCHANGED owner
    BY <1>2, <2>1, <2>2
  <2>3. CASE owner' # owner
    <3>1. PICK b \in PBs, recursive \in Recursive : DeleteProcessingBlock(b, recursive)
      BY <1>4, <2>3 DEF User, UserCreates, UserDeletes, UserDeploys, CreateProcessingBlock,
                        CreateDeployment
    <3>2. recursive = TRUE
      <4>1. owner \in [PBs -> Processes \union {None}] /\ recursive \in BOOLEAN
        BY UserAssumption DEF TypeOK, ConfigTypeOK
      <4>2. recursive = FALSE => owner' = owner
        BY <3>1, <4>1 DEF DeleteProcessingBlock
      <4> QED BY <2>3, <4>1, <4>2
    <3>3. Clears(b)
      BY <2>1, <3>1, <3>2 DEF DeleteProcessingBlock, Clears
    <3> QED BY <3>3
  <2> QED BY <2>2, <2>3
<1>5. CASE ControllerNext
  <2>1. UNCHANGED <<owner, live, pod>>
    BY <1>5 DEF ControllerNext, StartController, ControllerTurn, ControllerTurnFails,
                StopController, configVars, clusterVars
  <2> QED BY <1>2, <2>1
<1>6. CASE DeployerNext
  <2>1. UNCHANGED <<owner, live>>
    BY <1>6 DEF DeployerNext, StartDeployer, BeginTurn, Uninstall, UninstallFails, Install,
                InstallFails, Purge, EndTurn, StopDeployer, configVars
  <2>2. UNCHANGED pod \/ \E d \in DeployIds : HelmUninstall(d)
    BY <1>6 DEF DeployerNext, StartDeployer, BeginTurn, Uninstall, UninstallFails, Install,
                InstallFails, Purge, EndTurn, StopDeployer, clusterVars, HelmInstall
  <2> QED BY <1>1, <1>2, <2>1, <2>2, SamePodsStep DEF Quiet
<1>7. CASE WorkflowNext
  <2>1. PICK p \in Processes : Workflow(p)
    BY <1>7 DEF WorkflowNext
  <2>2. CASE Claim(p)
    BY <2>2
  <2>3. CASE ClaimFails(p) \/ DeployFails(p)
    <3>1. Ends(p)
      BY <2>3 DEF ClaimFails, DeployFails, Ends, configVars
    <3> QED BY <3>1
  <2>4. CASE Deploy(p) \/ LeaveIdle(p) \/ CleanUp(p)
    <3>1. \E at \in {"idle", "cleanup", "close"} : Moves(p, at)
      BY <2>4 DEF Deploy, LeaveIdle, CleanUp, CreateDeployment, DeleteDeployment, Moves, At,
                  Running, configVars
    <3> QED BY <3>1 DEF Running
  <2>5. CASE Close(p)
    <3>1. Abandons(p)
      BY <2>5 DEF Close, At, EndLease, End, Abandons
    <3> QED BY <3>1
  <2> QED BY <2>1, <2>2, <2>3, <2>4, <2>5 DEF Workflow
<1>8. CASE ClusterNext
  <2>1. ASSUME NEW p \in Processes, StopPod(p) \/ KillPod(p)
        PROVE  Ends(p)
    BY <2>1 DEF StopPod, KillPod, Ends, configVars
  <2>2. ASSUME NEW p \in Processes, ExpireLease(p) \/ LoseLease(p)
        PROVE  Abandons(p)
    BY <2>2 DEF ExpireLease, LoseLease, Abandons, Dead
  <2>3. ASSUME NEW d \in DeployIds, RemoveRelease(d)
        PROVE  Quiet
    BY <1>1, <2>3, SamePodsStep DEF RemoveRelease, Quiet, configVars
  <2> QED BY <1>8, <2>1, <2>2, <2>3 DEF ClusterNext
<1> QED BY <1>3, <1>4, <1>5, <1>6, <1>7, <1>8 DEF Next

LEMMA OwnersStep ==
    ASSUME TypeOK, OwnersAreLive, [Next]_vars
    PROVE  OwnersAreLive'
<1>1. PodsTypeOK /\ owner \in [PBs -> Processes \union {None}]
  BY DEF TypeOK, ClusterTypeOK, PodsTypeOK, ConfigTypeOK
<1>2. None \notin Processes
  BY ConfigurationAssumption
<1>3. \A b \in PBs : owner[b] # None => Holds(owner[b], b)
  BY OwnersHold
<1>4. SUFFICES ASSUME NEW c \in PBs, owner'[c] # None
               PROVE  Holds(owner[c], c)'
  BY DEF OwnersAreLive, Holds
<1> DEFINE o == owner[c]
<1>5. \A p : pod[p] = Free \/ pod[p].at = "start" => \A b \in PBs : ~Holds(p, b)
  BY DEF Holds, Free, Dead, Running
<1>6. CASE Quiet
  <2>1. o \in Processes /\ owner' = owner /\ Holds(o, c)
    BY <1>1, <1>3, <1>4, <1>6 DEF Quiet
  <2>2. pod'[o] = pod[o] \/ (pod[o].at \in Running /\ pod'[o].at = pod[o].at
                                                   /\ pod'[o].block = pod[o].block)
    BY <1>6, <2>1 DEF Quiet, SamePods
  <2>3. pod[o].at \in Running => pod[o] # Dead
    BY <1>1, <2>1, PodCases DEF PodsTypeOK
  <2> QED BY <1>6, <2>1, <2>2, <2>3 DEF Quiet, Holds
<1>7. ASSUME NEW b \in PBs, Clears(b) PROVE Holds(owner[c], c)'
  <2>1. owner'[c] = o /\ o # None
    BY <1>1, <1>4, <1>7 DEF Clears
  <2> QED BY <1>3, <1>7, <2>1 DEF Clears, Holds
<1>8. ASSUME NEW p \in Processes, NEW b \in PBs, StartPod(p, b) PROVE Holds(owner[c], c)'
  <2>1. UNCHANGED <<owner, live>> /\ Holds(o, c) /\ o \in Processes
    BY <1>1, <1>3, <1>4, <1>8 DEF StartPod, configVars
  <2>2. o # p
    BY <1>5, <1>8, <2>1 DEF StartPod
  <2> QED BY <1>1, <1>8, <2>1, <2>2 DEF StartPod, Holds, PodsTypeOK
<1>9. ASSUME NEW p \in Processes, Ends(p) PROVE Holds(owner[c], c)'
  <2>1. UNCHANGED <<owner, live>> /\ Holds(o, c) /\ o \in Processes
    BY <1>1, <1>3, <1>4, <1>9 DEF Ends
  <2>2. pod'[o] = pod[o] \/ pod'[o] = Dead
    BY <1>1, <1>9, <2>1 DEF Ends, End, Holds, PodsTypeOK
  <2> QED BY <2>1, <2>2 DEF Holds
<1>10. ASSUME NEW p \in Processes, Abandons(p) PROVE Holds(owner[c], c)'
  <2>1. owner'[c] = o /\ o # None
    BY <1>4, <1>10 DEF Abandons, EndLease
  <2>2. Holds(o, c) /\ o \in Processes
    BY <1>1, <1>3, <2>1
  <2>3. o # p
    BY <1>4, <1>10, <2>1, <2>2 DEF Abandons, EndLease, Holds
  <2>4. pod'[o] = pod[o] /\ o \in live'
    BY <1>1, <1>10, <2>2, <2>3 DEF Abandons, EndLease, Holds, PodsTypeOK
  <2> QED BY <2>1, <2>2, <2>4 DEF Holds
<1>11. ASSUME NEW p \in Processes, Claim(p) PROVE Holds(owner[c], c)'
  <2>1. pod[p] \in PodStates /\ pod[p].at = "start"
    BY <1>1, <1>11, PodCases DEF Claim, At, PodsTypeOK, Running
  <2>2. owner' = [owner EXCEPT ![pod[p].block] = p] /\ live' = live \union {p}
    BY <1>11 DEF Claim, TakeProcessingBlock
  <2>3. pod'[p] = Dead \/ pod'[p] = [pod[p] EXCEPT !.at = "took"]
    BY <1>1, <1>11, <2>2 DEF Claim, Goto, End, PodsTypeOK
  <2>4. \A q \in Processes : q # p => pod'[q] = pod[q]
    BY <1>1, <1>11 DEF Claim, Goto, End, PodsTypeOK
  <2>5. CASE c = pod[p].block
    <3>1. owner'[c] = p
      BY <1>1, <2>2, <2>5
    <3>2. [pod[p] EXCEPT !.at = "took"].at = "took" /\ [pod[p] EXCEPT !.at = "took"].block = c
      BY <2>1, <2>5, MovedPod DEF Running
    <3>3. pod'[p] = Dead \/ (pod'[p].at = "took" /\ pod'[p].block = c)
      BY <2>3, <3>2
    <3>4. p \in live' /\ "took" \in Running \ {"start"}
      BY <2>2 DEF Running
    <3> QED BY <3>1, <3>3, <3>4 DEF Holds
  <2>6. CASE c # pod[p].block
    <3>1. owner'[c] = o /\ Holds(o, c) /\ o \in Processes
      BY <1>1, <1>3, <1>4, <2>2, <2>6
    <3>2. o # p
      BY <1>5, <2>1, <3>1
    <3> QED BY <2>2, <2>4, <3>1, <3>2 DEF Holds
  <2> QED BY <2>5, <2>6
<1>12. ASSUME NEW p \in Processes, NEW at \in Running, Moves(p, at) PROVE Holds(owner[c], c)'
  <2>1. UNCHANGED <<owner, live>> /\ Holds(o, c) /\ o \in Processes
    BY <1>1, <1>3, <1>4, <1>12 DEF Moves
  <2>2. CASE o = p
    <3>1. pod[p] \in PodStates /\ pod[p] # Dead
      BY <1>1, <1>12, PodCases DEF Moves, PodsTypeOK
    <3>2. pod'[p] = [pod[p] EXCEPT !.at = at]
      BY <1>1, <1>12 DEF Moves, Goto, PodsTypeOK
    <3>3. pod'[p].at = at /\ pod'[p].block = pod[p].block /\ at # "start"
      BY <1>12, <3>1, <3>2, MovedPod DEF Moves
    <3> QED BY <2>1, <2>2, <3>1, <3>3 DEF Holds
  <2>3. CASE o # p
    <3>1. pod'[o] = pod[o]
      BY <1>1, <1>12, <2>1, <2>3 DEF Moves, Goto, PodsTypeOK
    <3> QED BY <2>1, <3>1 DEF Holds
  <2> QED BY <2>2, <2>3
<1> QED BY <1>6, <1>7, <1>8, <1>9, <1>10, <1>11, <1>12, StepKinds

LEMMA OwnersInit == Init => OwnersAreLive
BY DEF Init, ConfigInit, OwnersAreLive

(* Whatever is killed, restarted or expires: a block is never owned by a    *)
(* process whose lease is gone, nor by one that has not claimed this block. *)
THEOREM ClaimsDieWithClaimants == Spec => []OwnersAreLive
<1>1. TypeOK /\ OwnersAreLive /\ [Next]_vars => OwnersAreLive'
  BY OwnersStep
<1> QED BY <1>1, OwnersInit, TypeCorrect, PTL DEF Spec

LEMMA ClaimedStep ==
    ASSUME TypeOK, Claimed, [Next]_vars, Recursive \subseteq {FALSE}
    PROVE  Claimed'
<1>1. /\ PodsTypeOK
      /\ owner \in [PBs -> Processes \union {None}]
      /\ live \subseteq Processes
  BY DEF TypeOK, ClusterTypeOK, PodsTypeOK, ConfigTypeOK
<1>2. None \notin Processes
  BY ConfigurationAssumption
<1>3. SUFFICES ASSUME NEW q \in live', pod'[q].at \in {"took", "idle"}
               PROVE  owner'[pod'[q].block] = q
  BY DEF Claimed
<1>4. Free.at \notin {"took", "idle"} /\ Dead.at \notin {"took", "idle"}
  BY DEF Free, Dead
<1>5. \A p \in Processes : pod[p].at \in Running => pod[p] \in PodStates /\ pod[p].block \in PBs
  BY <1>1, PodCases DEF PodsTypeOK, PodStates
<1>6. {"took", "idle"} \subseteq Running
  BY DEF Running
<1>7. CASE Quiet
  BY <1>1, <1>3, <1>7 DEF Quiet, SamePods, Claimed
<1>8. ASSUME NEW b \in PBs, Clears(b) PROVE owner'[pod'[q].block] = q
  BY <1>8 DEF Clears
<1>9. ASSUME NEW p \in Processes, NEW b \in PBs, StartPod(p, b)
      PROVE  owner'[pod'[q].block] = q
  <2>1. UNCHANGED <<owner, live>>
    BY <1>9 DEF StartPod, configVars
  <2>2. q # p
    BY <1>1, <1>3, <1>9 DEF StartPod, PodsTypeOK
  <2>3. pod'[q] = pod[q]
    BY <1>1, <1>9, <2>1, <2>2 DEF StartPod, PodsTypeOK
  <2> QED BY <1>3, <2>1, <2>3 DEF Claimed
<1>10. ASSUME NEW p \in Processes, Ends(p) PROVE owner'[pod'[q].block] = q
  <2>1. UNCHANGED <<owner, live>>
    BY <1>10 DEF Ends
  <2>2. q # p
    BY <1>1, <1>3, <1>4, <1>10 DEF Ends, End, PodsTypeOK
  <2>3. pod'[q] = pod[q]
    BY <1>1, <1>10, <2>1, <2>2 DEF Ends, End, PodsTypeOK
  <2> QED BY <1>3, <2>1, <2>3 DEF Claimed
<1>11. ASSUME NEW p \in Processes, Abandons(p) PROVE owner'[pod'[q].block] = q
  <2>1. q # p /\ q \in live
    BY <1>11 DEF Abandons, EndLease
  <2>2. pod'[q] = pod[q]
    BY <1>1, <1>11, <2>1 DEF Abandons, PodsTypeOK
  <2>3. owner[pod[q].block] = q /\ pod[q].block \in PBs
    BY <1>1, <1>3, <1>5, <1>6, <2>1, <2>2 DEF Claimed
  <2> QED BY <1>11, <2>1, <2>2, <2>3 DEF Abandons, EndLease
<1>12. ASSUME NEW p \in Processes, Claim(p) PROVE owner'[pod'[q].block] = q
  <2>1. pod[p] \in PodStates
    BY <1>1, <1>12, PodCases DEF Claim, At, PodsTypeOK, Running
  <2>2. /\ owner[pod[p].block] = None
        /\ owner' = [owner EXCEPT ![pod[p].block] = p]
        /\ live' = live \union {p}
    BY <1>12 DEF Claim, TakeProcessingBlock
  <2>3. CASE q = p
    <3>1. pod'[p] = [pod[p] EXCEPT !.at = "took"]
      BY <1>1, <1>3, <1>4, <1>12, <2>3 DEF Claim, Goto, End, PodsTypeOK
    <3>2. pod'[p].block = pod[p].block
      BY <2>1, <3>1, MovedPod DEF Running
    <3> QED BY <1>1, <1>5, <2>1, <2>2, <2>3, <3>2 DEF PodStates
  <2>4. CASE q # p
    <3>1. q \in live /\ pod'[q] = pod[q]
      BY <1>1, <1>12, <2>2, <2>4 DEF Claim, Goto, End, PodsTypeOK
    <3>2. owner[pod[q].block] = q
      BY <1>3, <3>1 DEF Claimed
    <3>3. pod[q].block # pod[p].block
      BY <1>1, <1>2, <2>2, <3>1, <3>2
    <3>4. pod[q].block \in PBs
      BY <1>1, <1>3, <1>5, <1>6, <3>1
    <3> QED BY <1>1, <2>2, <3>1, <3>2, <3>3, <3>4
  <2> QED BY <2>3, <2>4
<1>13. ASSUME NEW p \in Processes, NEW at \in Running, Moves(p, at)
       PROVE  owner'[pod'[q].block] = q
  <2>1. UNCHANGED <<owner, live>>
    BY <1>13 DEF Moves
  <2>2. CASE q = p
    <3>1. pod[p] \in PodStates /\ pod'[p] = [pod[p] EXCEPT !.at = at]
      BY <1>1, <1>5, <1>13 DEF Moves, Goto, PodsTypeOK
    <3>2. pod'[p].at = at /\ pod'[p].block = pod[p].block
      BY <3>1, MovedPod
    <3>3. pod[p].at = "took"
      BY <1>3, <1>13, <2>2, <3>2 DEF Moves
    <3> QED BY <2>1, <2>2, <3>2, <3>3 DEF Claimed
  <2>3. CASE q # p
    <3>1. pod'[q] = pod[q]
      BY <1>1, <1>13, <2>1, <2>3 DEF Moves, Goto, PodsTypeOK
    <3> QED BY <1>3, <2>1, <3>1 DEF Claimed
  <2> QED BY <2>2, <2>3
<1> QED BY <1>7, <1>8, <1>9, <1>10, <1>11, <1>12, <1>13, StepKinds

LEMMA ClaimedInit == Init => Claimed
BY DEF Init, ConfigInit, Claimed

(* As long as no user deletes owner entries, two workflows with live leases *)
(* never work on the same block, however often pods are killed, restarted   *)
(* or lose their leases.                                                    *)
THEOREM OneWorkflowPerBlock ==
    ASSUME Recursive \subseteq {FALSE}
    PROVE  Spec => []OneAtWork
<1>1. TypeOK /\ Claimed /\ [Next]_vars => Claimed'
  BY ClaimedStep
<1>2. Spec => []Claimed
  BY <1>1, ClaimedInit, TypeCorrect, PTL DEF Spec
<1> QED BY <1>2, ClaimedAlone, PTL

-----------------------------------------------------------------------------
(* The refinement to Leases.                                                *)

(* Who has not claimed a block since it was started has no lease.           *)
Fresh == \A p \in live : pod[p] # Free /\ pod[p].at # "start"

LEMMA FreshInit == Init => Fresh
BY DEF Init, ConfigInit, Fresh

LEMMA FreshStep ==
    ASSUME TypeOK, Fresh, [Next]_vars
    PROVE  Fresh'
<1>1. PodsTypeOK /\ live \subseteq Processes
  BY DEF TypeOK, ClusterTypeOK, PodsTypeOK, ConfigTypeOK
<1>2. SUFFICES ASSUME NEW q \in live'
               PROVE  pod'[q] # Free /\ pod'[q].at # "start"
  BY DEF Fresh
<1>3. Free.at \notin Running /\ Dead.at \notin Running /\ Dead # Free
  BY DEF Free, Dead, Running
<1>4. CASE Quiet
  BY <1>1, <1>3, <1>4 DEF Quiet, SamePods, Fresh
<1>5. ASSUME NEW b \in PBs, Clears(b) PROVE pod'[q] # Free /\ pod'[q].at # "start"
  BY <1>5 DEF Clears, Fresh
<1>6. ASSUME NEW p \in Processes, NEW b \in PBs, StartPod(p, b)
      PROVE  pod'[q] # Free /\ pod'[q].at # "start"
  <2>1. q \in live /\ q # p
    BY <1>6 DEF StartPod, configVars, Fresh
  <2> QED BY <1>1, <1>6, <2>1 DEF StartPod, PodsTypeOK, Fresh
<1>7. ASSUME NEW p \in Processes, Ends(p) PROVE pod'[q] # Free /\ pod'[q].at # "start"
  <2>1. q \in live /\ (pod'[q] = pod[q] \/ pod'[q] = Dead)
    BY <1>1, <1>7 DEF Ends, End, PodsTypeOK
  <2> QED BY <1>3, <2>1 DEF Fresh, Running
<1>8. ASSUME NEW p \in Processes, Abandons(p) PROVE pod'[q] # Free /\ pod'[q].at # "start"
  <2>1. q \in live /\ q # p
    BY <1>8 DEF Abandons, EndLease
  <2>2. pod'[q] = pod[q]
    BY <1>1, <1>8, <2>1 DEF Abandons, PodsTypeOK
  <2> QED BY <2>1, <2>2 DEF Fresh
<1>9. ASSUME NEW p \in Processes, Claim(p) PROVE pod'[q] # Free /\ pod'[q].at # "start"
  <2>1. pod[p] \in PodStates /\ live' = live \union {p}
    BY <1>1, <1>9, PodCases DEF Claim, At, TakeProcessingBlock, PodsTypeOK, Running
  <2>2. CASE q = p
    <3>1. pod'[q] = Dead \/ pod'[q] = [pod[p] EXCEPT !.at = "took"]
      BY <1>1, <1>9, <2>1, <2>2 DEF Claim, Goto, End, PodsTypeOK
    <3>2. [pod[p] EXCEPT !.at = "took"].at = "took" /\ "took" \in Running
      BY <2>1, MovedPod DEF Running
    <3> QED BY <1>3, <3>1, <3>2 DEF Running
  <2>3. CASE q # p
    <3>1. q \in live /\ pod'[q] = pod[q]
      BY <1>1, <1>9, <2>1, <2>3 DEF Claim, Goto, End, PodsTypeOK
    <3> QED BY <3>1 DEF Fresh
  <2> QED BY <2>2, <2>3
<1>10. ASSUME NEW p \in Processes, NEW at \in Running, Moves(p, at)
       PROVE  pod'[q] # Free /\ pod'[q].at # "start"
  <2>1. q \in live
    BY <1>10 DEF Moves
  <2>2. CASE q = p
    <3>1. pod[p] \in PodStates /\ pod'[p] = [pod[p] EXCEPT !.at = at] /\ at # "start"
      BY <1>1, <1>10, PodCases DEF Moves, Goto, PodsTypeOK
    <3>2. pod'[p].at = at
      BY <3>1, MovedPod
    <3> QED BY <1>3, <2>2, <3>1, <3>2
  <2>3. CASE q # p
    <3>1. pod'[q] = pod[q]
      BY <1>1, <1>10, <2>1, <2>3 DEF Moves, Goto, PodsTypeOK
    <3> QED BY <2>1, <3>1 DEF Fresh
  <2> QED BY <2>2, <2>3
<1> QED BY <1>4, <1>5, <1>6, <1>7, <1>8, <1>9, <1>10, StepKinds

(* What the processes work on, as a function.                               *)
AtWork == [p \in Processes |-> WorkOf(p)]

(* A step of one process leaves the work of the others alone.               *)
LEMMA WorkMoves ==
    ASSUME NEW p \in Processes, NEW w, WorkOf(p)' = w,
           \A q \in Processes \ {p} : WorkOf(q)' = WorkOf(q)
    PROVE  AtWork' = [AtWork EXCEPT ![p] = w]
BY DEF AtWork

LEMMA WorkStays ==
    ASSUME \A q \in Processes : WorkOf(q)' = WorkOf(q)
    PROVE  AtWork' = AtWork
BY DEF AtWork

(* Ends, leaves idle, or moves on: the process works no more, or as before. *)
LEMMA WorkEnds ==
    ASSUME NEW p \in Processes, UNCHANGED <<owner, live>>,
           WorkOf(p)' \in {None, WorkOf(p)},
           \A q \in Processes \ {p} : WorkOf(q)' = WorkOf(q)
    PROVE  Ownership!Stop(p) \/ UNCHANGED <<owner, live, AtWork>>
<1>1. CASE WorkOf(p)' = WorkOf(p)
  BY <1>1, WorkStays
<1>2. CASE WorkOf(p)' # WorkOf(p)
  <2>1. AtWork' = [AtWork EXCEPT ![p] = None] /\ AtWork[p] # None
    BY <1>2, WorkMoves DEF AtWork
  <2> QED BY <2>1 DEF Ownership!Stop, AtWork
<1> QED BY <1>1, <1>2

LEMMA LeasesStep ==
    ASSUME TypeOK, Fresh, [Next]_vars
    PROVE  [Ownership!Next]_(Ownership!vars)
<1>1. /\ PodsTypeOK
      /\ owner \in [PBs -> Processes \union {None}]
      /\ live \subseteq Processes
  BY DEF TypeOK, ClusterTypeOK, PodsTypeOK, ConfigTypeOK
<1>2. UNCHANGED <<owner, live, AtWork>> => UNCHANGED Ownership!vars
  BY DEF Ownership!vars, AtWork
<1>3. Free.at \notin {"took", "idle"} /\ Dead.at \notin {"took", "idle"}
  BY DEF Free, Dead
<1>4. CASE Quiet
  <2>1. ASSUME NEW q \in Processes PROVE WorkOf(q)' = WorkOf(q)
    BY <1>4 DEF Quiet, SamePods, WorkOf
  <2> QED BY <1>2, <1>4, <2>1, WorkStays DEF Quiet
<1>5. ASSUME NEW b \in PBs, Clears(b) PROVE Ownership!Revoke(b)
  BY <1>5 DEF Clears, Ownership!Revoke, WorkOf
<1>6. ASSUME NEW p \in Processes, NEW b \in PBs, StartPod(p, b)
      PROVE  UNCHANGED <<owner, live, AtWork>>
  <2>1. pod' = [pod EXCEPT ![p] = [at |-> "start", block |-> b, stopping |-> FALSE]]
    BY <1>6 DEF StartPod
  <2>2. ASSUME NEW q \in Processes PROVE WorkOf(q)' = WorkOf(q)
    BY <1>1, <1>3, <1>6, <2>1 DEF StartPod, PodsTypeOK, WorkOf
  <2> QED BY <1>6, <2>2, WorkStays DEF StartPod, configVars
<1>7. ASSUME NEW p \in Processes, Ends(p)
      PROVE  Ownership!Stop(p) \/ UNCHANGED <<owner, live, AtWork>>
  <2>1. WorkOf(p)' = None
    BY <1>1, <1>3, <1>7 DEF Ends, End, PodsTypeOK, WorkOf
  <2>2. ASSUME NEW q \in Processes \ {p} PROVE WorkOf(q)' = WorkOf(q)
    BY <1>1, <1>7 DEF Ends, End, PodsTypeOK, WorkOf
  <2> QED BY <1>7, <2>1, <2>2, WorkEnds DEF Ends
<1>8. ASSUME NEW p \in Processes, Abandons(p)
      PROVE  Ownership!LeaseEnds(p) \/ UNCHANGED <<owner, live, AtWork>>
  <2>1. ASSUME NEW q \in Processes PROVE WorkOf(q)' = WorkOf(q)
    BY <1>1, <1>3, <1>8 DEF Abandons, PodsTypeOK, WorkOf
  <2>2. AtWork' = AtWork
    BY <2>1, WorkStays
  <2>3. CASE p \in live
    BY <1>8, <2>2, <2>3 DEF Abandons, EndLease, Ownership!LeaseEnds, AtWork
  <2>4. CASE p \notin live
    BY <1>1, <1>8, <2>2, <2>4 DEF Abandons, EndLease
  <2> QED BY <2>3, <2>4
<1>9. ASSUME NEW p \in Processes, Claim(p)
      PROVE  \E b \in PBs : Ownership!Take(p, b)
  <2> DEFINE b == pod[p].block
  <2>1. pod[p] \in PodStates /\ pod[p].at = "start" /\ b \in PBs
    BY <1>1, <1>9, PodCases DEF Claim, At, PodsTypeOK, PodStates, Running
  <2>2. owner[b] = None /\ owner' = [owner EXCEPT ![b] = p] /\ live' = live \union {p}
    BY <1>9 DEF Claim, TakeProcessingBlock
  <2>3. p \notin live /\ AtWork[p] = None
    BY <2>1 DEF Fresh, AtWork, WorkOf
  <2>4. ASSUME NEW q \in Processes \ {p} PROVE WorkOf(q)' = WorkOf(q)
    BY <1>1, <1>9 DEF Claim, Goto, End, PodsTypeOK, WorkOf
  <2>5. WorkOf(p)' \in {None, b}
    <3>1. pod'[p] = Dead \/ pod'[p] = [pod[p] EXCEPT !.at = "took"]
      BY <1>1, <1>9, <2>2 DEF Claim, Goto, End, PodsTypeOK
    <3>2. [pod[p] EXCEPT !.at = "took"].block = b
      BY <2>1, MovedPod DEF Running
    <3> QED BY <1>3, <3>1, <3>2 DEF WorkOf
  <2>6. AtWork' \in {AtWork, [AtWork EXCEPT ![p] = b]}
    <3>1. AtWork' = [AtWork EXCEPT ![p] = None] \/ AtWork' = [AtWork EXCEPT ![p] = b]
      BY <2>4, <2>5, WorkMoves
    <3>2. [AtWork EXCEPT ![p] = None] = AtWork
      BY <2>3 DEF AtWork
    <3> QED BY <3>1, <3>2
  <2>7. Ownership!Take(p, b)
    BY <2>2, <2>3, <2>6 DEF Ownership!Take, AtWork
  <2> QED BY <2>1, <2>7
<1>10. ASSUME NEW p \in Processes, NEW at \in Running, Moves(p, at)
       PROVE  Ownership!Stop(p) \/ UNCHANGED <<owner, live, AtWork>>
  <2>1. pod[p] \in PodStates /\ pod'[p] = [pod[p] EXCEPT !.at = at]
    BY <1>1, <1>10, PodCases DEF Moves, Goto, PodsTypeOK
  <2>2. pod'[p].at = at /\ pod'[p].block = pod[p].block
    BY <2>1, MovedPod
  <2>3. WorkOf(p)' \in {None, WorkOf(p)}
    BY <1>10, <2>2 DEF Moves, WorkOf
  <2>4. ASSUME NEW q \in Processes \ {p} PROVE WorkOf(q)' = WorkOf(q)
    BY <1>1, <1>10 DEF Moves, Goto, PodsTypeOK, WorkOf
  <2> QED BY <1>10, <2>3, <2>4, WorkEnds DEF Moves
<1> QED BY <1>2, <1>4, <1>5, <1>6, <1>7, <1>8, <1>9, <1>10, StepKinds DEF Ownership!Next

LEMMA LeasesInit == Init => Ownership!Init
<1>1. Init => \A p \in Processes : WorkOf(p) = None
  BY DEF Init, ClusterInit, WorkOf, Free
<1> QED BY <1>1 DEF Init, ConfigInit, Ownership!Init

(* take_processing_block, the client leases and the way workflows use them  *)
(* keep the promises of Leases: whatever is killed, restarted, expires or   *)
(* comes late, blocks are only taken when nobody holds them, by processes   *)
(* that have not claimed another, and only lost with the lease.             *)
THEOREM OwnershipIsLeased == Spec => ImplementsLeases
<1>1. TypeOK /\ Fresh /\ [Next]_vars => Fresh'
  BY FreshStep
<1>2. TypeOK /\ Fresh /\ [Next]_vars => [Ownership!Next]_(Ownership!vars)
  BY LeasesStep
<1> QED BY <1>1, <1>2, FreshInit, LeasesInit, TypeCorrect, PTL
        DEF Spec, ImplementsLeases, Ownership!Spec

-----------------------------------------------------------------------------
(* The list of the deployer.                                                *)

(* While a turn is under way, what is left of its loops agrees with the     *)
(* list: neither is uninstalled what is not on it, nor installed what is.   *)
TurnIsSound ==
    deployer = "busy" =>
        /\ toDelete \subseteq known
        /\ toAdd \intersect known = {}
        /\ \A d \in toAdd : target[d] # None

ListInv == ListIsTrue /\ TurnIsSound

(* Steps of others change the releases by removing one by hand only.        *)
LEMMA OthersLeaveList ==
    ASSUME ListInv, UNCHANGED deployerVars,
           release' = release \/ \E d \in DeployIds : RemoveRelease(d)
    PROVE  ListInv'
<1>1. TurnIsSound'
  BY DEF ListInv, TurnIsSound, deployerVars
<1>2. CASE release' = release
  BY <1>1, <1>2 DEF ListInv, ListIsTrue, Releases, deployerVars
<1>3. ASSUME NEW d \in DeployIds, RemoveRelease(d)
      PROVE  ListIsTrue'
  <2>1. Releases' \subseteq Releases
    BY <1>3 DEF RemoveRelease, HelmUninstall, Releases
  <2>2. "removal" \in FaultKinds
    BY <1>3 DEF RemoveRelease, Fault
  <2> QED BY <2>1, <2>2 DEF ListInv, ListIsTrue, deployerVars
<1> QED BY <1>1, <1>2, <1>3 DEF ListInv

(* What the calls of helm do to the releases.                               *)
LEMMA HelmReleases ==
    ASSUME ReleasesTypeOK, NEW d \in DeployIds, NEW a
    PROVE  /\ HelmInstall(d, a) /\ a # None => Releases' = Releases \union {d}
           /\ HelmUninstall(d) => Releases' = Releases \ {d}
BY DEF ReleasesTypeOK, Releases, HelmInstall, HelmUninstall

LEMMA DeployerKeepsList ==
    ASSUME TypeOK, ListInv, DeployerNext
    PROVE  ListInv'
<1>1. ReleasesTypeOK /\ known \subseteq DeployIds /\ toAdd \subseteq DeployIds
  BY DEF TypeOK, ClusterTypeOK, ReleasesTypeOK, DeployerTypeOK
<1>2. CASE StartDeployer \/ EndTurn \/ StopDeployer
  <2>1. Releases' = Releases
    BY <1>2 DEF StartDeployer, EndTurn, StopDeployer, clusterVars, Releases
  <2> QED BY <1>2, <2>1 DEF StartDeployer, EndTurn, StopDeployer, KnownAtStart, ListInv,
                            ListIsTrue, TurnIsSound
<1>3. CASE BeginTurn
  <2>1. Releases' = Releases
    BY <1>3 DEF BeginTurn, clusterVars, Releases
  <2>2. TurnIsSound'
    BY <1>3 DEF BeginTurn, TurnIsSound, Deployments
  <2> QED BY <1>3, <2>1, <2>2 DEF BeginTurn, ListInv, ListIsTrue
<1>4. ASSUME NEW d \in DeployIds, Uninstall(d)
      PROVE  ListInv'
  <2>1. Releases' = Releases \ {d}
    BY <1>1, <1>4, HelmReleases DEF Uninstall
  <2>2. TurnIsSound'
    BY <1>4 DEF Uninstall, ListInv, TurnIsSound
  <2> QED BY <1>4, <2>1, <2>2 DEF Uninstall, ListInv, ListIsTrue
<1>5. ASSUME NEW d \in DeployIds, UninstallFails(d)
      PROVE  ListInv'
  <2>1. \/ Releases' = Releases
        \/ Releases' = Releases \ {d} /\ "uninstall" \in FaultKinds
    BY <1>1, <1>5, HelmReleases DEF UninstallFails, Fault, clusterVars, Releases
  <2>2. TurnIsSound'
    BY <1>5 DEF UninstallFails, ListInv, TurnIsSound
  <2> QED BY <1>5, <2>1, <2>2 DEF UninstallFails, ListInv, ListIsTrue
<1>6. ASSUME NEW d \in DeployIds, Install(d)
      PROVE  ListInv'
  <2>1. target[d] # None
    BY <1>6 DEF Install, ListInv, TurnIsSound
  <2>2. Releases' = Releases \union {d}
    BY <1>1, <1>6, <2>1, HelmReleases DEF Install
  <2>3. TurnIsSound'
    BY <1>6 DEF Install, ListInv, TurnIsSound
  <2> QED BY <1>6, <2>2, <2>3 DEF Install, ListInv, ListIsTrue
<1>7. ASSUME NEW d \in DeployIds, InstallFails(d)
      PROVE  ListInv'
  <2>1. target[d] # None
    BY <1>7 DEF InstallFails, ListInv, TurnIsSound
  <2>2. \/ Releases' = Releases
        \/ Releases' = Releases \union {d} /\ "leftover" \in FaultKinds
    BY <1>1, <1>7, <2>1, HelmReleases DEF InstallFails, Fault, clusterVars, Releases
  <2>3. TurnIsSound'
    BY <1>7 DEF InstallFails, ListInv, TurnIsSound
  <2> QED BY <1>7, <2>2, <2>3 DEF InstallFails, ListInv, ListIsTrue
<1>8. ASSUME NEW d \in DeployIds, Purge(d)
      PROVE  ListInv'
  <2>1. d \notin known
    BY <1>8 DEF Purge, ListInv, TurnIsSound
  <2>2. Releases' = Releases \/ Releases' = Releases \ {d}
    BY <1>1, <1>8, HelmReleases DEF Purge, clusterVars, Releases
  <2>3. TurnIsSound'
    BY <1>8 DEF Purge, ListInv, TurnIsSound
  <2> QED BY <1>8, <2>1, <2>2, <2>3 DEF Purge, ListInv, ListIsTrue
<1> QED BY <1>2, <1>3, <1>4, <1>5, <1>6, <1>7, <1>8 DEF DeployerNext

LEMMA ListStep ==
    ASSUME TypeOK, ListInv, [Next]_vars
    PROVE  ListInv'
<1>1. CASE DeployerNext
  BY <1>1, DeployerKeepsList
<1>2. CASE ~DeployerNext
  <2>1. UNCHANGED deployerVars
    BY <1>2 DEF Next, vars
  <2>2. release' = release \/ \E d \in DeployIds : RemoveRelease(d)
    <3>1. CASE UNCHANGED vars
      BY <3>1 DEF vars, clusterVars
    <3>2. CASE User /\ UNCHANGED <<clusterVars, faults, controllerVars, deployerVars>>
      BY <3>2 DEF clusterVars
    <3>3. CASE ControllerNext
      BY <3>3 DEF ControllerNext, StartController, ControllerTurn, ControllerTurnFails,
                  StopController, clusterVars
    <3>4. CASE WorkflowNext
      BY <3>4 DEF WorkflowNext, Workflow, Claim, ClaimFails, Deploy, DeployFails, LeaveIdle,
                  CleanUp, Close
    <3>5. CASE ClusterNext
      BY <3>5 DEF ClusterNext, StartPod, StopPod, KillPod, ExpireLease, LoseLease
    <3> QED BY <1>2, <3>1, <3>2, <3>3, <3>4, <3>5 DEF Next
  <2> QED BY <2>1, <2>2, OthersLeaveList
<1> QED BY <1>1, <1>2

LEMMA ListInit == Init => ListInv
BY DEF Init, DeployerInit, ListInv, ListIsTrue, TurnIsSound

(* The releases the deployer believes in are the releases there are, in     *)
(* whatever order deployments come and go, calls of helm fail and the       *)
(* deployer restarts: only a release that a failed call of helm left or     *)
(* removed, or that somebody removes by hand, sets them apart.              *)
THEOREM DeployerListIsTrue == Spec => []ListIsTrue
<1>1. TypeOK /\ ListInv /\ [Next]_vars => ListInv'
  BY ListStep
<1>2. ListInv => ListIsTrue
  BY DEF ListInv
<1> QED BY <1>1, <1>2, ListInit, TypeCorrect, PTL DEF Spec

-----------------------------------------------------------------------------
(* What is deployed as a workflow is in the definition file.                *)

(* However definitions and blocks change between the turns of the services: *)
(* no workflow is ever installed that the definition file does not list.    *)
OnlySupportedRuns ==
    \A b \in PBs : WorkflowOf(b) \notin HandMade =>
        release[WorkflowOf(b)] \in Supported \union {None}

(* What leads to an installation.                                           *)
Lawful(a) == a \in Supported \union {None}

OnlySupportedAsked ==
    /\ defs \subseteq Supported
    /\ \A b \in PBs : WorkflowOf(b) \notin HandMade =>
         /\ Lawful(dep[WorkflowOf(b)])
         /\ Lawful(target[WorkflowOf(b)])

RunsInv == OnlySupportedRuns /\ OnlySupportedAsked

(* Every service passes on what it found, at the most: entries of a         *)
(* workflow deployment, of the snapshot and of the releases are cleared or  *)
(* stem from the definitions, the entries and the snapshot, in that order.  *)
LEMMA PassedOn ==
    ASSUME RunsInv,
           defs' \subseteq defs \/ defs' = Supported,
           \A b \in PBs : WorkflowOf(b) \notin HandMade =>
               /\ \/ dep'[WorkflowOf(b)] \in {None, dep[WorkflowOf(b)]}
                  \/ dep'[WorkflowOf(b)] \in defs'
               /\ target'[WorkflowOf(b)] \in {None, target[WorkflowOf(b)], dep[WorkflowOf(b)]}
               /\ release'[WorkflowOf(b)]
                     \in {None, release[WorkflowOf(b)], target[WorkflowOf(b)]}
    PROVE  RunsInv'
<1>1. defs' \subseteq Supported
  BY DEF RunsInv, OnlySupportedAsked
<1>2. ASSUME NEW b \in PBs, WorkflowOf(b) \notin HandMade
      PROVE  /\ Lawful(dep'[WorkflowOf(b)])
             /\ Lawful(target'[WorkflowOf(b)])
             /\ Lawful(release'[WorkflowOf(b)])
  BY <1>1, <1>2 DEF RunsInv, OnlySupportedRuns, OnlySupportedAsked, Lawful
<1> QED BY <1>1, <1>2 DEF RunsInv, OnlySupportedRuns, OnlySupportedAsked, Lawful, WorkflowOf

LEMMA UserKeepsRuns ==
    ASSUME TypeOK, RunsInv, User,
           UNCHANGED <<clusterVars, faults, controllerVars, deployerVars>>
    PROVE  RunsInv'
<1>1. UNCHANGED <<defs, target, release>>
  BY DEF clusterVars, controllerVars, deployerVars, turnVars
<1>2. ASSUME NEW b \in PBs, WorkflowOf(b) \notin HandMade
      PROVE  dep'[WorkflowOf(b)] = dep[WorkflowOf(b)]
  <2>1. CASE UNCHANGED dep
    BY <2>1
  <2>2. ASSUME NEW d \in HandMade, CreateDeployment(d, Engine)
        PROVE  dep'[WorkflowOf(b)] = dep[WorkflowOf(b)]
    <3>1. dep \in [DeployIds -> Args \union {None}] /\ d # WorkflowOf(b)
      BY <1>2 DEF TypeOK, ConfigTypeOK
    <3>2. WorkflowOf(b) \in DeployIds
      BY ClusterAssumption DEF WorkflowOf, DeployIds
    <3> QED BY <2>2, <3>1, <3>2 DEF CreateDeployment
  <2> QED BY <2>1, <2>2 DEF User, UserCreates, UserDeletes, UserDeploys,
                            CreateProcessingBlock, DeleteProcessingBlock
<1> QED BY <1>1, <1>2, PassedOn

LEMMA ControllerKeepsRuns ==
    ASSUME TypeOK, RunsInv, ControllerNext, UNCHANGED <<deployerVars, uses>>
    PROVE  RunsInv'
<1>1. UNCHANGED <<target, release>>
  BY DEF ControllerNext, StartController, ControllerTurn, ControllerTurnFails,
         StopController, clusterVars, deployerVars, turnVars
<1>2. defs' \subseteq defs \/ defs' = Supported
  BY DEF ControllerNext, StartController, ControllerTurn, ControllerTurnFails,
         StopController, RefreshDefinitions, FetchDefinitions
<1>3. ASSUME NEW b \in PBs
      PROVE  \/ dep'[WorkflowOf(b)] \in {None, dep[WorkflowOf(b)]}
             \/ dep'[WorkflowOf(b)] \in defs'
  <2>1. CASE UNCHANGED dep
    BY <2>1
  <2>2. ASSUME NEW outcome, ControllerTurn(outcome)
        PROVE  \/ dep'[WorkflowOf(b)] \in {None, dep[WorkflowOf(b)]}
               \/ dep'[WorkflowOf(b)] \in defs'
    <3>1. WorkflowOf(b) \in DeployIds /\ PbOf(WorkflowOf(b)) = b
      BY ClusterAssumption DEF WorkflowOf, DeployIds, PbOf
    <3>2. ASSUME NEW c \in ToDeploy, WorkflowOf(b) = WorkflowOf(c)
          PROVE  pb[b] \in defs'
      BY <3>2 DEF ToDeploy, WorkflowOf
    <3> QED BY <2>2, <3>1, <3>2 DEF ControllerTurn
  <2> QED BY <2>1, <2>2 DEF ControllerNext, StartController, ControllerTurnFails,
                            StopController, configVars
<1> QED BY <1>1, <1>2, <1>3, PassedOn

LEMMA DeployerKeepsRuns ==
    ASSUME TypeOK, RunsInv, DeployerNext, UNCHANGED <<controllerVars, uses>>
    PROVE  RunsInv'
<1>1. UNCHANGED <<defs, dep>>
  BY DEF DeployerNext, StartDeployer, BeginTurn, Uninstall, UninstallFails, Install,
         InstallFails, Purge, EndTurn, StopDeployer, configVars, controllerVars
<1>2. ASSUME NEW b \in PBs
      PROVE  target'[WorkflowOf(b)] \in {None, target[WorkflowOf(b)], dep[WorkflowOf(b)]}
  <2>1. WorkflowOf(b) \in DeployIds
    BY ClusterAssumption DEF WorkflowOf, DeployIds
  <2>2. target' \in {target, dep, NoTarget}
    BY DEF DeployerNext, StartDeployer, BeginTurn, Uninstall, UninstallFails, Install,
           InstallFails, Purge, EndTurn, StopDeployer, NoTurn, turnVars
  <2> QED BY <2>1, <2>2 DEF NoTarget
<1>3. ASSUME NEW b \in PBs
      PROVE  release'[WorkflowOf(b)] \in {None, release[WorkflowOf(b)], target[WorkflowOf(b)]}
  <2>1. \/ release' = release
        \/ \E d \in DeployIds : HelmUninstall(d) \/ HelmInstall(d, target[d])
    BY DEF DeployerNext, StartDeployer, BeginTurn, Uninstall, UninstallFails, Install,
           InstallFails, Purge, EndTurn, StopDeployer, clusterVars
  <2>2. release \in [DeployIds -> Args \union {None}] /\ WorkflowOf(b) \in DeployIds
    BY ClusterAssumption DEF TypeOK, ClusterTypeOK, WorkflowOf, DeployIds
  <2>3. ASSUME NEW d \in DeployIds, HelmUninstall(d)
        PROVE  release'[WorkflowOf(b)] \in {None, release[WorkflowOf(b)]}
    BY <2>2, <2>3 DEF HelmUninstall
  <2>4. ASSUME NEW d \in DeployIds, HelmInstall(d, target[d])
        PROVE  release'[WorkflowOf(b)] \in {release[WorkflowOf(b)], target[WorkflowOf(b)]}
    BY <2>2, <2>4 DEF HelmInstall
  <2> QED BY <2>1, <2>3, <2>4
<1> QED BY <1>1, <1>2, <1>3, PassedOn

LEMMA WorkflowKeepsRuns ==
    ASSUME TypeOK, RunsInv, WorkflowNext, UNCHANGED <<controllerVars, deployerVars, uses>>
    PROVE  RunsInv'
<1>1. PICK p \in Processes : Workflow(p)
  BY DEF WorkflowNext
<1>2. UNCHANGED <<defs, target, release>>
  BY <1>1 DEF Workflow, Claim, ClaimFails, Deploy, DeployFails, LeaveIdle, CleanUp, Close,
              controllerVars, deployerVars, turnVars
<1>3. ASSUME NEW b \in PBs
      PROVE  dep'[WorkflowOf(b)] \in {None, dep[WorkflowOf(b)]}
  <2>1. dep \in [DeployIds -> Args \union {None}] /\ WorkflowOf(b) \in DeployIds
    BY ClusterAssumption DEF TypeOK, ConfigTypeOK, WorkflowOf, DeployIds
  <2>2. CASE Deploy(p)
    <3>1. EngineOf(pod[p].block) # WorkflowOf(b)
      BY WorkflowAssumption DEF EngineOf, WorkflowOf
    <3> QED BY <2>1, <2>2, <3>1 DEF Deploy, CreateDeployment
  <2>3. CASE CleanUp(p)
    BY <2>1, <2>3 DEF CleanUp, DeleteDeployment
  <2>4. CASE ~(Deploy(p) \/ CleanUp(p))
    BY <1>1, <2>4 DEF Workflow, Claim, ClaimFails, DeployFails, LeaveIdle, Close,
                      TakeProcessingBlock, EndLease, configVars
  <2> QED BY <2>2, <2>3, <2>4
<1> QED BY <1>2, <1>3, PassedOn

LEMMA ClusterKeepsRuns ==
    ASSUME TypeOK, RunsInv, ClusterNext, UNCHANGED <<controllerVars, deployerVars, uses>>
    PROVE  RunsInv'
<1>1. UNCHANGED <<defs, target, dep>>
  BY DEF ClusterNext, StartPod, StopPod, KillPod, ExpireLease, LoseLease, RemoveRelease,
         EndLease, configVars, controllerVars, deployerVars, turnVars
<1>2. ASSUME NEW b \in PBs
      PROVE  release'[WorkflowOf(b)] \in {None, release[WorkflowOf(b)]}
  <2>1. release' = release \/ \E d \in DeployIds : HelmUninstall(d)
    BY DEF ClusterNext, StartPod, StopPod, KillPod, ExpireLease, LoseLease, RemoveRelease
  <2>2. release \in [DeployIds -> Args \union {None}] /\ WorkflowOf(b) \in DeployIds
    BY ClusterAssumption DEF TypeOK, ClusterTypeOK, WorkflowOf, DeployIds
  <2>3. ASSUME NEW d \in DeployIds, HelmUninstall(d)
        PROVE  release'[WorkflowOf(b)] \in {None, release[WorkflowOf(b)]}
    BY <2>2, <2>3 DEF HelmUninstall
  <2> QED BY <2>1, <2>3
<1> QED BY <1>1, <1>2, PassedOn

LEMMA RunsStep ==
    ASSUME TypeOK, RunsInv, [Next]_vars
    PROVE  RunsInv'
<1>1. CASE UNCHANGED vars
  BY <1>1 DEF vars, configVars, clusterVars, controllerVars, deployerVars, turnVars,
              RunsInv, OnlySupportedRuns, OnlySupportedAsked, WorkflowOf
<1>2. CASE Next
  BY <1>2, UserKeepsRuns, ControllerKeepsRuns, DeployerKeepsRuns, WorkflowKeepsRuns,
     ClusterKeepsRuns DEF Next
<1> QED BY <1>1, <1>2

LEMMA RunsInit == Init => RunsInv
<1>1. \A b \in PBs : WorkflowOf(b) \in DeployIds
  BY ClusterAssumption DEF WorkflowOf, DeployIds
<1> QED BY <1>1 DEF Init, ConfigInit, ClusterInit, ControllerInit, DeployerInit, NoTarget,
                    RunsInv, OnlySupportedRuns, OnlySupportedAsked, Lawful

(* No workflow is installed for a block that the definition file does not   *)
(* list, whatever users put in a block, whenever the definitions are        *)
(* fetched again, and however old the snapshot is that the deployer works   *)
(* from: unless a user deploys under the id of the workflow by hand.        *)
THEOREM OnlySupportedWorkflowsRun == Spec => []OnlySupportedRuns
<1>1. TypeOK /\ RunsInv /\ [Next]_vars => RunsInv'
  BY RunsStep
<1>2. RunsInv => OnlySupportedRuns
  BY DEF RunsInv
<1> QED BY <1>1, <1>2, RunsInit, TypeCorrect, PTL DEF Spec

-----------------------------------------------------------------------------
(* A step that deletes a deployment of a block that exists.                 *)
LEMMA DeletionStep ==
    ASSUME TypeOK, [Next]_vars,
           NEW d \in DeployIds, dep[d] # None, dep'[d] = None, pb[PbOf(d)] # None
    PROVE  /\ d \in DataOf(EngineOf(PbOf(d)))
           /\ \E p \in PodsOf(PbOf(d)) : At(p, "cleanup")
<1>1. /\ dep \in [DeployIds -> Args \union {None}]
      /\ pb \in [PBs -> Workflows \union {None}]
      /\ PbOf(d) \in PBs
      /\ PodsTypeOK
  BY DEF TypeOK, ConfigTypeOK, ClusterTypeOK, PodsTypeOK, DeployIds, PbOf
<1>2. dep' # dep
  OBVIOUS
<1>3. ASSUME NEW e \in DeployIds, NEW a, CreateDeployment(e, a), a # None
      PROVE  FALSE
  BY <1>1, <1>3 DEF CreateDeployment
<1>4. CASE User
  <2>1. PICK e \in HandMade : UserDeploys(e)
    BY <1>2, <1>4 DEF User, UserCreates, UserDeletes, CreateProcessingBlock,
                      DeleteProcessingBlock
  <2> QED BY <1>3, <2>1, UserAssumption, ConfigurationAssumption DEF UserDeploys
<1>5. CASE ControllerNext
  <2>1. PICK outcome : ControllerTurn(outcome)
    BY <1>2, <1>5 DEF ControllerNext, StartController, ControllerTurnFails, StopController,
                      configVars
  <2>2. ASSUME NEW e \in Orphans PROVE d \notin DataOf(e)
    <3>1. pb[PbOf(e)] = None
      BY DEF Orphans
    <3>2. \A f \in DataOf(e) : PbOf(f) = PbOf(e)
      BY DEF DataOf, PbOf
    <3> QED BY <3>1, <3>2
  <2>3. dep'[d] \in {pb[PbOf(d)], dep[d]}
    BY <2>1, <2>2 DEF ControllerTurn
  <2> QED BY <2>3
<1>6. CASE WorkflowNext
  <2>1. PICK p \in Processes : Workflow(p)
    BY <1>6 DEF WorkflowNext
  <2>2. pod[p] \in PodStates /\ pod[p].at \in Running
    <3>1. pod[p].at \in Running
      BY <2>1 DEF Workflow, Claim, ClaimFails, Deploy, DeployFails, LeaveIdle, CleanUp, Close,
                  At, Running
    <3> QED BY <1>1, <3>1, PodCases DEF PodsTypeOK
  <2> DEFINE b == pod[p].block
  <2>3. b \in PBs /\ EngineOf(b) \in DeployIds
    BY <2>2, WorkflowAssumption DEF PodStates, EngineOf, DeployIds
  <2>4. ~Deploy(p)
    BY <1>3, <2>3, ConfigurationAssumption DEF Deploy
  <2>5. CleanUp(p)
    BY <1>2, <2>1, <2>4 DEF Workflow, Claim, ClaimFails, DeployFails, LeaveIdle, Close,
                            TakeProcessingBlock, EndLease, configVars
  <2>6. d \in DataOf(EngineOf(b))
    BY <2>5 DEF CleanUp, DeleteDeployment
  <2>7. PbOf(d) = b
    BY <2>6 DEF DataOf, EngineOf, PbOf
  <2>8. p \in PodsOf(b) /\ At(p, "cleanup")
    BY <2>2, <2>5 DEF CleanUp, PodsOf
  <2> QED BY <2>6, <2>7, <2>8
<1>7. ~DeployerNext /\ ~ClusterNext /\ ~UNCHANGED vars
  BY <1>2 DEF DeployerNext, StartDeployer, BeginTurn, Uninstall, UninstallFails, Install,
              InstallFails, Purge, EndTurn, StopDeployer, ClusterNext, StartPod, StopPod,
              KillPod, ExpireLease, LoseLease, RemoveRelease, EndLease, configVars, vars
<1> QED BY <1>4, <1>5, <1>6, <1>7 DEF Next

(* A block that exists loses no deployment to the controller, to users or   *)
(* to workflows of other blocks, and to its own workflow only the one that  *)
(* this made: orphans are found and deleted in one transaction.             *)
THEOREM DeletionsStayInBlock == Spec => DeletionStaysInBlock
<1>1. TypeOK /\ [Next]_vars =>
        [\A d \in DeployIds :
           dep[d] # None /\ dep'[d] = None /\ pb[PbOf(d)] # None =>
               /\ d \in DataOf(EngineOf(PbOf(d)))
               /\ \E p \in PodsOf(PbOf(d)) : At(p, "cleanup")]_vars
  BY DeletionStep
<1> QED BY <1>1, TypeCorrect, PTL DEF Spec, DeletionStaysInBlock
=============================================================================
