-------------------- MODULE SelfHealingOrchestrator_proofs --------------------
(***************************************************************************)
(* Proofs about SelfHealingOrchestrator for any flows, plans, agents,      *)
(* timeout and number of failures.                                         *)
(***************************************************************************)
EXTENDS SelfHealingOrchestrator, Totals_proofs, SequenceTheorems

Inv == FailuresCounted /\ CompletedHasAllSteps

-----------------------------------------------------------------------------
(* What the loops of the contract find.                                    *)

\* The least of the places that pass the test of SelectInSeq is one of them.
LEMMA LeastPlace ==
  ASSUME NEW s \in Seq(Agent), NEW I \in SUBSET (1 .. Len(s)), I # {}
  PROVE  Min(I) \in I /\ Min(I) \in DOMAIN s
<1>1. I \in SUBSET Nat
  OBVIOUS
<1>2. \E x \in I : \A y \in I : x <= y
  BY <1>1, LeastExists
<1>3. Min(I) \in I
  BY <1>2 DEF Min
<1>4. QED
  BY <1>3, LenProperties

-----------------------------------------------------------------------------
(* A health check that finds a silent agent.                               *)

\* Of the places of silent agents the loop takes the first; it holds an agent of
\* the flow that has not answered within the timeout.
LEMMA FirstSilent ==
  ASSUME TypeOK, NEW f \in Flow, TimedOut(f) # {}
  PROVE  LET i == CHOOSE j \in TimedOut(f) : \A k \in TimedOut(f) : j <= k
         IN  /\ i \in DOMAIN flowAgents[f]
             /\ flowAgents[f][i] \in Agent
             /\ agentAge[flowAgents[f][i]] > Timeout
<1>1. flowAgents[f] \in Seq(Agent)
  BY DEF TypeOK
<1>2. TimedOut(f) \in SUBSET Nat
  BY <1>1, LenProperties DEF TimedOut
<1>3. \E j \in TimedOut(f) : \A k \in TimedOut(f) : j <= k
  BY <1>2, LeastExists
<1>4. (CHOOSE j \in TimedOut(f) : \A k \in TimedOut(f) : j <= k) \in TimedOut(f)
  BY <1>3
<1>5. QED
  BY <1>1, <1>4, ElementOfSeq, LenProperties DEF TimedOut

\* The check either puts in a backup that counts as active, or marks the silent
\* agent and counts a failure, or ends a flow that does not heal itself.
LEMMA HealingCases ==
  ASSUME TypeOK, NEW f \in Flow, AgentTimedOut(f)
  PROVE  \E old \in Agent :
           /\ agentAge[old] > Timeout
           /\ \E i \in DOMAIN flowAgents[f] : flowAgents[f][i] = old
           /\ \/ \E new \in Agent : Replace(f, old, new)
              \/ /\ agentStatus' = [agentStatus EXCEPT ![old] = "FAILED"]
                 /\ IF autoHeal[f] THEN CountFailure(f) ELSE GiveUp(f)
<1> DEFINE i      == CHOOSE j \in TimedOut(f) : \A k \in TimedOut(f) : j <= k
           old    == flowAgents[f][i]
           status == [agentStatus EXCEPT ![old] = "FAILED"]
           b      == SelectInSeq(backups[old], LAMBDA a : status[a] = "ACTIVE")
<1>1. /\ TimedOut(f) # {}
      /\ IF autoHeal[f] /\ b # 0
         THEN Replace(f, old, backups[old][b])
         ELSE /\ agentStatus' = status
              /\ IF autoHeal[f] THEN CountFailure(f) ELSE GiveUp(f)
  BY DEF AgentTimedOut
<1>2. i \in DOMAIN flowAgents[f] /\ old \in Agent /\ agentAge[old] > Timeout
  BY <1>1, FirstSilent
<1>3. b # 0 => backups[old][b] \in Agent
  <2>1. backups[old] \in Seq(Agent)
    BY <1>2 DEF TypeOK
  <2>2. ASSUME b # 0 PROVE b \in DOMAIN backups[old]
    <3> DEFINE I == {j \in 1 .. Len(backups[old]) : status[backups[old][j]] = "ACTIVE"}
    <3>1. I # {} /\ b = Min(I)
      BY <2>2 DEF SelectInSeq
    <3>2. I \in SUBSET (1 .. Len(backups[old]))
      OBVIOUS
    <3> HIDE DEF i, old, status, b, I
    <3>3. QED
      BY <2>1, <3>1, <3>2, LeastPlace
  <2>3. QED
    BY <2>1, <2>2, ElementOfSeq, LenProperties
<1> HIDE DEF i, old, status, b
<1>4. QED
  BY <1>1, <1>2, <1>3 DEF old, status

\* Putting in a replacement leaves the list as long as it was.
LEMMA ReplaceKeepsPlaces ==
  ASSUME TypeOK, NEW f \in Flow, NEW old \in Agent, NEW new \in Agent,
         NEW i \in DOMAIN flowAgents[f], flowAgents[f][i] = old, Replace(f, old, new)
  PROVE  /\ flowAgents' \in [Flow -> Seq(Agent)]
         /\ \A g \in Flow : DOMAIN flowAgents'[g] = DOMAIN flowAgents[g]
         /\ \A g \in Flow : flowAgents[g] # << >> => flowAgents'[g] # << >>
<1> DEFINE p == SelectInSeq(flowAgents[f], LAMBDA a : a = old)
<1>1. flowAgents[f] \in Seq(Agent) /\ flowAgents \in [Flow -> Seq(Agent)]
  BY DEF TypeOK
<1>2. p \in DOMAIN flowAgents[f]
  <2> DEFINE I == {j \in 1 .. Len(flowAgents[f]) : flowAgents[f][j] = old}
  <2>1. i \in I
    BY <1>1, LenProperties
  <2>2. p = Min(I)
    BY <2>1 DEF SelectInSeq
  <2>3. I \in SUBSET (1 .. Len(flowAgents[f])) /\ I # {}
    BY <2>1
  <2> HIDE DEF I, p
  <2>4. QED
    BY <1>1, <2>2, <2>3, LeastPlace
<1>3. flowAgents' = [flowAgents EXCEPT ![f][p] = new]
  BY DEF Replace
<1> HIDE DEF p
<1>4. [flowAgents[f] EXCEPT ![p] = new] \in Seq(Agent)
  BY <1>1, <1>2, ExceptSeq, LenProperties
<1>5. DOMAIN [flowAgents[f] EXCEPT ![p] = new] = DOMAIN flowAgents[f]
  OBVIOUS
<1>6. flowAgents'[f] = [flowAgents[f] EXCEPT ![p] = new]
  BY <1>1, <1>3
<1>7. \A g \in Flow \ {f} : flowAgents'[g] = flowAgents[g]
  BY <1>1, <1>3
<1>8. flowAgents'[f] # << >>
  BY <1>2, <1>5, <1>6
<1>9. QED
  BY <1>1, <1>3, <1>4, <1>5, <1>6, <1>7, <1>8

-----------------------------------------------------------------------------
(* Every step keeps the invariant.                                         *)

LEMMA InitInv == Init => Inv
<1> SUFFICES ASSUME Init PROVE Inv
  OBVIOUS
<1>1. Timeout \in Nat /\ MaxFailures \in Nat /\ MaxFailures # 0
  BY OrchestratorAssumption
<1>2. TypeOK
  <2>1. /\ << >> \in Seq(Agent) /\ {} \in SUBSET Nat
        /\ Old \in 0 .. Old /\ 0 \in 0 .. MaxFailures
    BY <1>1 DEF Old
  <2>2. flowAge \in [Flow -> 0 .. Old] /\ agentAge \in [Agent -> 0 .. Old]
    BY <2>1 DEF Init
  <2>3. autoHeal \in [Flow -> BOOLEAN] /\ abandoned \in BOOLEAN
    BY DEF Init
  <2>4. QED
    BY <2>1, <2>2, <2>3 DEF Init, TypeOK
<1>3. FailedMeansSilent
  BY DEF Init, FailedMeansSilent
<1>4. FailureBudget
  BY <1>1 DEF Init, FailureBudget
<1>5. CompletedHasAllSteps
  BY DEF Init, CompletedHasAllSteps
<1>6. QED
  BY <1>2, <1>3, <1>4, <1>5 DEF Inv, FailuresCounted

LEMMA CreateStep ==
  ASSUME Inv, NEW f \in Flow, NEW p \in Plans[f], CreateFlow(f, p.agents, p.autoHeal), UNCHANGED abandoned
  PROVE  Inv'
<1>1. p.agents \in Seq(Agent) /\ p.autoHeal \in BOOLEAN /\ 0 # MaxFailures /\ MaxFailures \in Nat
  BY OrchestratorAssumption
<1>2. TypeOK'
  BY <1>1, OrchestratorAssumption
     DEF Inv, FailuresCounted, TypeOK, CreateFlow, agentVars, Old
<1>3. FailedMeansSilent'
  BY DEF Inv, FailuresCounted, FailedMeansSilent, CreateFlow, agentVars
<1>4. FailureBudget'
  BY <1>1 DEF Inv, FailuresCounted, TypeOK, FailureBudget, CreateFlow
<1>5. CompletedHasAllSteps'
  BY DEF Inv, FailuresCounted, TypeOK, CompletedHasAllSteps, CreateFlow
<1>6. QED
  BY <1>2, <1>3, <1>4, <1>5 DEF Inv, FailuresCounted

LEMMA RunningStep ==
  ASSUME Inv, NEW f \in Flow, NEW from \in {"PENDING", "PAUSED"}, SetRunning(f, from), UNCHANGED abandoned
  PROVE  Inv'
<1> USE DEF Inv, FailuresCounted, TypeOK, SetRunning, agentVars
<1>1. TypeOK'
  BY OrchestratorAssumption DEF Old
<1>2. FailedMeansSilent'
  BY DEF FailedMeansSilent
<1>3. FailureBudget'
  BY DEF FailureBudget
<1>4. CompletedHasAllSteps'
  BY DEF CompletedHasAllSteps
<1>5. QED
  BY <1>1, <1>2, <1>3, <1>4

LEMMA PauseStep ==
  ASSUME Inv, NEW f \in Flow, PauseFlow(f), UNCHANGED abandoned
  PROVE  Inv'
<1> USE DEF Inv, FailuresCounted, TypeOK, PauseFlow, agentVars
<1>1. TypeOK'
  OBVIOUS
<1>2. FailedMeansSilent'
  BY DEF FailedMeansSilent
<1>3. FailureBudget'
  BY DEF FailureBudget
<1>4. CompletedHasAllSteps'
  BY DEF CompletedHasAllSteps
<1>5. QED
  BY <1>1, <1>2, <1>3, <1>4

LEMMA BackupStep ==
  ASSUME Inv, NEW a \in Agent, NEW b \in Agent, AddBackupAgent(a, b), UNCHANGED abandoned
  PROVE  Inv'
<1>1. backups' = [backups EXCEPT ![a] = Append(@, b)]
      /\ UNCHANGED <<flowAgents, flowStatus, flowAge, failureCount, autoHeal, stepCompleted,
                     agentStatus, agentAge>>
  BY DEF AddBackupAgent, flowVars, agentVars
<1>2. TypeOK'
  BY <1>1 DEF Inv, FailuresCounted, TypeOK
<1>3. QED
  BY <1>1, <1>2
     DEF Inv, FailuresCounted, FailedMeansSilent, FailureBudget, CompletedHasAllSteps

LEMMA HeartbeatStep ==
  ASSUME Inv, NEW f \in Flow, NEW a \in Agent, ReportHeartbeat(f, a), UNCHANGED abandoned
  PROVE  Inv'
<1> USE DEF Inv, FailuresCounted, TypeOK, ReportHeartbeat
<1>1. TypeOK'
  BY OrchestratorAssumption DEF Old
<1>2. FailedMeansSilent'
  BY DEF FailedMeansSilent
<1>3. FailureBudget' /\ CompletedHasAllSteps'
  BY DEF FailureBudget, CompletedHasAllSteps
<1>4. QED
  BY <1>1, <1>2, <1>3

\* A flow completes only with all steps of a list that is not empty: the step
\* that was reported is one of it.
LEMMA CompletedStep ==
  ASSUME Inv, NEW f \in Flow, NEW i \in DOMAIN flowAgents[f], ReportStepCompleted(f, i),
         UNCHANGED abandoned
  PROVE  Inv'
<1> DEFINE steps == stepCompleted[f] \cup {i}
<1>1. flowAgents[f] \in Seq(Agent) /\ i \in Nat /\ flowAgents[f] # << >>
  BY LenProperties DEF Inv, FailuresCounted, TypeOK
<1>2. /\ flowStatus[f] = "RUNNING"
      /\ stepCompleted' = [stepCompleted EXCEPT ![f] = steps]
      /\ flowStatus' = IF AllDone(f, steps)
                       THEN [flowStatus EXCEPT ![f] = "COMPLETED"] ELSE flowStatus
      /\ UNCHANGED <<flowAgents, flowAge, failureCount, autoHeal, agentStatus, agentAge, backups>>
  BY DEF ReportStepCompleted, agentVars
<1>3. steps \subseteq Nat /\ stepCompleted[f] \subseteq steps
  BY <1>1 DEF Inv, FailuresCounted, TypeOK
<1> HIDE DEF steps
<1>4. TypeOK'
  BY <1>2, <1>3 DEF Inv, FailuresCounted, TypeOK
<1>5. FailedMeansSilent'
  BY <1>2 DEF Inv, FailuresCounted, FailedMeansSilent
<1>6. FailureBudget'
  BY <1>2 DEF Inv, FailuresCounted, TypeOK, FailureBudget
<1>7. CompletedHasAllSteps'
  BY <1>1, <1>2, <1>3 DEF Inv, FailuresCounted, TypeOK, CompletedHasAllSteps, AllDone
<1>8. QED
  BY <1>4, <1>5, <1>6, <1>7 DEF Inv, FailuresCounted

LEMMA ReplacedStep ==
  ASSUME Inv, NEW f \in Flow, flowStatus[f] = "RUNNING", NEW old \in Agent, NEW new \in Agent,
         agentAge[old] > Timeout,
         \E i \in DOMAIN flowAgents[f] : flowAgents[f][i] = old,
         Replace(f, old, new), UNCHANGED <<autoHeal, stepCompleted, backups, abandoned>>
  PROVE  Inv'
<1>1. /\ flowAgents' \in [Flow -> Seq(Agent)]
      /\ \A g \in Flow : DOMAIN flowAgents'[g] = DOMAIN flowAgents[g]
      /\ \A g \in Flow : flowAgents[g] # << >> => flowAgents'[g] # << >>
  BY ReplaceKeepsPlaces DEF Inv, FailuresCounted
<1>2. /\ flowAge' = [flowAge EXCEPT ![f] = 0]
      /\ agentStatus' = [agentStatus EXCEPT ![old] = "FAILED", ![new] = "ACTIVE"]
      /\ agentAge' = [agentAge EXCEPT ![new] = 0]
      /\ UNCHANGED <<flowStatus, failureCount>>
  BY DEF Replace
<1>3. TypeOK'
  <2>1. /\ flowAge \in [Flow -> 0 .. Old] /\ agentAge \in [Agent -> 0 .. Old]
        /\ agentStatus \in [Agent -> {"ACTIVE", "FAILED"}]
    BY DEF Inv, FailuresCounted, TypeOK
  <2>2. 0 \in 0 .. Old
    BY OrchestratorAssumption DEF Old
  <2>3. flowAge' \in [Flow -> 0 .. Old] /\ agentAge' \in [Agent -> 0 .. Old]
    BY <1>2, <2>1, <2>2
  <2>4. agentStatus' \in [Agent -> {"ACTIVE", "FAILED"}]
    BY <1>2, <2>1
  <2>5. QED
    BY <1>1, <1>2, <2>3, <2>4 DEF Inv, FailuresCounted, TypeOK, Old
<1>4. FailedMeansSilent'
  BY <1>2 DEF Inv, FailuresCounted, TypeOK, FailedMeansSilent
<1>5. FailureBudget'
  BY <1>2 DEF Inv, FailuresCounted, FailureBudget
<1>6. CompletedHasAllSteps'
  BY <1>1, <1>2 DEF Inv, CompletedHasAllSteps
<1>7. QED
  BY <1>3, <1>4, <1>5, <1>6 DEF Inv, FailuresCounted

\* A flow that runs and heals itself has failures left, so that counting one more
\* uses them up at most.
LEMMA FailureStep ==
  ASSUME Inv, NEW f \in Flow, flowStatus[f] = "RUNNING",
         IF autoHeal[f] THEN CountFailure(f) ELSE GiveUp(f),
         \/ \E old \in Agent : /\ agentAge[old] > Timeout
                               /\ agentStatus' = [agentStatus EXCEPT ![old] = "FAILED"]
         \/ UNCHANGED agentStatus,
         UNCHANGED <<autoHeal, stepCompleted, backups, abandoned>>
  PROVE  Inv'
<1>1. UNCHANGED <<flowAgents, flowAge, agentAge>>
  BY DEF CountFailure, GiveUp
<1>2. agentStatus' \in [Agent -> {"ACTIVE", "FAILED"}] /\ FailedMeansSilent'
  BY <1>1 DEF Inv, FailuresCounted, TypeOK, FailedMeansSilent
<1>3. CASE autoHeal[f]
  <2>1. failureCount[f] \in 0 .. MaxFailures /\ failureCount[f] # MaxFailures
    BY <1>3 DEF Inv, FailuresCounted, TypeOK, FailureBudget
  <2>2. /\ failureCount' = [failureCount EXCEPT ![f] = failureCount[f] + 1]
        /\ flowStatus' = IF failureCount[f] + 1 >= MaxFailures
                         THEN [flowStatus EXCEPT ![f] = "FAILED"] ELSE flowStatus
    BY <1>3 DEF CountFailure
  <2>3. failureCount[f] + 1 \in 0 .. MaxFailures
    BY <2>1, OrchestratorAssumption
  <2>4. TypeOK'
    BY <1>1, <1>2, <2>2, <2>3 DEF Inv, FailuresCounted, TypeOK
  <2>5. FailureBudget'
    <3>1. flowStatus'[f] = "FAILED" <=> failureCount'[f] = MaxFailures
      <4>1. failureCount'[f] = failureCount[f] + 1
        BY <2>2 DEF Inv, FailuresCounted, TypeOK
      <4>2. flowStatus'[f] = IF failureCount[f] + 1 >= MaxFailures THEN "FAILED" ELSE "RUNNING"
        BY <2>2 DEF Inv, FailuresCounted, TypeOK
      <4>3. MaxFailures \in Nat
        BY OrchestratorAssumption
      <4>4. failureCount[f] + 1 >= MaxFailures <=> failureCount[f] + 1 = MaxFailures
        BY <2>1, <4>3
      <4>5. QED
        BY <4>1, <4>2, <4>4
    <3>2. ASSUME NEW g \in Flow, g # f
          PROVE  flowStatus'[g] = flowStatus[g] /\ failureCount'[g] = failureCount[g]
      BY <2>2, <3>2 DEF Inv, FailuresCounted, TypeOK
    <3>3. QED
      BY <3>1, <3>2 DEF Inv, FailuresCounted, FailureBudget
  <2>6. CompletedHasAllSteps'
    BY <1>1, <2>2 DEF Inv, FailuresCounted, TypeOK, CompletedHasAllSteps
  <2>7. QED
    BY <1>2, <2>4, <2>5, <2>6 DEF Inv, FailuresCounted
<1>4. CASE ~autoHeal[f]
  <2>1. flowStatus' = [flowStatus EXCEPT ![f] = "FAILED"] /\ UNCHANGED failureCount
    BY <1>4 DEF GiveUp
  <2>2. TypeOK'
    BY <1>1, <1>2, <2>1 DEF Inv, FailuresCounted, TypeOK
  <2>3. FailureBudget'
    BY <1>4, <2>1 DEF Inv, FailuresCounted, TypeOK, FailureBudget
  <2>4. CompletedHasAllSteps'
    BY <1>1, <2>1 DEF Inv, FailuresCounted, TypeOK, CompletedHasAllSteps
  <2>5. QED
    BY <1>2, <2>2, <2>3, <2>4 DEF Inv, FailuresCounted
<1>5. QED
  BY <1>3, <1>4

LEMMA HealthStep ==
  ASSUME Inv, NEW f \in Flow, CheckFlowHealth(f)
  PROVE  Inv'
<1>1. /\ flowStatus[f] = "RUNNING"
      /\ UNCHANGED <<autoHeal, stepCompleted, backups, abandoned>>
      /\ AgentTimedOut(f) \/ FlowTimedOut(f)
  BY DEF CheckFlowHealth
<1>2. CASE AgentTimedOut(f)
  <2>1. PICK old \in Agent :
           /\ agentAge[old] > Timeout
           /\ \E i \in DOMAIN flowAgents[f] : flowAgents[f][i] = old
           /\ \/ \E new \in Agent : Replace(f, old, new)
              \/ /\ agentStatus' = [agentStatus EXCEPT ![old] = "FAILED"]
                 /\ IF autoHeal[f] THEN CountFailure(f) ELSE GiveUp(f)
    BY <1>2, HealingCases DEF Inv, FailuresCounted
  <2>2. CASE \E new \in Agent : Replace(f, old, new)
    <3>1. PICK new \in Agent : Replace(f, old, new)
      BY <2>2
    <3>2. /\ agentAge[old] > Timeout
          /\ \E i \in DOMAIN flowAgents[f] : flowAgents[f][i] = old
      BY <2>1
    <3>3. QED
      BY <1>1, <3>1, <3>2, ReplacedStep
  <2>3. CASE /\ agentStatus' = [agentStatus EXCEPT ![old] = "FAILED"]
             /\ IF autoHeal[f] THEN CountFailure(f) ELSE GiveUp(f)
    <3>1. \E a \in Agent : /\ agentAge[a] > Timeout
                           /\ agentStatus' = [agentStatus EXCEPT ![a] = "FAILED"]
      BY <2>1, <2>3
    <3>2. QED
      BY <1>1, <2>3, <3>1, FailureStep
  <2>4. QED
    BY <2>1, <2>2, <2>3
<1>3. CASE FlowTimedOut(f)
  <2>1. (IF autoHeal[f] THEN CountFailure(f) ELSE GiveUp(f)) /\ UNCHANGED agentStatus
    BY <1>3 DEF FlowTimedOut
  <2>2. QED
    BY <1>1, <2>1, FailureStep
<1>4. QED
  BY <1>1, <1>2, <1>3

\* Whoever is older than the timeout stays so.
LEMMA TickStep == Inv /\ Tick => Inv'
<1> SUFFICES ASSUME Inv, Tick PROVE Inv'
  OBVIOUS
<1> USE DEF Inv, FailuresCounted, TypeOK, Tick
<1>1. \A age \in 0 .. Old : Older(age) \in 0 .. Old /\ (age > Timeout => Older(age) > Timeout)
  BY OrchestratorAssumption DEF Older, Old
<1>2. TypeOK'
  BY <1>1
<1>3. FailedMeansSilent'
  BY <1>1 DEF FailedMeansSilent
<1>4. FailureBudget' /\ CompletedHasAllSteps'
  BY DEF FailureBudget, CompletedHasAllSteps
<1>5. QED
  BY <1>2, <1>3, <1>4

\* A step that changes at most `abandoned'.
LEMMA QuietStep == Inv /\ (Abandon \/ UNCHANGED vars) => Inv'
<1> SUFFICES ASSUME Inv, Abandon \/ UNCHANGED vars PROVE Inv'
  OBVIOUS
<1>1. UNCHANGED <<flowAgents, flowStatus, flowAge, failureCount, autoHeal, stepCompleted,
                  agentStatus, agentAge, backups>>
  BY DEF Abandon, vars, flowVars, agentVars
<1>2. abandoned' \in BOOLEAN
  BY DEF Abandon, vars, Inv, FailuresCounted, TypeOK
<1>3. TypeOK'
  BY <1>1, <1>2 DEF Inv, FailuresCounted, TypeOK
<1>4. QED
  BY <1>1, <1>3
     DEF Inv, FailuresCounted, FailedMeansSilent, FailureBudget, CompletedHasAllSteps

LEMMA NextInv == Inv /\ [Next]_vars => Inv'
<1> SUFFICES ASSUME Inv, [Next]_vars PROVE Inv'
  OBVIOUS
<1>1. ASSUME NEW f \in Flow, OwnerStep(f), UNCHANGED abandoned PROVE Inv'
  BY <1>1, CreateStep, RunningStep, PauseStep, BackupStep DEF OwnerStep
<1>2. ASSUME NEW f \in Flow, AgentStep(f), UNCHANGED abandoned PROVE Inv'
  BY <1>2, HeartbeatStep, CompletedStep DEF AgentStep
<1>3. ASSUME NEW f \in Flow, CheckFlowHealth(f) PROVE Inv'
  BY <1>3, HealthStep
<1>4. QED
  BY <1>1, <1>2, <1>3, TickStep, QuietStep DEF Next

-----------------------------------------------------------------------------
\* What healing knows of agents and of its own failures is what happened: an agent
\* counted as failed is silent, and a flow that heals itself fails exactly when its
\* failures are used up.
THEOREM HealingIsHonest == Spec => []FailuresCounted
<1>1. Spec => []Inv
  BY InitInv, NextInv, PTL DEF Spec
<1>2. Inv => FailuresCounted
  BY DEF Inv
<1>3. QED
  BY <1>1, <1>2, PTL

\* A flow counts as completed only with every step of its present list, however
\* often agents were replaced and flows created anew.
THEOREM NoStepSkipped == Spec => []CompletedHasAllSteps
<1>1. Spec => []Inv
  BY InitInv, NextInv, PTL DEF Spec
<1>2. Inv => CompletedHasAllSteps
  BY DEF Inv
<1>3. QED
  BY <1>1, <1>2, PTL
=============================================================================
