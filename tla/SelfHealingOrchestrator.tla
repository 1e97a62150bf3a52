----------------------- MODULE SelfHealingOrchestrator -----------------------
(***************************************************************************)
(* The contract contracts/SelfHealingOrchestrator.sol: flows of agents     *)
(* that report heartbeats and steps, and a health check that replaces a    *)
(* silent agent by a backup or fails the flow.                             *)
(*                                                                         *)
(* Only the time since a report matters and only whether it exceeds the    *)
(* timeout, so the model keeps ages that stop growing at Timeout + 1.      *)
(***************************************************************************)
EXTENDS Naturals, SequencesExt

CONSTANTS
  Flow,         \* flow ids
  Agent,        \* addresses of agents
  Plans,        \* what each flow may be created with: its agents and autoHeal
  Timeout,      \* HEARTBEAT_TIMEOUT in ticks
  MaxFailures,  \* MAX_FAILURES
  MaxBackups    \* bound on the backups registered

ASSUME OrchestratorAssumption ==
  /\ \A f \in Flow : \A p \in Plans[f] :
       p.agents \in Seq(Agent) /\ p.agents # << >> /\ p.autoHeal \in BOOLEAN
  /\ Timeout \in Nat /\ MaxFailures \in Nat \ {0} /\ MaxBackups \in Nat

VARIABLES
  flowAgents,     \* flows[f].agents
  flowStatus,     \* flows[f].status; HEALING lasts within one call only
  flowAge,        \* time since flows[f].lastHeartbeat
  failureCount,   \* flows[f].failureCount
  autoHeal,       \* flows[f].autoHeal
  stepCompleted,  \* steps of f reported as completed
  agentStatus,    \* agents[a].status
  agentAge,       \* time since agents[a].lastResponse
  backups,        \* agents[a].backupAgents
  abandoned       \* whether agents and owner have gone silent for good

flowVars  == <<flowAgents, flowStatus, flowAge, failureCount, autoHeal>>
agentVars == <<agentStatus, agentAge>>
vars == <<flowVars, stepCompleted, agentVars, backups, abandoned>>

Old == Timeout + 1

TypeOK ==
  /\ flowAgents \in [Flow -> Seq(Agent)]
  /\ flowStatus \in [Flow -> {"PENDING", "RUNNING", "PAUSED", "COMPLETED", "FAILED"}]
  /\ flowAge \in [Flow -> 0 .. Old]
  /\ failureCount \in [Flow -> 0 .. MaxFailures]
  /\ autoHeal \in [Flow -> BOOLEAN]
  /\ stepCompleted \in [Flow -> SUBSET Nat]
  /\ agentStatus \in [Agent -> {"ACTIVE", "FAILED"}]
  /\ agentAge \in [Agent -> 0 .. Old]
  /\ backups \in [Agent -> Seq(Agent)]
  /\ abandoned \in BOOLEAN

\* The mappings answer zeros for a flow or an agent nobody created: no agents,
\* PENDING, ACTIVE and a last report at time 0.
Init ==
  /\ flowAgents = [f \in Flow |-> << >>]
  /\ flowStatus = [f \in Flow |-> "PENDING"]
  /\ flowAge = [f \in Flow |-> Old]
  /\ failureCount = [f \in Flow |-> 0]
  /\ autoHeal = [f \in Flow |-> FALSE]
  /\ stepCompleted = [f \in Flow |-> {}]
  /\ agentStatus = [a \in Agent |-> "ACTIVE"]
  /\ agentAge = [a \in Agent |-> Old]
  /\ backups = [a \in Agent |-> << >>]
  /\ abandoned = FALSE

-----------------------------------------------------------------------------
(* The owner.                                                              *)

\* Mutant of CreateFlow: the failures of the former flow stay.
CreateFlow_KeepsFailures(f, list, heal) ==
  /\ flowAgents' = [flowAgents EXCEPT ![f] = list]
  /\ flowStatus' = [flowStatus EXCEPT ![f] = "PENDING"]
  /\ flowAge' = [flowAge EXCEPT ![f] = Old]
  /\ autoHeal' = [autoHeal EXCEPT ![f] = heal]
  /\ UNCHANGED <<failureCount, stepCompleted, agentVars, backups>>

\* A flow of any status may be created anew; its completed steps stay.
CreateFlow(f, list, heal) ==
  /\ flowAgents' = [flowAgents EXCEPT ![f] = list]
  /\ flowStatus' = [flowStatus EXCEPT ![f] = "PENDING"]
  /\ flowAge' = [flowAge EXCEPT ![f] = Old]
  /\ failureCount' = [failureCount EXCEPT ![f] = 0]
  /\ autoHeal' = [autoHeal EXCEPT ![f] = heal]
  /\ UNCHANGED <<stepCompleted, agentVars, backups>>

\* startFlow and resumeFlow.
SetRunning(f, from) ==
  /\ flowStatus[f] = from
  /\ flowStatus' = [flowStatus EXCEPT ![f] = "RUNNING"]
  /\ flowAge' = [flowAge EXCEPT ![f] = 0]
  /\ UNCHANGED <<flowAgents, failureCount, autoHeal, stepCompleted, agentVars, backups>>

PauseFlow(f) ==
  /\ flowStatus[f] = "RUNNING"
  /\ flowStatus' = [flowStatus EXCEPT ![f] = "PAUSED"]
  /\ UNCHANGED <<flowAgents, flowAge, failureCount, autoHeal, stepCompleted, agentVars,
                 backups>>

AddBackupAgent(a, b) ==
  /\ FoldFunction(LAMBDA s, n : Len(s) + n, 0, backups) < MaxBackups
  /\ backups' = [backups EXCEPT ![a] = Append(@, b)]
  /\ UNCHANGED <<flowVars, stepCompleted, agentVars>>

OwnerStep(f) ==
  \/ \E p \in Plans[f] : CreateFlow(f, p.agents, p.autoHeal)
  \/ SetRunning(f, "PENDING")
  \/ SetRunning(f, "PAUSED")
  \/ PauseFlow(f)
  \/ \E a, b \in Agent : AddBackupAgent(a, b)

-----------------------------------------------------------------------------
(* The agents.                                                             *)

ReportHeartbeat(f, a) ==
  /\ flowStatus[f] = "RUNNING"
  /\ \E i \in DOMAIN flowAgents[f] : flowAgents[f][i] = a
  /\ flowAge' = [flowAge EXCEPT ![f] = 0]
  /\ agentAge' = [agentAge EXCEPT ![a] = 0]
  /\ agentStatus' = [agentStatus EXCEPT ![a] = "ACTIVE"]
  /\ UNCHANGED <<flowAgents, flowStatus, failureCount, autoHeal, stepCompleted, backups>>

\* Mutant of AllDone: the loop ends one step early.
AllDone_ButLast(f, steps) == DOMAIN Front(flowAgents[f]) \subseteq steps

AllDone(f, steps) == DOMAIN flowAgents[f] \subseteq steps

\* The agent of step i of flow f reports it.
ReportStepCompleted(f, i) ==
  LET steps == stepCompleted[f] \cup {i}
  IN /\ flowStatus[f] = "RUNNING"
     /\ stepCompleted' = [stepCompleted EXCEPT ![f] = steps]
     /\ flowStatus' = IF AllDone(f, steps)
                      THEN [flowStatus EXCEPT ![f] = "COMPLETED"] ELSE flowStatus
     /\ UNCHANGED <<flowAgents, flowAge, failureCount, autoHeal, agentVars, backups>>

AgentStep(f) ==
  \/ \E a \in Agent : ReportHeartbeat(f, a)
  \/ \E i \in DOMAIN flowAgents[f] : ReportStepCompleted(f, i)

-----------------------------------------------------------------------------
(* The health check, which anyone may call.                                *)

TimedOut(f) == {i \in DOMAIN flowAgents[f] : agentAge[flowAgents[f][i]] > Timeout}

\* _replaceAgent: only the first place of the agent in the list changes.
Replace(f, old, new) ==
  LET i == SelectInSeq(flowAgents[f], LAMBDA a : a = old)
  IN /\ flowAgents' = [flowAgents EXCEPT ![f][i] = new]
     /\ flowAge' = [flowAge EXCEPT ![f] = 0]
     /\ agentStatus' = [agentStatus EXCEPT ![old] = "FAILED", ![new] = "ACTIVE"]
     /\ agentAge' = [agentAge EXCEPT ![new] = 0]
     /\ UNCHANGED <<flowStatus, failureCount>>

\* _triggerHealing without a replacement.
CountFailure(f) ==
  /\ failureCount' = [failureCount EXCEPT ![f] = @ + 1]
  /\ flowStatus' = IF failureCount[f] + 1 >= MaxFailures
                   THEN [flowStatus EXCEPT ![f] = "FAILED"] ELSE flowStatus
  /\ UNCHANGED <<flowAgents, flowAge, agentAge>>

GiveUp(f) ==
  /\ flowStatus' = [flowStatus EXCEPT ![f] = "FAILED"]
  /\ UNCHANGED <<flowAgents, flowAge, failureCount, agentAge>>

\* Mutant of AgentTimedOut: a backup is taken without asking for its status.
AgentTimedOut_AnyBackup(f) ==
  LET i      == CHOOSE j \in TimedOut(f) : \A k \in TimedOut(f) : j <= k
      old    == flowAgents[f][i]
  IN /\ TimedOut(f) # {}
     /\ IF autoHeal[f] /\ backups[old] # << >>
        THEN Replace(f, old, Head(backups[old]))
        ELSE /\ agentStatus' = [agentStatus EXCEPT ![old] = "FAILED"]
             /\ IF autoHeal[f] THEN CountFailure(f) ELSE GiveUp(f)

\* An agent of the flow is silent: the first one counts as failed, and a backup
\* of it that has not failed takes its place.
AgentTimedOut(f) ==
  LET i      == CHOOSE j \in TimedOut(f) : \A k \in TimedOut(f) : j <= k
      old    == flowAgents[f][i]
      status == [agentStatus EXCEPT ![old] = "FAILED"]
      b      == SelectInSeq(backups[old], LAMBDA a : status[a] = "ACTIVE")
  IN /\ TimedOut(f) # {}
     /\ IF autoHeal[f] /\ b # 0
        THEN Replace(f, old, backups[old][b])
        ELSE /\ agentStatus' = status
             /\ IF autoHeal[f] THEN CountFailure(f) ELSE GiveUp(f)

\* Its agents report to other flows only: there is nobody to replace.
FlowTimedOut(f) ==
  /\ TimedOut(f) = {}
  /\ flowAge[f] > Timeout
  /\ IF autoHeal[f] THEN CountFailure(f) ELSE GiveUp(f)
  /\ UNCHANGED agentStatus

CheckFlowHealth(f) ==
  /\ flowStatus[f] = "RUNNING"
  /\ AgentTimedOut(f) \/ FlowTimedOut(f)
  /\ UNCHANGED <<autoHeal, stepCompleted, backups, abandoned>>

Older(age) == IF age < Old THEN age + 1 ELSE age

Tick ==
  /\ flowAge' = [f \in Flow |-> Older(flowAge[f])]
  /\ agentAge' = [a \in Agent |-> Older(agentAge[a])]
  /\ UNCHANGED <<flowAgents, flowStatus, failureCount, autoHeal, stepCompleted, agentStatus,
                 backups, abandoned>>

\* From here on nobody calls the contract but for health checks.
Abandon ==
  /\ ~abandoned
  /\ abandoned' = TRUE
  /\ UNCHANGED <<flowVars, stepCompleted, agentVars, backups>>

Next ==
  \/ \E f \in Flow : /\ ~abandoned /\ UNCHANGED abandoned
                     /\ OwnerStep(f) \/ AgentStep(f)
  \/ \E f \in Flow : CheckFlowHealth(f)
  \/ Tick
  \/ Abandon

Spec == Init /\ [][Next]_vars

\* Time passes, and health checks keep being called for every flow.
FairSpec ==
  Spec /\ WF_vars(Tick) /\ \A f \in Flow : WF_vars(CheckFlowHealth(f))

-----------------------------------------------------------------------------
(* Properties.                                                             *)

\* An agent counted as failed has not answered within the timeout: whoever
\* answers or is put in as a replacement counts as active again, in every flow.
FailedMeansSilent == \A a \in Agent : agentStatus[a] = "FAILED" => agentAge[a] > Timeout

\* A flow that heals itself fails exactly when its failures are used up, and until
\* then a check never ends it, however often it was paused and resumed.
FailureBudget ==
  \A f \in Flow : autoHeal[f] =>
    (flowStatus[f] = "FAILED" <=> failureCount[f] = MaxFailures)

\* Both, on states of the right types: what healing knows of agents and of its own
\* failures is what happened.
FailuresCounted == TypeOK /\ FailedMeansSilent /\ FailureBudget

\* A completed flow has every step of its present list of agents completed.
CompletedHasAllSteps ==
  \A f \in Flow : flowStatus[f] = "COMPLETED" =>
    flowAgents[f] # << >> /\ DOMAIN flowAgents[f] \subseteq stepCompleted[f]

\* Healing comes to an end: once agents and owner are silent for good no flow is
\* RUNNING for ever, replacements of replacements included.
SilentFlowsEnd == abandoned ~> \A f \in Flow : flowStatus[f] # "RUNNING"
=============================================================================
