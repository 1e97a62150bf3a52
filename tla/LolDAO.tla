-------------------------------- MODULE LolDAO --------------------------------
(***************************************************************************)
(* src/lol_dao.py: a DecentralizedGovernance whose proposals also pass     *)
(* reviews by the holders of roles.  The stages of a proposal exist on the *)
(* node that made it and nowhere else; the loop of the base class knows    *)
(* nothing of them.                                                        *)
(*                                                                         *)
(* start() of the code fails at its first subscription, of a handler that  *)
(* is not defined, when the base class has started: the bodies of the loop *)
(* over the stages, of the freeze monitor and of the handlers are steps    *)
(* that somebody calls, as the tests do.  Nothing in the sources writes    *)
(* stage_approvals; Approve lets the holders of the role under review do.  *)
(***************************************************************************)
EXTENDS DecentralizedGovernance

CONSTANTS
  Member,         \* nodes that may hold roles
  FreezePeriod,   \* 24 hours
  MaxRemovals,    \* bound on remove_role
  Deployments     \* which nodes run, which of them a LolDAO, and what they propose

ASSUME DaoAssumption ==
  /\ Deployments \subseteq [nodes : SUBSET Node, lol : SUBSET Node, proposals : SUBSET Proposal]
  /\ MaxRemovals \in Nat

VARIABLES
  deployment,
  roles,              \* per role: who holds it at the LolDAO nodes
  proposal_stages,
  approvals,          \* stage_approvals of the role that is reviewing
  freeze_active, freeze_proposals,
  removals

daoVars == <<roles, proposal_stages, approvals, freeze_active, freeze_proposals, removals>>
lolVars == <<deployment, govVars, daoVars>>

Role == {"watchman", "elder", "steward"}
Stage == {"none", "submitted", "watchmen_review", "elders_review", "stewards_vote",
          "approved", "rejected"}

Reviewer == [watchmen_review |-> "watchman", elders_review |-> "elder",
             stewards_vote |-> "steward"]
Share == [watchman |-> 60, elder |-> 75, steward |-> 66]
NoApprovals == [m \in Member |-> "none"]

LolTypeOK ==
  /\ deployment \in Deployments
  /\ roles \in [Role -> SUBSET Member]
  /\ proposal_stages \in [Proposal -> Stage]
  /\ approvals \in [Proposal -> [Member -> {"none", "yes", "no"}]]
  /\ freeze_active \in BOOLEAN
  /\ freeze_proposals \subseteq Proposal
  /\ removals \in 0 .. MaxRemovals

LolInit ==
  /\ deployment \in Deployments
  /\ GovInit
  /\ roles = [r \in Role |-> {}]
  /\ proposal_stages = [p \in Proposal |-> "none"]
  /\ approvals = [p \in Proposal |-> NoApprovals]
  /\ freeze_active = FALSE /\ freeze_proposals = {}
  /\ removals = 0

Lol(n) == n \in deployment.lol

-----------------------------------------------------------------------------
\* Who does not meet the requirements of the role is refused.
AssignRole(m, r) ==
  /\ m \notin roles[r]
  /\ roles' = [roles EXCEPT ![r] = @ \cup {m}]
  /\ UNCHANGED <<proposal_stages, approvals, freeze_active, freeze_proposals, removals>>

RemoveRole(m, r) ==
  /\ m \in roles[r]
  /\ removals < MaxRemovals
  /\ roles' = [roles EXCEPT ![r] = @ \ {m}]
  /\ removals' = removals + 1
  /\ UNCHANGED <<proposal_stages, approvals, freeze_active, freeze_proposals>>

\* create_proposal goes on when that of the base class has returned: until then
\* the proposal is known, can be voted on and decided, and has no stage.
InitStages(p) ==
  /\ p \in announced
  /\ Lol(terms[p].proposer)
  /\ proposal_stages[p] = "none"
  /\ proposal_stages' = [proposal_stages EXCEPT ![p] = "submitted"]
  /\ UNCHANGED <<roles, approvals, freeze_active, freeze_proposals, removals>>

Approve(p, m, answer) ==
  /\ proposal_stages[p] \in DOMAIN Reviewer
  /\ m \in roles[Reviewer[proposal_stages[p]]]
  /\ approvals[p][m] = "none"
  /\ approvals' = [approvals EXCEPT ![p][m] = answer]
  /\ UNCHANGED <<roles, proposal_stages, freeze_active, freeze_proposals, removals>>

Answered(p, answer) == {m \in Member : approvals[p][m] = answer}

\* _check_role_approval_threshold: the approvals given, by whoever, against the
\* number of those who hold the role now.
EnoughApprove(p, r) ==
  roles[r] # {} /\ 100 * Cardinality(Answered(p, "yes")) >= Share[r] * Cardinality(roles[r])

\* _calculate_vote_result
VotePassed(p) ==
  LET yes == Cardinality(Answered(p, "yes"))
      no  == Cardinality(Answered(p, "no"))
  IN  yes + no > 0 /\ 100 * yes >= 66 * (yes + no)

\* What one pass of _advance_proposal_stages makes of the stage of p.
NextStage(p) ==
  CASE proposal_stages[p] = "submitted" -> "watchmen_review"
    [] proposal_stages[p] = "watchmen_review" /\ EnoughApprove(p, "watchman") -> "elders_review"
    [] proposal_stages[p] = "elders_review" /\ EnoughApprove(p, "elder") -> "stewards_vote"
    [] proposal_stages[p] = "stewards_vote" /\ EnoughApprove(p, "steward") ->
         IF VotePassed(p) THEN "approved" ELSE "rejected"
    [] OTHER -> proposal_stages[p]

\* Every role has a dictionary of its own, so a new review starts without
\* approvals.  The last stage executes the proposal and does not enter it into
\* executed_proposals.
AdvanceProposalStages ==
  LET moved == {p \in Proposal : NextStage(p) # proposal_stages[p]}
  IN  /\ moved # {}
      /\ proposal_stages' = [p \in Proposal |-> NextStage(p)]
      /\ approvals' = [p \in Proposal |-> IF p \in moved THEN NoApprovals ELSE approvals[p]]
      /\ ran' = [n \in Node |-> [p \in Proposal |->
                   IF p \in moved /\ NextStage(p) = "approved" /\ n = terms[p].proposer
                   THEN ran[n][p] + 1 ELSE ran[n][p]]]
      /\ UNCHANGED <<now, terms, uploading, announced, cast, proposals, votes, executed,
                     roles, freeze_active, freeze_proposals, removals>>

HandleFreezeProposal(p) ==
  /\ proposal_stages[p] = "approved"
  /\ freeze_active' = TRUE
  /\ freeze_proposals' = freeze_proposals \cup {p}
  /\ UNCHANGED <<roles, proposal_stages, approvals, removals>>

\* One proposal that is older than a day lifts the freeze, even one whose own
\* freeze was lifted long ago, for none is ever removed.
MonitorFreezeProtocol ==
  /\ freeze_active
  /\ \E p \in freeze_proposals : now - terms[p].created > FreezePeriod
  /\ freeze_active' = FALSE
  /\ UNCHANGED <<roles, proposal_stages, approvals, freeze_proposals, removals>>

LolStep ==
  \/ \E m \in Member, r \in Role : AssignRole(m, r) \/ RemoveRole(m, r)
  \/ \E p \in deployment.proposals :
       \/ InitStages(p)
       \/ \E m \in Member, answer \in {"yes", "no"} : Approve(p, m, answer)
       \/ HandleFreezeProposal(p)
  \/ MonitorFreezeProtocol

Base ==
  /\ \/ \E n \in deployment.nodes : GovStep(n, deployment.proposals)
     \/ \E p \in uploading : Announce(p) \/ AnnounceFails(p)
     \/ GovTick
  /\ UNCHANGED daoVars

LolNext ==
  /\ \/ Base
     \/ deployment.lol # {} /\ LolStep /\ UNCHANGED govVars
     \/ deployment.lol # {} /\ AdvanceProposalStages
  /\ UNCHANGED deployment

-----------------------------------------------------------------------------
(* Properties.                                                             *)

\* A proposal is executed at most once by the votes and once by the stages, on
\* the node that keeps its stages: never again by a loop that comes round.
ExecutionsAccounted ==
  \A n \in Node, p \in Proposal :
    ran[n][p] <= (IF p \in executed[n] THEN 1 ELSE 0)
               + (IF Made(p) /\ n = terms[p].proposer /\ proposal_stages[p] = "approved"
                  THEN 1 ELSE 0)

\* The system is frozen only by a proposal all three roles have passed, though
\* roles change hands and the monitor lifts freezes in between.
FrozenByApproved ==
  freeze_active => \E p \in freeze_proposals : proposal_stages[p] = "approved"

\* What the DAO has decided stands: by its quorum, in no loop that comes round, and
\* frozen by nothing less.
DecisionsStand ==
  DecidedByQuorum /\ DecidedKeepsQuorum /\ ExecutionsAccounted /\ FrozenByApproved
=============================================================================
