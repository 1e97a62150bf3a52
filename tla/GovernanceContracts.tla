------------------------- MODULE GovernanceContracts -------------------------
(***************************************************************************)
(* The governance contracts: MarketplaceGovernance, where JOY votes, and   *)
(* LiquidDemocracy, where reputation does.  They share nothing but the     *)
(* clock and no contract calls both, so a behaviour is one of either; the  *)
(* other one stays as it was deployed.                                     *)
(***************************************************************************)
EXTENDS MarketplaceGovernance

CONSTANTS
  Voter, Delta, MaxScore, Day, MaxUpdates, ProposalId, Weight, Period, MinReputation,
  MaxDelegations, MaxCreations

VARIABLES
  contract,      \* the one that is called
  userScores, updates, ballots, hasVoted, voteWeight, book, created, delegated, executions

Liquid == INSTANCE LiquidDemocracy WITH User <- Voter, proposals <- ballots

ASSUME LiquidAssumption == Liquid!LiquidDemocracyAssumption

liquidVars ==
  <<userScores, updates, ballots, hasVoted, voteWeight, book, created, delegated, executions>>
govVars == <<contract, vars, liquidVars>>

GovInit ==
  /\ contract \in {"MarketplaceGovernance", "LiquidDemocracy"}
  /\ Init
  /\ Liquid!Init

MarketplaceStep == contract = "MarketplaceGovernance" /\ Next /\ UNCHANGED liquidVars
LiquidStep ==
  /\ contract = "LiquidDemocracy" /\ Liquid!Next
  /\ UNCHANGED <<joyVars, ballotVars, policyVars>>

GovNext == (MarketplaceStep \/ LiquidStep) /\ UNCHANGED contract

GovSpec == GovInit /\ [][GovNext]_govVars

-----------------------------------------------------------------------------
(* The properties of LiquidDemocracy, see there.                           *)

\* The list of a delegate is who delegates to it, and its voting power a reputation
\* and the active delegations.
PowerIsDelegated == Liquid!TypeOK /\ Liquid!DelegatorsListed /\ Liquid!PowerAccounted

\* The result of a ballot is the sum of its weights, and it is executed once, in all
\* the lives of its id.
BallotsAccounted == Liquid!TalliesAreWeights /\ Liquid!ExecutedOnce
=============================================================================
