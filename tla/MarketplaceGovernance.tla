------------------------ MODULE MarketplaceGovernance ------------------------
(***************************************************************************)
(* The contract contracts/MarketplaceGovernance.sol: accounts stake JOY,   *)
(* propose policies and vote with the stake they have at that moment; a    *)
(* passed proposal is a call the contract makes to itself.  A call that    *)
(* reverts changes nothing and is not an action.                           *)
(***************************************************************************)
EXTENDS Integers, FiniteSets, Totals

CONSTANTS
  User,            \* accounts
  Amount,          \* amounts calls are made with
  Call,            \* policies proposed: [fee] or [min, max], see Succeeds
  Wealth,          \* JOY each account starts with
  MinStake,        \* minStakeForProposal
  VotingPeriod, ExecutionDelay,
  MaxProposals,    \* bound on the proposals
  MaxTime          \* bound on the clock

ASSUME MarketplaceGovernanceAssumption ==
  /\ IsFiniteSet(User)
  /\ Amount \subseteq Nat
  /\ Call \subseteq [fee : Nat] \cup [min : Nat, max : Nat]
  /\ {Wealth, MinStake, VotingPeriod, ExecutionDelay, MaxProposals, MaxTime} \subseteq Nat

VARIABLES
  now,             \* block.timestamp
  wallet,          \* JOY of each account
  held,            \* JOY of the contract
  stakes, totalStaked,
  count,           \* proposals.length
  proposals,       \* call, startTime, forVotes, againstVotes, executed, canceled
  votes,           \* proposals[p].votes
  platformFee,
  royaltyBounds    \* minRoyaltyRate and maxRoyaltyRate

joyVars    == <<wallet, held, stakes, totalStaked>>
ballotVars == <<count, proposals, votes>>
policyVars == <<platformFee, royaltyBounds>>
vars == <<now, joyVars, ballotVars, policyVars>>

PId == 1 .. MaxProposals

NoCall == [fee |-> 0]

Proposal == [call : Call \cup {NoCall}, startTime : Nat, forVotes : Nat, againstVotes : Nat,
             executed : BOOLEAN, canceled : BOOLEAN]

InitialFee == 250
InitialBounds == [min |-> 100, max |-> 2000]

TypeOK ==
  /\ now \in Nat
  /\ wallet \in [User -> Nat] /\ held \in Nat
  /\ stakes \in [User -> Nat] /\ totalStaked \in Nat
  /\ count \in 0 .. MaxProposals
  /\ proposals \in [PId -> Proposal]
  /\ votes \in [PId -> [User -> Nat]]
  /\ platformFee \in Nat
  /\ royaltyBounds \in [min : Nat, max : Nat]

Init ==
  /\ now = 1
  /\ wallet = [u \in User |-> Wealth] /\ held = 0
  /\ stakes = [u \in User |-> 0] /\ totalStaked = 0
  /\ count = 0
  /\ proposals = [p \in PId |-> [call |-> NoCall, startTime |-> 0, forVotes |-> 0,
                                 againstVotes |-> 0, executed |-> FALSE, canceled |-> FALSE]]
  /\ votes = [p \in PId |-> [u \in User |-> 0]]
  /\ platformFee = InitialFee
  /\ royaltyBounds = InitialBounds

-----------------------------------------------------------------------------
(* Stakes.                                                                 *)

Stake(u, amount) ==
  /\ amount > 0
  /\ wallet[u] >= amount
  /\ wallet' = [wallet EXCEPT ![u] = @ - amount]
  /\ held' = held + amount
  /\ stakes' = [stakes EXCEPT ![u] = @ + amount]
  /\ totalStaked' = totalStaked + amount
  /\ UNCHANGED <<now, ballotVars, policyVars>>

\* Mutant of Unstake: the total is not reduced.
Unstake_KeepsTotal(u, amount) ==
  /\ stakes[u] >= amount /\ held >= amount
  /\ stakes' = [stakes EXCEPT ![u] = @ - amount]
  /\ held' = held - amount
  /\ wallet' = [wallet EXCEPT ![u] = @ + amount]
  /\ UNCHANGED <<now, totalStaked, ballotVars, policyVars>>

\* Nothing is locked by a vote.
Unstake(u, amount) ==
  /\ stakes[u] >= amount /\ held >= amount
  /\ stakes' = [stakes EXCEPT ![u] = @ - amount]
  /\ totalStaked' = totalStaked - amount
  /\ held' = held - amount
  /\ wallet' = [wallet EXCEPT ![u] = @ + amount]
  /\ UNCHANGED <<now, ballotVars, policyVars>>

\* JOY changes hands outside the contract.
Transfer(u, v, amount) ==
  /\ u # v /\ wallet[u] >= amount
  /\ wallet' = [wallet EXCEPT ![u] = @ - amount, ![v] = @ + amount]
  /\ UNCHANGED <<now, held, stakes, totalStaked, ballotVars, policyVars>>

-----------------------------------------------------------------------------
(* Ballots.                                                                *)

Pending(p) == p <= count /\ ~proposals[p].executed /\ ~proposals[p].canceled

VotingOver(p) == now > proposals[p].startTime + VotingPeriod

Propose(u, call) ==
  /\ count < MaxProposals
  /\ stakes[u] >= MinStake
  /\ count' = count + 1
  /\ proposals' = [proposals EXCEPT ![count + 1].call = call, ![count + 1].startTime = now]
  /\ UNCHANGED <<now, joyVars, votes, policyVars>>

\* Mutants of Vote: an account may vote again; a decided proposal is voted on.
Vote_Again(u, p, support) ==
  /\ Pending(p) /\ ~VotingOver(p)
  /\ stakes[u] > 0
  /\ proposals' = IF support THEN [proposals EXCEPT ![p].forVotes = @ + stakes[u]]
                             ELSE [proposals EXCEPT ![p].againstVotes = @ + stakes[u]]
  /\ votes' = [votes EXCEPT ![p][u] = stakes[u]]
  /\ UNCHANGED <<now, joyVars, count, policyVars>>
Vote_Decided(u, p, support) ==
  /\ p <= count /\ ~VotingOver(p)
  /\ votes[p][u] = 0 /\ stakes[u] > 0
  /\ proposals' = IF support THEN [proposals EXCEPT ![p].forVotes = @ + stakes[u]]
                             ELSE [proposals EXCEPT ![p].againstVotes = @ + stakes[u]]
  /\ votes' = [votes EXCEPT ![p][u] = stakes[u]]
  /\ UNCHANGED <<now, joyVars, count, policyVars>>

\* A vote weighs what the account has at stake now.
Vote(u, p, support) ==
  /\ Pending(p) /\ ~VotingOver(p)
  /\ votes[p][u] = 0 /\ stakes[u] > 0
  /\ proposals' = IF support THEN [proposals EXCEPT ![p].forVotes = @ + stakes[u]]
                             ELSE [proposals EXCEPT ![p].againstVotes = @ + stakes[u]]
  /\ votes' = [votes EXCEPT ![p][u] = stakes[u]]
  /\ UNCHANGED <<now, joyVars, count, policyVars>>

\* updatePlatformFee and updateRoyaltyBounds: the call the contract makes to itself
\* succeeds with these arguments only, and only then does executeProposal.
Succeeds(call) ==
  IF "fee" \in DOMAIN call THEN call.fee <= 1000
                           ELSE call.min <= call.max /\ call.max <= 5000

Apply(call) ==
  IF "fee" \in DOMAIN call
  THEN platformFee' = call.fee /\ UNCHANGED royaltyBounds
  ELSE royaltyBounds' = call /\ UNCHANGED platformFee

\* Mutant of ExecuteProposal: a rejected proposal is executed.
ExecuteProposal_Rejected(p) ==
  /\ Pending(p) /\ VotingOver(p)
  /\ now <= proposals[p].startTime + VotingPeriod + ExecutionDelay
  /\ Succeeds(proposals[p].call)
  /\ proposals' = [proposals EXCEPT ![p].executed = TRUE]
  /\ Apply(proposals[p].call)
  /\ UNCHANGED <<now, joyVars, count, votes>>

ExecuteProposal(p) ==
  /\ Pending(p) /\ VotingOver(p)
  /\ now <= proposals[p].startTime + VotingPeriod + ExecutionDelay
  /\ proposals[p].forVotes > proposals[p].againstVotes
  /\ Succeeds(proposals[p].call)
  /\ proposals' = [proposals EXCEPT ![p].executed = TRUE]
  /\ Apply(proposals[p].call)
  /\ UNCHANGED <<now, joyVars, count, votes>>

\* By the proposer or by the owner of the contract.
CancelProposal(p) ==
  /\ Pending(p)
  /\ proposals' = [proposals EXCEPT ![p].canceled = TRUE]
  /\ UNCHANGED <<now, joyVars, count, votes, policyVars>>

Tick ==
  /\ now < MaxTime
  /\ now' = now + 1
  /\ UNCHANGED <<joyVars, ballotVars, policyVars>>

StakerStep(u) ==
  \/ \E a \in Amount : Stake(u, a) \/ Unstake(u, a) \/ \E v \in User : Transfer(u, v, a)
  \/ \E c \in Call : Propose(u, c)
  \/ \E p \in PId, support \in BOOLEAN : Vote(u, p, support)

Next ==
  \/ \E u \in User : StakerStep(u)
  \/ \E p \in PId : ExecuteProposal(p) \/ CancelProposal(p)
  \/ Tick

Spec == Init /\ [][Next]_vars

-----------------------------------------------------------------------------
(* Properties.                                                             *)

\* The contract holds exactly what is at stake, and its own total says so.
StakesBacked == held = Total(stakes, User) /\ totalStaked = held

\* The result of a ballot is the sum of the votes on record, each account's once,
\* whatever its stake has become since.
TalliesAreVotes ==
  \A p \in PId : proposals[p].forVotes + proposals[p].againstVotes = Total(votes[p], User)

\* A proposal that was executed or cancelled is over: no call touches it, its votes
\* or its time again.
DecidedIsFinal ==
  [][\A p \in PId : proposals[p].executed \/ proposals[p].canceled =>
        proposals'[p] = proposals[p] /\ votes'[p] = votes[p]]_vars

\* Every policy in force is the first one or that of an executed proposal which more
\* stake supported than opposed.
Passed(p) == /\ proposals[p].executed /\ ~proposals[p].canceled
             /\ proposals[p].forVotes > proposals[p].againstVotes

PolicyWasVoted ==
  /\ platformFee = InitialFee
       \/ \E p \in PId : Passed(p) /\ proposals[p].call = [fee |-> platformFee]
  /\ royaltyBounds = InitialBounds
       \/ \E p \in PId : Passed(p) /\ proposals[p].call = royaltyBounds

\* What was executed has taken effect: an executed proposal is one whose call the
\* contract accepts.
ExecutedSucceeded == \A p \in PId : proposals[p].executed => Succeeds(proposals[p].call)

\* Both: the policies in force are the outcome of a vote, and nothing counts as
\* executed whose call the contract refused.
PolicyInForce == PolicyWasVoted /\ ExecutedSucceeded
=============================================================================
