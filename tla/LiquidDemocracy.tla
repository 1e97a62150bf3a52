--------------------------- MODULE LiquidDemocracy ---------------------------
(***************************************************************************)
(* The contract contracts/LiquidDemocracy.sol: users vote with the         *)
(* reputation of LoveViceScore and with the weight others delegate to      *)
(* them.  Voting power is kept per user and computed anew when a           *)
(* delegation to the user changes or the user votes.                       *)
(***************************************************************************)
EXTENDS LoveViceScore, Sequences, Totals

CONSTANTS
  ProposalId, Weight, Period,   \* arguments calls are made with
  MinReputation,                \* reputation to propose with, 100 in the contract
  MaxTime, MaxDelegations, MaxCreations   \* bounds on the clock and on calls

Nobody == "nobody"

LiquidDemocracyAssumption ==
  /\ LoveViceScoreAssumption
  /\ IsFiniteSet(User)
  /\ Weight \subseteq Nat \ {0} /\ Period \subseteq Nat
  /\ MinReputation \in Nat
  /\ MaxTime \in Nat /\ MaxDelegations \in Nat /\ MaxCreations \in Nat

VARIABLES
  proposals,      \* startTime, endTime, forVotes, againstVotes, executed
  hasVoted,       \* proposals[p].hasVoted, as a set
  voteWeight,     \* proposals[p].voteWeight
  book,           \* delegations, delegators and votingPower of every user; and as a
                  \* history the reputation each power was last computed with
  created,        \* history: number of createProposal calls
  delegated,      \* history: number of delegateVote calls
  executions      \* history: how often each proposal was executed

ballotVars == <<proposals, hasVoted, voteWeight, created, executions>>
vars == <<now, scoreVars, ballotVars, book, delegated>>

Proposal == [startTime : Nat, endTime : Nat, forVotes : Nat, againstVotes : Nat,
             executed : BOOLEAN]

Delegation == [delegate : User \cup {Nobody}, weight : Nat, isActive : BOOLEAN]

TypeOK ==
  /\ now \in Nat
  /\ userScores \in [User -> UserScore]
  /\ proposals \in [ProposalId -> Proposal]
  /\ hasVoted \in [ProposalId -> SUBSET User]
  /\ voteWeight \in [ProposalId -> [User -> Nat]]
  /\ book \in [delegations : [User -> Delegation], delegators : [User -> Seq(User)],
               votingPower : [User -> Nat], reputation : [User -> Nat]]
  /\ executions \in [ProposalId -> Nat]

Init ==
  /\ ScoreInit
  /\ proposals = [p \in ProposalId |-> [startTime |-> 0, endTime |-> 0, forVotes |-> 0,
                                        againstVotes |-> 0, executed |-> FALSE]]
  /\ hasVoted = [p \in ProposalId |-> {}]
  /\ voteWeight = [p \in ProposalId |-> [u \in User |-> 0]]
  /\ book = [delegations |-> [u \in User |-> [delegate |-> Nobody, weight |-> 0,
                                              isActive |-> FALSE]],
             delegators  |-> [u \in User |-> << >>],
             votingPower |-> [u \in User |-> 0],
             reputation  |-> [u \in User |-> 0]]
  /\ created = 0 /\ delegated = 0
  /\ executions = [p \in ProposalId |-> 0]

-----------------------------------------------------------------------------
(* Delegation.                                                             *)

\* What each entry in the list of u adds to its power.
Adds(b, u) ==
  [i \in DOMAIN b.delegators[u] |->
     LET v == b.delegators[u][i]
     IN IF b.delegations[v].isActive THEN b.delegations[v].weight ELSE 0]

\* _updateVotingPower: the reputation of u and what its delegators add to it.
Recounted(b, u) ==
  [b EXCEPT !.reputation[u]  = Reputation(u),
            !.votingPower[u] = Reputation(u) + Total(Adds(b, u), DOMAIN b.delegators[u])]

\* The first entry of u.
PlaceOf(list, u) ==
  CHOOSE i \in DOMAIN list : list[i] = u /\ \A j \in DOMAIN list : list[j] = u => i <= j

\* Mutant of Unlisted: the last one moves up but is not taken off the end.
Unlisted_NoPop(list, u) ==
  IF \A i \in DOMAIN list : list[i] # u THEN list
  ELSE [list EXCEPT ![PlaceOf(list, u)] = list[Len(list)]]

\* The last one of the list takes the place of the one who leaves.
Unlisted(list, u) ==
  IF \A i \in DOMAIN list : list[i] # u THEN list
  ELSE [i \in 1 .. Len(list) - 1 |-> IF i = PlaceOf(list, u) THEN list[Len(list)] ELSE list[i]]

\* _revokeDelegation
Revoked(b, u) ==
  LET d == b.delegations[u].delegate
  IN Recounted([b EXCEPT !.delegations[u].isActive = FALSE,
                         !.delegators[d] = Unlisted(b.delegators[d], u)], d)

\* A former delegation is revoked first, be it to the same delegate.
DelegateVote(u, d, weight) ==
  LET b == IF book.delegations[u].isActive THEN Revoked(book, u) ELSE book
  IN /\ delegated < MaxDelegations
     /\ d # u
     /\ delegated' = delegated + 1
     /\ book' = Recounted(
          [b EXCEPT !.delegations[u] = [delegate |-> d, weight |-> weight, isActive |-> TRUE],
                    !.delegators[d] = Append(b.delegators[d], u)], d)
     /\ UNCHANGED <<now, scoreVars, ballotVars>>

RevokeDelegation(u) ==
  /\ book.delegations[u].isActive
  /\ book' = Revoked(book, u)
  /\ UNCHANGED <<now, scoreVars, ballotVars, delegated>>

-----------------------------------------------------------------------------
(* Ballots.                                                                *)

\* Mutant of CreateProposal: the record of an id in use starts from scratch.
CreateProposal_Resets(u, p, period) ==
  /\ created < MaxCreations
  /\ Reputation(u) >= MinReputation
  /\ created' = created + 1
  /\ proposals' = [proposals EXCEPT ![p] =
       [startTime |-> now, endTime |-> now + period, forVotes |-> 0, againstVotes |-> 0,
        executed |-> FALSE]]
  /\ UNCHANGED <<now, scoreVars, hasVoted, voteWeight, executions, book, delegated>>

\* An id in use is not refused: its times are set anew, votes and execution stay.
CreateProposal(u, p, period) ==
  /\ created < MaxCreations
  /\ Reputation(u) >= MinReputation
  /\ created' = created + 1
  /\ proposals' = [proposals EXCEPT ![p].startTime = now, ![p].endTime = now + period]
  /\ UNCHANGED <<now, scoreVars, hasVoted, voteWeight, executions, book, delegated>>

\* Power is counted anew for the voter, with what is delegated to it right now.
Vote(u, p, support) ==
  LET b      == Recounted(book, u)
      weight == b.votingPower[u]
  IN /\ proposals[p].startTime <= now /\ now <= proposals[p].endTime
     /\ u \notin hasVoted[p]
     /\ weight > 0
     /\ book' = b
     /\ hasVoted' = [hasVoted EXCEPT ![p] = @ \cup {u}]
     /\ voteWeight' = [voteWeight EXCEPT ![p][u] = weight]
     /\ proposals' = IF support THEN [proposals EXCEPT ![p].forVotes = @ + weight]
                                ELSE [proposals EXCEPT ![p].againstVotes = @ + weight]
     /\ UNCHANGED <<now, scoreVars, created, executions, delegated>>

ExecuteProposal(p) ==
  /\ now > proposals[p].endTime
  /\ ~proposals[p].executed
  /\ proposals[p].forVotes > proposals[p].againstVotes
  /\ proposals' = [proposals EXCEPT ![p].executed = TRUE]
  /\ executions' = [executions EXCEPT ![p] = @ + 1]
  /\ UNCHANGED <<now, scoreVars, hasVoted, voteWeight, created, book, delegated>>

Tick ==
  /\ now < MaxTime
  /\ now' = now + 1
  /\ UNCHANGED <<scoreVars, ballotVars, book, delegated>>

VoterStep(u) ==
  \/ \E d \in User, w \in Weight : DelegateVote(u, d, w)
  \/ RevokeDelegation(u)
  \/ \E p \in ProposalId, period \in Period : CreateProposal(u, p, period)
  \/ \E p \in ProposalId, support \in BOOLEAN : Vote(u, p, support)

Next ==
  \/ \E u \in User : VoterStep(u)
  \/ \E u \in User, d \in Delta : UpdateScore(u, d) /\ UNCHANGED <<now, ballotVars, book, delegated>>
  \/ \E p \in ProposalId : ExecuteProposal(p)
  \/ Tick

Spec == Init /\ [][Next]_vars

-----------------------------------------------------------------------------
(* Properties.                                                             *)

\* The list of a delegate holds exactly those with an active delegation to it, each
\* once, however often they revoke, return and change their delegate.
Listed(b) ==
  \A d \in User :
    /\ \A i, j \in DOMAIN b.delegators[d] : b.delegators[d][i] = b.delegators[d][j] => i = j
    /\ {b.delegators[d][i] : i \in DOMAIN b.delegators[d]}
         = {u \in User : b.delegations[u].isActive /\ b.delegations[u].delegate = d}

DelegatorsListed == Listed(book)

\* What each user delegates to d right now.
Shares(b, d) ==
  [u \in User |-> IF b.delegations[u].isActive /\ b.delegations[u].delegate = d
                  THEN b.delegations[u].weight ELSE 0]

\* The power kept for a user is a reputation it had and the weight of the delegations
\* active now: no revoked or moved delegation is left in it.
PowerAccounted ==
  \A d \in User : book.votingPower[d] = book.reputation[d] + Total(Shares(book, d), User)

\* The result of a ballot is the sum of the weights on record, each voter's once, over
\* all the times its id was created.
TalliesAreWeights ==
  \A p \in ProposalId :
    proposals[p].forVotes + proposals[p].againstVotes = Total(voteWeight[p], User)

\* A proposal is executed at most once, however often its id is created again.
ExecutedOnce == \A p \in ProposalId : executions[p] <= 1
=============================================================================
