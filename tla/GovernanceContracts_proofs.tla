------------------------ MODULE GovernanceContracts_proofs ------------------
(***************************************************************************)
(* Proofs about the governance contracts for any accounts, amounts,        *)
(* policies and periods.  The first part is about MarketplaceGovernance by *)
(* itself, Spec; the second about LiquidDemocracy and the two together,    *)
(* GovSpec.                                                                *)
(***************************************************************************)
EXTENDS GovernanceContracts, Totals_proofs, Sequences, TLAPS

\* A proposal not made yet is neither executed nor cancelled: making it touches no
\* decided one.
Fresh == \A p \in PId : p > count => ~proposals[p].executed /\ ~proposals[p].canceled

IInv == /\ TypeOK /\ StakesBacked /\ TalliesAreVotes
        /\ Fresh /\ PolicyWasVoted /\ ExecutedSucceeded

-----------------------------------------------------------------------------
(* Records.                                                                *)

LEMMA FieldTypes ==
  ASSUME NEW q \in Proposal, NEW n \in Nat
  PROVE  /\ [q EXCEPT !.forVotes = @ + n] \in Proposal
         /\ [q EXCEPT !.againstVotes = @ + n] \in Proposal
         /\ [q EXCEPT !.executed = TRUE] \in Proposal
         /\ [q EXCEPT !.canceled = TRUE] \in Proposal
<1>1. q.forVotes + n \in Nat /\ q.againstVotes + n \in Nat
  BY DEF Proposal
<1>2. \A k \in Nat : [q EXCEPT !.forVotes = k] \in Proposal
  BY DEF Proposal
<1>3. \A k \in Nat : [q EXCEPT !.againstVotes = k] \in Proposal
  BY DEF Proposal
<1>4. [q EXCEPT !.executed = TRUE] \in Proposal /\ [q EXCEPT !.canceled = TRUE] \in Proposal
  BY DEF Proposal
<1>5. QED
  BY <1>1, <1>2, <1>3, <1>4

LEMMA MadeType ==
  ASSUME NEW q \in Proposal, NEW n \in Nat, NEW c \in Call
  PROVE  [q EXCEPT !.call = c, !.startTime = n] \in Proposal
BY DEF Proposal

\* A policy is a fee or a pair of bounds.
LEMMA CallTypes ==
  ASSUME NEW c \in Call \cup {NoCall}
  PROVE  /\ "fee" \in DOMAIN c => c = [fee |-> c.fee] /\ c.fee \in Nat
         /\ "fee" \notin DOMAIN c => c \in [min : Nat, max : Nat]
<1>1. c \in [fee : Nat] \cup [min : Nat, max : Nat]
  BY MarketplaceGovernanceAssumption DEF NoCall
<1>2. CASE c \in [fee : Nat]
  BY <1>2
<1>3. CASE c \in [min : Nat, max : Nat]
  BY <1>3
<1>4. QED
  BY <1>1, <1>2, <1>3

LEMMA InitIInv == Init => IInv
<1> SUFFICES ASSUME Init PROVE IInv
  OBVIOUS
<1> DEFINE none == [call |-> NoCall, startTime |-> 0, forVotes |-> 0, againstVotes |-> 0,
                    executed |-> FALSE, canceled |-> FALSE]
<1>1. none \in Proposal
  BY DEF Proposal
<1>2. proposals = [p \in PId |-> none]
  BY DEF Init
<1>3. Total([u \in User |-> 0], User) = 0
  BY TotalZero
<1>4. TypeOK
  <2> HIDE DEF none
  <2>1. proposals \in [PId -> Proposal]
    BY <1>1, <1>2
  <2>2. Wealth \in Nat /\ MaxProposals \in Nat /\ 0 \in 0 .. MaxProposals
    BY MarketplaceGovernanceAssumption
  <2>3. wallet \in [User -> Nat] /\ stakes \in [User -> Nat] /\ votes \in [PId -> [User -> Nat]]
    BY <2>2 DEF Init
  <2>4. royaltyBounds \in [min : Nat, max : Nat] /\ platformFee \in Nat
    BY DEF Init, InitialBounds, InitialFee
  <2>5. now \in Nat /\ held \in Nat /\ totalStaked \in Nat /\ count \in 0 .. MaxProposals
    BY <2>2 DEF Init
  <2>6. QED
    BY <2>1, <2>3, <2>4, <2>5 DEF TypeOK
<1>5. StakesBacked
  BY <1>3 DEF Init, StakesBacked
<1>6. TalliesAreVotes
  BY <1>2, <1>3 DEF Init, TalliesAreVotes
<1>7. QED
  BY <1>2, <1>4, <1>5, <1>6 DEF Init, IInv, Fresh, PolicyWasVoted, ExecutedSucceeded
-----------------------------------------------------------------------------
(* Stakes.                                                                 *)

LEMMA StakeStep ==
  ASSUME IInv, NEW u \in User, NEW a \in Amount, Stake(u, a)
  PROVE  IInv'
<1>1. a \in Nat /\ IsFiniteSet(User)
  BY MarketplaceGovernanceAssumption
<1>2. stakes \in [User -> Nat] /\ wallet \in [User -> Nat] /\ held \in Nat
  BY DEF IInv, TypeOK
<1>3. stakes' \in [User -> Nat] /\ wallet' \in [User -> Nat]
  BY <1>1, <1>2 DEF Stake
<1>4. Total(stakes', User) = Total(stakes, User) - stakes[u] + stakes'[u]
  <2>1. \A y \in User \ {u} : stakes'[y] = stakes[y]
    BY <1>2 DEF Stake
  <2>2. QED
    BY <1>1, <1>2, <1>3, <2>1, TotalUpdate
<1>5. Total(stakes, User) \in Nat
  BY <1>1, <1>2, TotalNat
<1>6. stakes'[u] = stakes[u] + a /\ stakes[u] \in Nat
  BY <1>2 DEF Stake
<1>7. StakesBacked'
  BY <1>1, <1>2, <1>4, <1>5, <1>6 DEF Stake, IInv, StakesBacked
<1>8. TypeOK'
  BY <1>1, <1>2, <1>3 DEF Stake, IInv, TypeOK, ballotVars, policyVars
<1>9. QED
  BY <1>7, <1>8 DEF Stake, IInv, TalliesAreVotes, Fresh, PolicyWasVoted, Passed,
                    ExecutedSucceeded, ballotVars, policyVars

LEMMA UnstakeStep ==
  ASSUME IInv, NEW u \in User, NEW a \in Amount, Unstake(u, a)
  PROVE  IInv'
<1>1. a \in Nat /\ IsFiniteSet(User)
  BY MarketplaceGovernanceAssumption
<1>2. stakes \in [User -> Nat] /\ wallet \in [User -> Nat] /\ held \in Nat
  BY DEF IInv, TypeOK
<1>3. stakes' \in [User -> Nat] /\ wallet' \in [User -> Nat]
  BY <1>1, <1>2 DEF Unstake
<1>4. Total(stakes', User) = Total(stakes, User) - stakes[u] + stakes'[u]
  <2>1. \A y \in User \ {u} : stakes'[y] = stakes[y]
    BY <1>2 DEF Unstake
  <2>2. QED
    BY <1>1, <1>2, <1>3, <2>1, TotalUpdate
<1>5. Total(stakes, User) \in Nat
  BY <1>1, <1>2, TotalNat
<1>6. stakes'[u] = stakes[u] - a /\ stakes[u] \in Nat /\ held >= a
  BY <1>2 DEF Unstake
<1>7. StakesBacked'
  BY <1>1, <1>2, <1>4, <1>5, <1>6 DEF Unstake, IInv, StakesBacked
<1>8. totalStaked = held
  BY DEF IInv, StakesBacked
<1>9. TypeOK'
  BY <1>1, <1>2, <1>3, <1>6, <1>8 DEF Unstake, IInv, TypeOK, ballotVars, policyVars
<1>10. QED
  BY <1>7, <1>9 DEF Unstake, IInv, TalliesAreVotes, Fresh, PolicyWasVoted, Passed,
                    ExecutedSucceeded, ballotVars, policyVars

LEMMA TransferStep ==
  ASSUME IInv, NEW u \in User, NEW v \in User, NEW a \in Amount, Transfer(u, v, a)
  PROVE  IInv'
<1>1. a \in Nat
  BY MarketplaceGovernanceAssumption
<1>2. wallet \in [User -> Nat]
  BY DEF IInv, TypeOK
<1>3. wallet' \in [User -> Nat]
  BY <1>1, <1>2 DEF Transfer
<1>4. QED
  BY <1>3 DEF Transfer, IInv, TypeOK, StakesBacked, TalliesAreVotes, Fresh, PolicyWasVoted,
              Passed, ExecutedSucceeded, ballotVars, policyVars

-----------------------------------------------------------------------------
(* Ballots.                                                                *)

LEMMA ProposeStep ==
  ASSUME IInv, NEW u \in User, NEW c \in Call, Propose(u, c)
  PROVE  IInv'
<1> DEFINE q == count + 1
           r == [proposals[q] EXCEPT !.call = c, !.startTime = now]
<1>1. q \in PId /\ count \in Nat /\ now \in Nat /\ MaxProposals \in Nat
  BY MarketplaceGovernanceAssumption DEF Propose, IInv, TypeOK, PId
<1>2. proposals' = [proposals EXCEPT ![q] = r]
  BY DEF Propose
<1>3. proposals[q] \in Proposal /\ r \in Proposal
  <2>1. proposals[q] \in Proposal
    BY <1>1 DEF IInv, TypeOK
  <2>2. QED
    BY <1>1, <2>1, MadeType
<1>4. /\ r.executed = proposals[q].executed /\ r.canceled = proposals[q].canceled
      /\ r.forVotes = proposals[q].forVotes /\ r.againstVotes = proposals[q].againstVotes
  BY <1>3 DEF Proposal
<1>5. ~proposals[q].executed /\ ~proposals[q].canceled
  BY <1>1 DEF IInv, Fresh
<1> HIDE DEF r
<1>6. proposals' \in [PId -> Proposal] /\ count' \in 0 .. MaxProposals
  BY <1>1, <1>2, <1>3 DEF IInv, TypeOK, Propose, PId
<1>7. \A p \in PId : p # q => proposals'[p] = proposals[p]
  BY <1>2 DEF IInv, TypeOK
<1>8. proposals'[q] = r
  BY <1>1, <1>2 DEF IInv, TypeOK
<1>9. TypeOK'
  BY <1>6 DEF Propose, IInv, TypeOK, joyVars, policyVars
<1>10. TalliesAreVotes'
  BY <1>4, <1>7, <1>8 DEF Propose, IInv, TalliesAreVotes
<1>11. Fresh'
  <2>1. count' = count + 1
    BY DEF Propose
  <2>2. \A p \in PId : p > count + 1 => p > count /\ p # q
    BY <1>1 DEF PId
  <2>3. QED
    BY <1>7, <2>1, <2>2 DEF IInv, Fresh
<1>12. PolicyWasVoted' /\ ExecutedSucceeded'
  BY <1>4, <1>5, <1>7, <1>8
     DEF Propose, IInv, PolicyWasVoted, Passed, ExecutedSucceeded, policyVars
<1>13. QED
  BY <1>9, <1>10, <1>11, <1>12 DEF Propose, IInv, StakesBacked, joyVars

LEMMA VoteStep ==
  ASSUME IInv, NEW u \in User, NEW p \in PId, NEW support \in BOOLEAN,
         Vote(u, p, support)
  PROVE  IInv'
<1> DEFINE n == stakes[u]
           r == IF support THEN [proposals[p] EXCEPT !.forVotes = @ + n]
                           ELSE [proposals[p] EXCEPT !.againstVotes = @ + n]
<1>1. proposals[p] \in Proposal /\ n \in Nat /\ IsFiniteSet(User)
  BY MarketplaceGovernanceAssumption DEF IInv, TypeOK
<1>2. r \in Proposal
  <2>1. /\ [proposals[p] EXCEPT !.forVotes = @ + n] \in Proposal
        /\ [proposals[p] EXCEPT !.againstVotes = @ + n] \in Proposal
    <3> HIDE DEF n
    <3> QED BY <1>1, FieldTypes
  <2>2. QED
    BY <2>1
<1>3. proposals' = [proposals EXCEPT ![p] = r]
  BY DEF Vote
<1>4. /\ r.executed = proposals[p].executed /\ r.canceled = proposals[p].canceled
      /\ r.call = proposals[p].call
      /\ r.forVotes + r.againstVotes = proposals[p].forVotes + proposals[p].againstVotes + n
  BY <1>1 DEF Proposal
<1>5. ~proposals[p].executed /\ ~proposals[p].canceled /\ p <= count
  BY DEF Vote, Pending
<1> HIDE DEF r
<1>6. \A s \in PId : s # p => proposals'[s] = proposals[s]
  BY <1>3 DEF IInv, TypeOK
<1>7. proposals'[p] = r
  BY <1>3 DEF IInv, TypeOK
<1>8. TypeOK'
  <2>1. votes' \in [PId -> [User -> Nat]]
    BY <1>1 DEF Vote, IInv, TypeOK
  <2>2. proposals' \in [PId -> Proposal]
    BY <1>2, <1>3 DEF IInv, TypeOK
  <2>3. QED
    BY <2>1, <2>2 DEF Vote, IInv, TypeOK, joyVars, policyVars
<1>9. TalliesAreVotes'
  <2>1. /\ votes[p] \in [User -> Nat] /\ votes'[p] \in [User -> Nat]
        /\ votes[p][u] = 0 /\ votes'[p][u] = n
        /\ \A y \in User \ {u} : votes'[p][y] = votes[p][y]
        /\ \A s \in PId : s # p => votes'[s] = votes[s]
    BY <1>1 DEF Vote, IInv, TypeOK
  <2>2. Total(votes'[p], User) = Total(votes[p], User) - 0 + n
    BY <1>1, <2>1, TotalUpdate
  <2>3. Total(votes[p], User) \in Nat
    BY <1>1, <2>1, TotalNat
  <2>4. proposals'[p].forVotes + proposals'[p].againstVotes = Total(votes'[p], User)
    BY <1>1, <1>4, <1>7, <2>2, <2>3 DEF IInv, TalliesAreVotes
  <2>5. QED
    BY <1>6, <2>1, <2>4 DEF IInv, TalliesAreVotes
<1>10. Fresh' /\ PolicyWasVoted' /\ ExecutedSucceeded'
  <2>1. \A s \in PId : /\ proposals'[s].executed = proposals[s].executed
                       /\ proposals'[s].canceled = proposals[s].canceled
    BY <1>4, <1>6, <1>7
  <2>2. \A s \in PId : proposals[s].executed => proposals'[s] = proposals[s]
    BY <1>5, <1>6
  <2>3. Fresh'
    BY <2>1 DEF Vote, IInv, Fresh
  <2>4. PolicyWasVoted'
    BY <2>2 DEF Vote, IInv, PolicyWasVoted, Passed, policyVars
  <2>5. ExecutedSucceeded'
    BY <2>1, <2>2 DEF IInv, ExecutedSucceeded
  <2>6. QED
    BY <2>3, <2>4, <2>5
<1>11. QED
  BY <1>8, <1>9, <1>10 DEF Vote, IInv, StakesBacked, joyVars

LEMMA ExecuteStep ==
  ASSUME IInv, NEW p \in PId, ExecuteProposal(p)
  PROVE  IInv'
<1> DEFINE r == [proposals[p] EXCEPT !.executed = TRUE]
           c == proposals[p].call
<1>1. proposals[p] \in Proposal
  BY DEF IInv, TypeOK
<1>2. r \in Proposal
  BY <1>1, 0 \in Nat, FieldTypes
<1>3. proposals' = [proposals EXCEPT ![p] = r]
  BY DEF ExecuteProposal
<1>4. /\ r.executed /\ r.canceled = proposals[p].canceled /\ r.call = c
      /\ r.forVotes = proposals[p].forVotes /\ r.againstVotes = proposals[p].againstVotes
  BY <1>1 DEF Proposal
<1>5. /\ ~proposals[p].executed /\ ~proposals[p].canceled /\ p <= count
      /\ proposals[p].forVotes > proposals[p].againstVotes /\ Succeeds(c)
  BY DEF ExecuteProposal, Pending
<1>6. c \in Call \cup {NoCall}
  BY <1>1 DEF Proposal
<1> HIDE DEF r
<1>7. \A s \in PId : s # p => proposals'[s] = proposals[s]
  BY <1>3 DEF IInv, TypeOK
<1>8. proposals'[p] = r
  BY <1>3 DEF IInv, TypeOK
<1>9. /\ "fee" \in DOMAIN c => platformFee' = c.fee /\ royaltyBounds' = royaltyBounds
      /\ "fee" \notin DOMAIN c => royaltyBounds' = c /\ platformFee' = platformFee
  BY DEF ExecuteProposal, Apply
<1>10. /\ "fee" \in DOMAIN c => c = [fee |-> platformFee'] /\ platformFee' \in Nat
       /\ "fee" \notin DOMAIN c => royaltyBounds' \in [min : Nat, max : Nat]
  BY <1>6, <1>9, CallTypes
<1>11. TypeOK'
  <2>1. platformFee' \in Nat /\ royaltyBounds' \in [min : Nat, max : Nat]
    BY <1>9, <1>10 DEF IInv, TypeOK
  <2>2. proposals' \in [PId -> Proposal]
    BY <1>2, <1>3 DEF IInv, TypeOK
  <2>3. QED
    BY <2>1, <2>2 DEF ExecuteProposal, IInv, TypeOK, joyVars
<1>12. TalliesAreVotes'
  BY <1>4, <1>7, <1>8 DEF ExecuteProposal, IInv, TalliesAreVotes
<1>13. Fresh'
  <2>1. ~(p > count) /\ count' = count
    BY <1>5 DEF ExecuteProposal, IInv, TypeOK, PId
  <2>2. QED
    BY <1>7, <2>1 DEF IInv, Fresh
<1>14. PolicyWasVoted'
  <2>1. Passed(p)' /\ proposals'[p].call = c
    BY <1>4, <1>5, <1>8 DEF Passed
  <2>2. \A s \in PId : Passed(s) => Passed(s)' /\ proposals'[s].call = proposals[s].call
    BY <1>5, <1>7 DEF Passed
  <2>3. CASE "fee" \in DOMAIN c
    BY <1>9, <1>10, <2>1, <2>2, <2>3 DEF IInv, PolicyWasVoted
  <2>4. CASE "fee" \notin DOMAIN c
    BY <1>9, <1>10, <2>1, <2>2, <2>4 DEF IInv, PolicyWasVoted
  <2>5. QED
    BY <2>3, <2>4
<1>15. ExecutedSucceeded'
  BY <1>4, <1>5, <1>7, <1>8 DEF IInv, ExecutedSucceeded
<1>16. QED
  BY <1>11, <1>12, <1>13, <1>14, <1>15 DEF ExecuteProposal, IInv, StakesBacked, joyVars

LEMMA CancelStep ==
  ASSUME IInv, NEW p \in PId, CancelProposal(p)
  PROVE  IInv'
<1> DEFINE r == [proposals[p] EXCEPT !.canceled = TRUE]
<1>1. proposals[p] \in Proposal
  BY DEF IInv, TypeOK
<1>2. r \in Proposal
  BY <1>1, 0 \in Nat, FieldTypes
<1>3. proposals' = [proposals EXCEPT ![p] = r]
  BY DEF CancelProposal
<1>4. /\ r.executed = proposals[p].executed
      /\ r.forVotes = proposals[p].forVotes /\ r.againstVotes = proposals[p].againstVotes
  BY <1>1 DEF Proposal
<1>5. ~proposals[p].executed /\ p <= count
  BY DEF CancelProposal, Pending
<1> HIDE DEF r
<1>6. \A s \in PId : s # p => proposals'[s] = proposals[s]
  BY <1>3 DEF IInv, TypeOK
<1>7. proposals'[p] = r
  BY <1>3 DEF IInv, TypeOK
<1>8. TypeOK'
  <2>1. proposals' \in [PId -> Proposal]
    BY <1>2, <1>3 DEF IInv, TypeOK
  <2>2. QED
    BY <2>1 DEF CancelProposal, IInv, TypeOK, joyVars, policyVars
<1>9. TalliesAreVotes'
  BY <1>4, <1>6, <1>7 DEF CancelProposal, IInv, TalliesAreVotes
<1>10. Fresh'
  <2>1. ~(p > count) /\ count' = count
    BY <1>5 DEF CancelProposal, IInv, TypeOK, PId
  <2>2. QED
    BY <1>6, <2>1 DEF IInv, Fresh
<1>11. PolicyWasVoted' /\ ExecutedSucceeded'
  BY <1>4, <1>5, <1>6, <1>7
     DEF CancelProposal, IInv, PolicyWasVoted, Passed, ExecutedSucceeded, policyVars
<1>12. QED
  BY <1>8, <1>9, <1>10, <1>11 DEF CancelProposal, IInv, StakesBacked, joyVars

LEMMA NextIInv == IInv /\ [Next]_vars => IInv'
<1> SUFFICES ASSUME IInv, [Next]_vars PROVE IInv'
  OBVIOUS
<1>1. CASE \E u \in User : StakerStep(u)
  BY <1>1, StakeStep, UnstakeStep, TransferStep, ProposeStep, VoteStep DEF StakerStep
<1>2. CASE \E p \in PId : ExecuteProposal(p) \/ CancelProposal(p)
  BY <1>2, ExecuteStep, CancelStep
<1>3. CASE Tick
  BY <1>3 DEF Tick, IInv, TypeOK, StakesBacked, TalliesAreVotes, Fresh, PolicyWasVoted, Passed,
              ExecutedSucceeded, joyVars, ballotVars, policyVars
<1>4. CASE UNCHANGED vars
  BY <1>4 DEF vars, IInv, TypeOK, StakesBacked, TalliesAreVotes, Fresh, PolicyWasVoted, Passed,
              ExecutedSucceeded, joyVars, ballotVars, policyVars
<1>5. QED
  BY <1>1, <1>2, <1>3, <1>4 DEF Next

LEMMA Invariant == Spec => []IInv
<1>1. Init => IInv
  BY InitIInv
<1>2. IInv /\ [Next]_vars => IInv'
  BY NextIInv
<1>3. QED
  BY <1>1, <1>2, PTL DEF Spec

-----------------------------------------------------------------------------
\* The types of all variables: no stake, balance or result of a ballot goes below zero.
THEOREM TypeCorrect == Spec => []TypeOK
<1>1. Spec => []IInv
  BY Invariant
<1>2. IInv => TypeOK
  BY DEF IInv
<1>3. QED
  BY <1>1, <1>2, PTL

\* stake and unstake keep the JOY of the contract equal to the sum of the stakes and to
\* its own total.
THEOREM Backed == Spec => []StakesBacked
<1>1. Spec => []IInv
  BY Invariant
<1>2. IInv => StakesBacked
  BY DEF IInv
<1>3. QED
  BY <1>1, <1>2, PTL

\* The result of a ballot is the sum of the recorded votes, one per account, whatever
\* is unstaked, moved and staked again meanwhile.
THEOREM VotesTallied == Spec => []TalliesAreVotes
<1>1. Spec => []IInv
  BY Invariant
<1>2. IInv => TalliesAreVotes
  BY DEF IInv
<1>3. QED
  BY <1>1, <1>2, PTL

\* The fee and the bounds in force are the first ones or those of a proposal that was
\* executed with more stake for it than against it, and what was executed was accepted.
THEOREM PolicyVoted == Spec => []PolicyInForce
<1>1. Spec => []IInv
  BY Invariant
<1>2. IInv => PolicyInForce
  BY DEF IInv, PolicyInForce
<1>3. QED
  BY <1>1, <1>2, PTL

\* One step leaves a decided proposal and its votes as they are.
DecidedStep ==
  \A p \in PId : proposals[p].executed \/ proposals[p].canceled =>
    proposals'[p] = proposals[p] /\ votes'[p] = votes[p]

\* No call touches a proposal, or its votes, once it was executed or cancelled.
THEOREM Final == Spec => DecidedIsFinal
<1>1. Spec => []IInv
  BY Invariant
<1>2. IInv /\ [Next]_vars => [DecidedStep]_vars
  <2> SUFFICES ASSUME IInv, Next PROVE DecidedStep
    OBVIOUS
  <2> USE DEF DecidedStep
  <2>1. ASSUME NEW u \in User, StakerStep(u) PROVE DecidedStep
    <3>1. ASSUME NEW a \in Amount,
                 Stake(u, a) \/ Unstake(u, a) \/ \E v \in User : Transfer(u, v, a)
          PROVE  DecidedStep
      BY <3>1 DEF Stake, Unstake, Transfer, ballotVars
    <3>2. ASSUME NEW c \in Call, Propose(u, c) PROVE DecidedStep
      <4>1. count + 1 > count /\ count + 1 \in PId
        BY <3>2, MarketplaceGovernanceAssumption DEF Propose, IInv, TypeOK, PId
      <4>2. ~proposals[count + 1].executed /\ ~proposals[count + 1].canceled
        BY <4>1 DEF IInv, Fresh
      <4>3. QED
        BY <3>2, <4>2 DEF Propose, IInv, TypeOK
    <3>3. ASSUME NEW p \in PId, NEW support \in BOOLEAN, Vote(u, p, support)
          PROVE  DecidedStep
      BY <3>3 DEF Vote, Pending, IInv, TypeOK
    <3>4. QED
      BY <2>1, <3>1, <3>2, <3>3 DEF StakerStep
  <2>2. ASSUME NEW p \in PId, ExecuteProposal(p) \/ CancelProposal(p) PROVE DecidedStep
    BY <2>2 DEF ExecuteProposal, CancelProposal, Pending, IInv, TypeOK
  <2>3. CASE Tick
    BY <2>3 DEF Tick, ballotVars
  <2>4. QED
    BY <2>1, <2>2, <2>3 DEF Next
<1>3. QED
  BY <1>1, <1>2, PTL DEF Spec, DecidedIsFinal, DecidedStep

-----------------------------------------------------------------------------
(* Liquid democracy: the book of delegations.                              *)

\* The totals of LiquidDemocracy are those the lemmas are about.
LEMMA LiquidTotals ==
  ASSUME NEW f, NEW S
  PROVE  Liquid!Total(f, S) = Total(f, S)
BY DEF Liquid!Total, Total, Units, Liquid!Units, Liquid!Cardinality, Cardinality

LEMMA VotersFinite == IsFiniteSet(Voter)
BY LiquidAssumption DEF Liquid!LiquidDemocracyAssumption, Liquid!IsFiniteSet, IsFiniteSet

Book == [delegations : [Voter -> Liquid!Delegation], delegators : [Voter -> Seq(Voter)],
         votingPower : [Voter -> Nat], reputation : [Voter -> Nat]]

Live(b) ==
  \A u \in Voter : b.delegations[u].isActive => b.delegations[u].delegate \in Voter

Powered(b, d) == b.votingPower[d] = b.reputation[d] + Total(Liquid!Shares(b, d), Voter)

(***************************************************************************)
(* What every call leaves the book in: the lists hold the active           *)
(* delegations, and every power was counted with what is active now.       *)
(***************************************************************************)
GoodBook(b) ==
  b \in Book /\ Live(b) /\ Liquid!Listed(b) /\ \A d \in Voter : Powered(b, d)

LEMMA SharesType ==
  ASSUME NEW b \in Book, NEW d
  PROVE  Liquid!Shares(b, d) \in [Voter -> Nat]
<1>1. \A u \in Voter : b.delegations[u] \in Liquid!Delegation
  BY DEF Book
<1>2. \A u \in Voter : b.delegations[u].weight \in Nat
  BY <1>1 DEF Liquid!Delegation
<1>3. QED
  BY <1>2 DEF Liquid!Shares

\* In a list without repetition, each active delegation is counted once.
LEMMA AddsAreShares ==
  ASSUME NEW b \in Book, Liquid!Listed(b), NEW d \in Voter
  PROVE  /\ Liquid!Total(Liquid!Adds(b, d), DOMAIN b.delegators[d])
              = Total(Liquid!Shares(b, d), Voter)
         /\ Total(Liquid!Shares(b, d), Voter) \in Nat
<1> DEFINE list == b.delegators[d]
           S == DOMAIN list
           f == Liquid!Adds(b, d)
           g == Liquid!Shares(b, d)
<1>1. list \in Seq(Voter) /\ S = 1 .. Len(list) /\ Len(list) \in Nat /\ list \in [S -> Voter]
  BY DEF Book
<1>2. IsFiniteSet(S)
  <2>1. 1 \in Int /\ Len(list) \in Int
    BY <1>1
  <2>2. IsFiniteSet(1 .. Len(list))
    BY <2>1, FS_Interval
  <2>3. QED
    BY <1>1, <2>2
<1>3. g \in [Voter -> Nat]
  BY SharesType
<1>4. /\ \A x, y \in S : list[x] = list[y] => x = y
      /\ {list[x] : x \in S}
           = {u \in Voter : b.delegations[u].isActive /\ b.delegations[u].delegate = d}
  BY DEF Liquid!Listed
<1>5. f = [x \in S |-> IF b.delegations[list[x]].isActive
                       THEN b.delegations[list[x]].weight ELSE 0]
  BY DEF Liquid!Adds
<1>6. ASSUME NEW x \in S PROVE g[list[x]] = f[x] /\ f[x] \in Nat
  <2>1. list[x] \in {u \in Voter : b.delegations[u].isActive /\ b.delegations[u].delegate = d}
    BY <1>4
  <2>2. f[x] = b.delegations[list[x]].weight /\ g[list[x]] = b.delegations[list[x]].weight
    BY <1>5, <2>1 DEF Liquid!Shares
  <2>3. QED
    BY <1>3, <2>1, <2>2
<1>7. f \in [S -> Nat]
  BY <1>5, <1>6
<1>8. ASSUME NEW y \in Voter PROVE (\E x \in S : y = list[x]) \/ g[y] = 0
  BY <1>4 DEF Liquid!Shares
<1> HIDE DEF list, S, f, g
<1>9. Total(f, S) = Total(g, Voter)
  <2>1. list \in [S -> Voter] /\ \A x, y \in S : list[x] = list[y] => x = y
    BY <1>1, <1>4
  <2>2. \A x \in S : g[list[x]] = f[x]
    BY <1>6
  <2>3. \A y \in Voter : (\E x \in S : y = list[x]) \/ g[y] = 0
    BY <1>8
  <2>4. Carries(list, f, S, g, Voter)
    BY <1>3, <1>7, <2>1, <2>2, <2>3 DEF Carries
  <2>5. QED
    BY <1>2, <2>4, TotalElsewhere
<1>10. Liquid!Total(f, S) = Total(f, S)
  BY LiquidTotals
<1>11. Total(g, Voter) \in Nat
  BY <1>3, VotersFinite, TotalNat
<1>12. QED
  BY <1>9, <1>10, <1>11 DEF list, S, f, g

\* _updateVotingPower: the power of d is right when all others are.
LEMMA RecountedGood ==
  ASSUME NEW b \in Book, Live(b), Liquid!Listed(b), NEW d \in Voter, Liquid!Reputation(d) \in Nat,
         \A e \in Voter \ {d} : Powered(b, e)
  PROVE  /\ GoodBook(Liquid!Recounted(b, d))
         /\ Liquid!Recounted(b, d).delegations = b.delegations
<1> DEFINE n == Liquid!Reputation(d)
           t == Total(Liquid!Shares(b, d), Voter)
           r == [b EXCEPT !.reputation[d] = n, !.votingPower[d] = n + t]
<1>1. Liquid!Total(Liquid!Adds(b, d), DOMAIN b.delegators[d]) = t /\ t \in Nat
  BY AddsAreShares
<1>2. Liquid!Recounted(b, d) = r
  BY <1>1 DEF Liquid!Recounted
<1>3. /\ r \in Book /\ r.delegations = b.delegations /\ r.delegators = b.delegators
      /\ r.reputation = [b.reputation EXCEPT ![d] = n]
      /\ r.votingPower = [b.votingPower EXCEPT ![d] = n + t]
  <2>1. n \in Nat /\ n + t \in Nat
    BY <1>1
  <2> HIDE DEF n, t
  <2>2. QED
    BY <2>1 DEF Book
<1> HIDE DEF r, n, t
<1>4. Live(r) /\ Liquid!Listed(r)
  BY <1>3 DEF Live, Liquid!Listed
<1>5. ASSUME NEW e \in Voter PROVE Powered(r, e)
  <2>1. Liquid!Shares(r, e) = Liquid!Shares(b, e)
    BY <1>3 DEF Liquid!Shares
  <2>2. b.reputation \in [Voter -> Nat] /\ b.votingPower \in [Voter -> Nat]
    BY DEF Book
  <2>3. CASE e = d
    BY <1>3, <2>1, <2>2, <2>3 DEF Powered, t
  <2>4. CASE e # d
    BY <1>3, <2>1, <2>2, <2>4 DEF Powered
  <2>5. QED
    BY <2>3, <2>4
<1>6. QED
  BY <1>2, <1>3, <1>4, <1>5 DEF GoodBook

\* Taking u off a list that holds it once takes nothing else off.
LEMMA UnlistedList ==
  ASSUME NEW list \in Seq(Voter), NEW u \in Voter,
         \A i, j \in DOMAIN list : list[i] = list[j] => i = j,
         \E i \in DOMAIN list : list[i] = u
  PROVE  LET rest == Liquid!Unlisted(list, u)
         IN /\ rest \in Seq(Voter)
            /\ \A i, j \in DOMAIN rest : rest[i] = rest[j] => i = j
            /\ \A v : (\E i \in DOMAIN rest : rest[i] = v)
                      <=> v # u /\ (\E i \in DOMAIN list : list[i] = v)
<1> DEFINE n == Len(list)
           rest == Liquid!Unlisted(list, u)
<1>1. n \in Nat /\ DOMAIN list = 1 .. n /\ \A i \in 1 .. n : list[i] \in Voter
  OBVIOUS
<1>2. PICK k \in 1 .. n : list[k] = u
  BY <1>1
<1>3. \A i \in 1 .. n : list[i] = u => i = k
  BY <1>1, <1>2
<1>4. Liquid!PlaceOf(list, u) = k
  <2>1. \A j \in DOMAIN list : list[j] = u => k <= j
    BY <1>1, <1>2, <1>3
  <2>2. QED
    BY <1>1, <1>2, <1>3, <2>1 DEF Liquid!PlaceOf
<1>5. rest = [i \in 1 .. n - 1 |-> IF i = k THEN list[n] ELSE list[i]]
  BY <1>1, <1>2, <1>4 DEF Liquid!Unlisted
<1> HIDE DEF rest, n
<1>6. n - 1 \in Nat /\ n \in 1 .. n /\ DOMAIN rest = 1 .. n - 1
  BY <1>1, <1>2, <1>5
<1>7. \A i \in 1 .. n - 1 : /\ i \in 1 .. n /\ i # n
                            /\ rest[i] = IF i = k THEN list[n] ELSE list[i]
  BY <1>1, <1>5
<1>8. \A i \in 1 .. n - 1 : rest[i] \in Voter
  BY <1>1, <1>6, <1>7
<1>9. rest \in Seq(Voter)
  BY <1>5, <1>6, <1>8
<1>10. ASSUME NEW i \in 1 .. n - 1, NEW j \in 1 .. n - 1, rest[i] = rest[j] PROVE i = j
  BY <1>1, <1>6, <1>7, <1>10
<1>11. ASSUME NEW i \in 1 .. n - 1 PROVE rest[i] # u /\ \E j \in 1 .. n : list[j] = rest[i]
  BY <1>1, <1>3, <1>6, <1>7
<1>12. ASSUME NEW j \in 1 .. n, list[j] # u PROVE \E i \in 1 .. n - 1 : rest[i] = list[j]
  <2>1. CASE j = n
    <3>1. k # n /\ k \in 1 .. n - 1
      BY <1>1, <1>2, <1>12, <2>1
    <3>2. QED
      BY <1>7, <2>1, <3>1
  <2>2. CASE j # n
    <3>1. j # k /\ j \in 1 .. n - 1
      BY <1>1, <1>2, <1>12, <2>2
    <3>2. QED
      BY <1>7, <3>1
  <2>3. QED
    BY <2>1, <2>2
<1>13. \A i, j \in DOMAIN rest : rest[i] = rest[j] => i = j
  BY <1>6, <1>10
<1>14. ASSUME NEW v
       PROVE  (\E i \in DOMAIN rest : rest[i] = v) <=> v # u /\ (\E i \in DOMAIN list : list[i] = v)
  <2>1. ASSUME NEW i \in DOMAIN rest, rest[i] = v
        PROVE  v # u /\ \E j \in DOMAIN list : list[j] = v
    BY <1>1, <1>6, <1>11, <2>1
  <2>2. ASSUME v # u, NEW j \in DOMAIN list, list[j] = v PROVE \E i \in DOMAIN rest : rest[i] = v
    BY <1>1, <1>6, <1>12, <2>2
  <2>3. QED
    BY <2>1, <2>2
<1>15. QED
  BY <1>9, <1>13, <1>14 DEF rest

\* One more entry that was not in the list.
LEMMA AppendedList ==
  ASSUME NEW list \in Seq(Voter), NEW u \in Voter,
         \A i, j \in DOMAIN list : list[i] = list[j] => i = j,
         \A i \in DOMAIN list : list[i] # u
  PROVE  LET more == Append(list, u)
         IN /\ more \in Seq(Voter)
            /\ \A i, j \in DOMAIN more : more[i] = more[j] => i = j
            /\ \A v : (\E i \in DOMAIN more : more[i] = v)
                      <=> v = u \/ (\E i \in DOMAIN list : list[i] = v)
<1> DEFINE n == Len(list)
           more == Append(list, u)
<1>1. n \in Nat /\ DOMAIN list = 1 .. n
  OBVIOUS
<1>2. more \in Seq(Voter) /\ Len(more) = n + 1 /\ DOMAIN more = 1 .. n + 1
  OBVIOUS
<1>3. (\A i \in 1 .. n : more[i] = list[i]) /\ more[n + 1] = u
  OBVIOUS
<1> HIDE DEF n, more
<1>4. \A i \in 1 .. n + 1 : i \in 1 .. n \/ i = n + 1
  BY <1>1
<1>5. \A i, j \in DOMAIN more : more[i] = more[j] => i = j
  BY <1>1, <1>2, <1>3, <1>4
<1>6. 1 .. n \subseteq 1 .. n + 1 /\ n + 1 \in 1 .. n + 1
  BY <1>1
<1>7. \A v : (\E i \in DOMAIN more : more[i] = v) <=> v = u \/ (\E i \in DOMAIN list : list[i] = v)
  BY <1>1, <1>2, <1>3, <1>4, <1>6
<1>8. QED
  BY <1>2, <1>5, <1>7 DEF more

\* What Listed says of one list, entry by entry.
LEMMA ListedHas ==
  ASSUME NEW b, NEW d \in Voter
  PROVE  /\ Liquid!Listed(b) =>
              /\ \A i, j \in DOMAIN b.delegators[d] :
                   b.delegators[d][i] = b.delegators[d][j] => i = j
              /\ \A v : (\E i \in DOMAIN b.delegators[d] : b.delegators[d][i] = v)
                   <=> v \in Voter /\ b.delegations[v].isActive /\ b.delegations[v].delegate = d
BY DEF Liquid!Listed

LEMMA HasListed ==
  ASSUME NEW b,
         \A d \in Voter :
           /\ \A i, j \in DOMAIN b.delegators[d] :
                b.delegators[d][i] = b.delegators[d][j] => i = j
           /\ \A v : (\E i \in DOMAIN b.delegators[d] : b.delegators[d][i] = v)
                <=> v \in Voter /\ b.delegations[v].isActive /\ b.delegations[v].delegate = d
  PROVE  Liquid!Listed(b)
<1>1. ASSUME NEW d \in Voter
      PROVE  {b.delegators[d][i] : i \in DOMAIN b.delegators[d]}
               = {u \in Voter : b.delegations[u].isActive /\ b.delegations[u].delegate = d}
  OBVIOUS
<1>2. QED
  BY <1>1 DEF Liquid!Listed

\* _revokeDelegation leaves a good book in which u delegates no more.
LEMMA RevokedGood ==
  ASSUME NEW b, GoodBook(b), NEW u \in Voter, b.delegations[u].isActive,
         \A d \in Voter : Liquid!Reputation(d) \in Nat
  PROVE  /\ GoodBook(Liquid!Revoked(b, u))
         /\ ~Liquid!Revoked(b, u).delegations[u].isActive
<1> DEFINE d == b.delegations[u].delegate
           list == b.delegators[d]
           rest == Liquid!Unlisted(list, u)
           c == [b EXCEPT !.delegations[u].isActive = FALSE, !.delegators[d] = rest]
<1>1. b \in Book /\ d \in Voter /\ list \in Seq(Voter) /\ Live(b) /\ Liquid!Listed(b)
  BY DEF GoodBook, Book, Live
<1>2. Liquid!Revoked(b, u) = Liquid!Recounted(c, d)
  BY DEF Liquid!Revoked
<1>3. /\ \A i, j \in DOMAIN list : list[i] = list[j] => i = j
      /\ \A v : (\E i \in DOMAIN list : list[i] = v)
                <=> v \in Voter /\ b.delegations[v].isActive /\ b.delegations[v].delegate = d
  BY <1>1, ListedHas
<1>4. /\ rest \in Seq(Voter)
      /\ \A i, j \in DOMAIN rest : rest[i] = rest[j] => i = j
      /\ \A v : (\E i \in DOMAIN rest : rest[i] = v)
                <=> v # u /\ (\E i \in DOMAIN list : list[i] = v)
  <2>1. \E i \in DOMAIN list : list[i] = u
    BY <1>3
  <2> HIDE DEF list
  <2>2. QED
    BY <1>1, <1>3, <2>1, UnlistedList
<1>5. b.delegations[u] \in Liquid!Delegation
  BY <1>1 DEF Book
<1>6. /\ c.delegations = [b.delegations EXCEPT ![u] = [b.delegations[u] EXCEPT !.isActive = FALSE]]
      /\ c.delegators = [b.delegators EXCEPT ![d] = rest]
      /\ c.votingPower = b.votingPower /\ c.reputation = b.reputation
  <2> HIDE DEF d, rest
  <2>1. QED
    BY <1>1 DEF Book
<1>7. [b.delegations[u] EXCEPT !.isActive = FALSE] \in Liquid!Delegation
  BY <1>5 DEF Liquid!Delegation
<1>8. c \in Book
  <2>1. c.delegations \in [Voter -> Liquid!Delegation] /\ c.delegators \in [Voter -> Seq(Voter)]
    <3> HIDE DEF c, d, rest
    <3>1. QED
      BY <1>1, <1>4, <1>6, <1>7 DEF Book
  <2>2. QED
    <3> HIDE DEF d, rest
    <3>1. QED
      BY <1>1, <2>1 DEF Book
<1> HIDE DEF c, d, rest, list
<1>9. /\ \A v \in Voter \ {u} : c.delegations[v] = b.delegations[v]
      /\ c.delegations[u].isActive = FALSE /\ c.delegations[u].delegate = d
      /\ c.delegators[d] = rest /\ \A e \in Voter \ {d} : c.delegators[e] = b.delegators[e]
  BY <1>1, <1>5, <1>6 DEF Book, Liquid!Delegation, d
<1>10. Live(c)
  BY <1>1, <1>9 DEF Live
<1>11. Liquid!Listed(c)
  <2>1. ASSUME NEW e \in Voter
        PROVE  /\ \A i, j \in DOMAIN c.delegators[e] :
                    c.delegators[e][i] = c.delegators[e][j] => i = j
               /\ \A v : (\E i \in DOMAIN c.delegators[e] : c.delegators[e][i] = v)
                    <=> v \in Voter /\ c.delegations[v].isActive /\ c.delegations[v].delegate = e
    <3>1. CASE e = d
      <4>1. c.delegators[e] = rest
        BY <1>9, <3>1
      <4>2. \A v \in Voter : c.delegations[v].isActive /\ c.delegations[v].delegate = e
                  <=> v # u /\ b.delegations[v].isActive /\ b.delegations[v].delegate = e
        BY <1>9, <3>1
      <4>3. \A v : (\E i \in DOMAIN rest : rest[i] = v)
                     <=> v \in Voter /\ c.delegations[v].isActive /\ c.delegations[v].delegate = e
        BY <1>3, <1>4, <3>1, <4>2
      <4>4. QED
        BY <1>4, <4>1, <4>3
    <3>2. CASE e # d
      <4>1. c.delegators[e] = b.delegators[e]
        BY <1>9, <3>2
      <4>2. \A v \in Voter : c.delegations[v].isActive /\ c.delegations[v].delegate = e
                             <=> b.delegations[v].isActive /\ b.delegations[v].delegate = e
        BY <1>9, <3>2 DEF d
      <4>3. QED
        BY <1>1, <4>1, <4>2, ListedHas
    <3>3. QED
      BY <3>1, <3>2
  <2>2. QED
    BY <2>1, HasListed
<1>12. ASSUME NEW e \in Voter \ {d} PROVE Powered(c, e)
  <2>1. Liquid!Shares(c, e) = Liquid!Shares(b, e)
    BY <1>9 DEF Liquid!Shares, d
  <2>2. Powered(b, e)
    BY DEF GoodBook
  <2>3. QED
    BY <1>6, <2>1, <2>2 DEF Powered
<1>13. GoodBook(Liquid!Recounted(c, d)) /\ Liquid!Recounted(c, d).delegations = c.delegations
  BY <1>1, <1>8, <1>10, <1>11, <1>12, RecountedGood
<1>14. QED
  BY <1>2, <1>9, <1>13

\* delegateVote of one who delegates to nobody leaves a good book.
LEMMA DelegatedGood ==
  ASSUME NEW b, GoodBook(b), NEW u \in Voter, ~b.delegations[u].isActive, NEW d \in Voter,
         NEW w \in Nat, \A v \in Voter : Liquid!Reputation(v) \in Nat
  PROVE  GoodBook(Liquid!Recounted(
           [b EXCEPT !.delegations[u] = [delegate |-> d, weight |-> w, isActive |-> TRUE],
                     !.delegators[d] = Append(b.delegators[d], u)], d))
<1> DEFINE list == b.delegators[d]
           more == Append(list, u)
           new == [delegate |-> d, weight |-> w, isActive |-> TRUE]
           c == [b EXCEPT !.delegations[u] = new, !.delegators[d] = more]
<1>1. b \in Book /\ list \in Seq(Voter) /\ Live(b) /\ Liquid!Listed(b)
  BY DEF GoodBook, Book
<1>2. /\ \A i, j \in DOMAIN list : list[i] = list[j] => i = j
      /\ \A v : (\E i \in DOMAIN list : list[i] = v)
                <=> v \in Voter /\ b.delegations[v].isActive /\ b.delegations[v].delegate = d
  BY <1>1, ListedHas
<1>3. /\ more \in Seq(Voter)
      /\ \A i, j \in DOMAIN more : more[i] = more[j] => i = j
      /\ \A v : (\E i \in DOMAIN more : more[i] = v)
                <=> v = u \/ (\E i \in DOMAIN list : list[i] = v)
  <2>1. \A i \in DOMAIN list : list[i] # u
    BY <1>2
  <2> HIDE DEF list
  <2>2. QED
    BY <1>1, <1>2, <2>1, AppendedList
<1>4. new \in Liquid!Delegation /\ new.isActive /\ new.delegate = d
  BY DEF Liquid!Delegation
<1>5. /\ c.delegations = [b.delegations EXCEPT ![u] = new]
      /\ c.delegators = [b.delegators EXCEPT ![d] = more]
      /\ c.votingPower = b.votingPower /\ c.reputation = b.reputation
  <2> HIDE DEF more, new
  <2>1. QED
    BY <1>1 DEF Book
<1>6. c \in Book
  <2>1. c.delegations \in [Voter -> Liquid!Delegation] /\ c.delegators \in [Voter -> Seq(Voter)]
    <3> HIDE DEF c, more, new
    <3>1. QED
      BY <1>1, <1>3, <1>4, <1>5 DEF Book
  <2>2. QED
    <3> HIDE DEF more, new
    <3>1. QED
      BY <1>1, <2>1 DEF Book
<1>7. Liquid!Recounted(c, d) = Liquid!Recounted(
           [b EXCEPT !.delegations[u] = [delegate |-> d, weight |-> w, isActive |-> TRUE],
                     !.delegators[d] = Append(b.delegators[d], u)], d)
  OBVIOUS
<1> HIDE DEF c, more, list, new
<1>8. /\ \A v \in Voter \ {u} : c.delegations[v] = b.delegations[v]
      /\ c.delegations[u] = new
      /\ c.delegators[d] = more /\ \A e \in Voter \ {d} : c.delegators[e] = b.delegators[e]
  BY <1>1, <1>5 DEF Book
<1>9. Live(c)
  BY <1>1, <1>4, <1>8 DEF Live
<1>10. Liquid!Listed(c)
  <2>1. ASSUME NEW e \in Voter
        PROVE  /\ \A i, j \in DOMAIN c.delegators[e] :
                    c.delegators[e][i] = c.delegators[e][j] => i = j
               /\ \A v : (\E i \in DOMAIN c.delegators[e] : c.delegators[e][i] = v)
                    <=> v \in Voter /\ c.delegations[v].isActive /\ c.delegations[v].delegate = e
    <3>1. CASE e = d
      <4>1. c.delegators[e] = more
        BY <1>8, <3>1
      <4>2. \A v \in Voter : c.delegations[v].isActive /\ c.delegations[v].delegate = e
                  <=> v = u \/ (b.delegations[v].isActive /\ b.delegations[v].delegate = e)
        BY <1>4, <1>8, <3>1
      <4>3. \A v : (\E i \in DOMAIN more : more[i] = v)
                     <=> v \in Voter /\ c.delegations[v].isActive /\ c.delegations[v].delegate = e
        <5>1. \A v : (\E i \in DOMAIN more : more[i] = v)
                <=> v = u \/ (v \in Voter /\ b.delegations[v].isActive /\ b.delegations[v].delegate = e)
          BY <1>2, <1>3, <3>1
        <5>2. QED
          BY <4>2, <5>1
      <4>4. QED
        BY <1>3, <4>1, <4>3
    <3>2. CASE e # d
      <4>1. c.delegators[e] = b.delegators[e]
        BY <1>8, <3>2
      <4>2. \A v \in Voter : c.delegations[v].isActive /\ c.delegations[v].delegate = e
                             <=> b.delegations[v].isActive /\ b.delegations[v].delegate = e
        BY <1>4, <1>8, <3>2
      <4>3. QED
        BY <1>1, <4>1, <4>2, ListedHas
    <3>3. QED
      BY <3>1, <3>2
  <2>2. QED
    BY <2>1, HasListed
<1>11. ASSUME NEW e \in Voter \ {d} PROVE Powered(c, e)
  <2>1. Liquid!Shares(c, e) = Liquid!Shares(b, e)
    BY <1>4, <1>8 DEF Liquid!Shares
  <2>2. Powered(b, e)
    BY DEF GoodBook
  <2>3. QED
    BY <1>5, <2>1, <2>2 DEF Powered
<1>12. GoodBook(Liquid!Recounted(c, d))
  BY <1>6, <1>9, <1>10, <1>11, RecountedGood
<1>13. QED
  BY <1>7, <1>12

-----------------------------------------------------------------------------
(* Liquid democracy: the ballots.                                          *)

(***************************************************************************)
(* Only who has voted has a weight on record, and the count of executions  *)
(* is the flag of the proposal, which no creation takes back.              *)
(***************************************************************************)
Recorded ==
  /\ \A p \in ProposalId, u \in Voter : u \notin hasVoted[p] => voteWeight[p][u] = 0
  /\ \A p \in ProposalId : executions[p] = IF ballots[p].executed THEN 1 ELSE 0

LiquidInv ==
  Liquid!TypeOK /\ GoodBook(book) /\ Recorded /\ Liquid!TalliesAreWeights

LEMMA ScoreTypes ==
  ASSUME userScores \in [Voter -> Liquid!UserScore], NEW u \in Voter
  PROVE  Liquid!Reputation(u) \in Nat
<1>1. userScores[u] \in Liquid!UserScore
  OBVIOUS
<1>2. MaxScore \in Nat
  BY LiquidAssumption DEF Liquid!LiquidDemocracyAssumption, Liquid!LoveViceScoreAssumption
<1>3. userScores[u].love \in Nat /\ userScores[u].vice \in Nat
  BY <1>1, <1>2 DEF Liquid!UserScore
<1>4. QED
  BY <1>3 DEF Liquid!Reputation

LEMMA LiquidInit == Liquid!Init => LiquidInv
<1> SUFFICES ASSUME Liquid!Init PROVE LiquidInv
  OBVIOUS
<1> USE DEF Liquid!Init, Liquid!ScoreInit
<1>1. MaxScore \in Nat
  BY LiquidAssumption DEF Liquid!LiquidDemocracyAssumption, Liquid!LoveViceScoreAssumption
<1>2. userScores \in [Voter -> Liquid!UserScore] /\ now \in Nat
  BY <1>1 DEF Liquid!UserScore
<1>3. ballots \in [ProposalId -> Liquid!Proposal]
  BY DEF Liquid!Proposal
<1>4. /\ hasVoted \in [ProposalId -> SUBSET Voter] /\ voteWeight \in [ProposalId -> [Voter -> Nat]]
      /\ executions \in [ProposalId -> Nat]
  OBVIOUS
<1>5. /\ book.delegations = [u \in Voter |-> [delegate |-> Liquid!Nobody, weight |-> 0,
                                              isActive |-> FALSE]]
      /\ book.delegators = [u \in Voter |-> << >>]
      /\ book.votingPower = [u \in Voter |-> 0] /\ book.reputation = [u \in Voter |-> 0]
  OBVIOUS
<1>6. book \in Book
  <2>1. [delegate |-> Liquid!Nobody, weight |-> 0, isActive |-> FALSE] \in Liquid!Delegation
    BY DEF Liquid!Delegation
  <2>2. book.delegations \in [Voter -> Liquid!Delegation]
    BY <1>5, <2>1
  <2>3. book.delegators \in [Voter -> Seq(Voter)]
    BY <1>5
  <2>4. QED
    BY <1>5, <2>2, <2>3 DEF Book
<1>7. Liquid!TypeOK
  BY <1>2, <1>3, <1>4, <1>6 DEF Liquid!TypeOK, Book
<1>8. Live(book) /\ Liquid!Listed(book)
  <2>1. \A u \in Voter : ~book.delegations[u].isActive /\ book.delegators[u] = << >>
    BY <1>5
  <2>2. \A d \in Voter : DOMAIN book.delegators[d] = {}
    BY <2>1
  <2>3. ASSUME NEW d \in Voter
        PROVE  /\ \A i, j \in DOMAIN book.delegators[d] :
                    book.delegators[d][i] = book.delegators[d][j] => i = j
               /\ \A v : (\E i \in DOMAIN book.delegators[d] : book.delegators[d][i] = v)
                    <=> v \in Voter /\ book.delegations[v].isActive
                                    /\ book.delegations[v].delegate = d
    BY <2>1, <2>2
  <2>4. QED
    BY <2>1, <2>3, HasListed DEF Live
<1>9. ASSUME NEW d \in Voter PROVE Powered(book, d)
  <2>1. Liquid!Shares(book, d) = [u \in Voter |-> 0]
    BY <1>5 DEF Liquid!Shares
  <2>2. Total(Liquid!Shares(book, d), Voter) = 0
    BY <2>1, TotalZero
  <2>3. QED
    BY <1>5, <2>2 DEF Powered
<1>10. Recorded
  BY DEF Recorded
<1>11. Liquid!TalliesAreWeights
  <2>1. ASSUME NEW p \in ProposalId PROVE Liquid!Total(voteWeight[p], Voter) = 0
    <3>1. voteWeight[p] = [u \in Voter |-> 0]
      OBVIOUS
    <3>2. QED
      BY <3>1, TotalZero, LiquidTotals
  <2>2. QED
    BY <2>1 DEF Liquid!TalliesAreWeights
<1>12. QED
  BY <1>6, <1>7, <1>8, <1>9, <1>10, <1>11 DEF LiquidInv, GoodBook

-----------------------------------------------------------------------------
(* The steps of LiquidDemocracy.                                           *)

\* The book is all the delegation calls change.
LEMMA BookStep ==
  ASSUME LiquidInv, GoodBook(book'),
         UNCHANGED <<now, userScores, ballots, hasVoted, voteWeight, executions>>
  PROVE  LiquidInv'
<1>1. Liquid!TypeOK'
  BY DEF LiquidInv, Liquid!TypeOK, GoodBook, Book
<1>2. Recorded' /\ Liquid!TalliesAreWeights'
  BY DEF LiquidInv, Recorded, Liquid!TalliesAreWeights
<1>3. GoodBook(book)'
  OBVIOUS
<1>4. QED
  BY <1>1, <1>2, <1>3 DEF LiquidInv

LEMMA DelegateStep ==
  ASSUME LiquidInv, NEW u \in Voter, NEW d \in Voter, NEW w \in Weight,
         Liquid!DelegateVote(u, d, w)
  PROVE  LiquidInv'
<1> DEFINE b == IF book.delegations[u].isActive THEN Liquid!Revoked(book, u) ELSE book
<1>1. w \in Nat
  BY LiquidAssumption DEF Liquid!LiquidDemocracyAssumption
<1>2. \A v \in Voter : Liquid!Reputation(v) \in Nat
  BY ScoreTypes DEF LiquidInv, Liquid!TypeOK
<1>3. GoodBook(b) /\ ~b.delegations[u].isActive
  BY <1>2, RevokedGood DEF LiquidInv
<1>4. book' = Liquid!Recounted(
           [b EXCEPT !.delegations[u] = [delegate |-> d, weight |-> w, isActive |-> TRUE],
                     !.delegators[d] = Append(b.delegators[d], u)], d)
  BY DEF Liquid!DelegateVote
<1>5. GoodBook(book')
  <2> HIDE DEF b
  <2>1. QED
    BY <1>1, <1>2, <1>3, <1>4, DelegatedGood
<1>6. QED
  BY <1>5, BookStep DEF Liquid!DelegateVote, Liquid!scoreVars, Liquid!ballotVars

LEMMA RevokeStep ==
  ASSUME LiquidInv, NEW u \in Voter, Liquid!RevokeDelegation(u)
  PROVE  LiquidInv'
<1>1. \A v \in Voter : Liquid!Reputation(v) \in Nat
  BY ScoreTypes DEF LiquidInv, Liquid!TypeOK
<1>2. book.delegations[u].isActive /\ book' = Liquid!Revoked(book, u)
  BY DEF Liquid!RevokeDelegation
<1>3. GoodBook(book')
  BY <1>1, <1>2, RevokedGood DEF LiquidInv
<1>4. QED
  BY <1>3, BookStep DEF Liquid!RevokeDelegation, Liquid!scoreVars, Liquid!ballotVars

LEMMA BallotTypes ==
  ASSUME NEW q \in Liquid!Proposal, NEW n \in Nat, NEW k \in Nat
  PROVE  /\ [q EXCEPT !.forVotes = @ + n] \in Liquid!Proposal
         /\ [q EXCEPT !.againstVotes = @ + n] \in Liquid!Proposal
         /\ [q EXCEPT !.executed = TRUE] \in Liquid!Proposal
         /\ [q EXCEPT !.startTime = n, !.endTime = k] \in Liquid!Proposal
<1>1. q.forVotes + n \in Nat /\ q.againstVotes + n \in Nat
  BY DEF Liquid!Proposal
<1>2. \A m \in Nat : /\ [q EXCEPT !.forVotes = m] \in Liquid!Proposal
                     /\ [q EXCEPT !.againstVotes = m] \in Liquid!Proposal
  BY DEF Liquid!Proposal
<1>3. [q EXCEPT !.executed = TRUE] \in Liquid!Proposal
  BY DEF Liquid!Proposal
<1>4. [q EXCEPT !.startTime = n, !.endTime = k] \in Liquid!Proposal
  BY DEF Liquid!Proposal
<1>5. QED
  BY <1>1, <1>2, <1>3, <1>4

LEMMA LiquidVoteStep ==
  ASSUME LiquidInv, NEW u \in Voter, NEW p \in ProposalId, NEW support \in BOOLEAN,
         Liquid!Vote(u, p, support)
  PROVE  LiquidInv'
<1> DEFINE b == Liquid!Recounted(book, u)
           n == b.votingPower[u]
           q == IF support THEN [ballots[p] EXCEPT !.forVotes = @ + n]
                           ELSE [ballots[p] EXCEPT !.againstVotes = @ + n]
<1>1. \A v \in Voter : Liquid!Reputation(v) \in Nat
  BY ScoreTypes DEF LiquidInv, Liquid!TypeOK
<1>2. GoodBook(b)
  BY <1>1, RecountedGood DEF LiquidInv, GoodBook
<1>3. n \in Nat
  BY <1>2 DEF GoodBook, Book
<1> HIDE DEF b
<1>4. /\ book' = b /\ u \notin hasVoted[p]
      /\ hasVoted' = [hasVoted EXCEPT ![p] = @ \cup {u}]
      /\ voteWeight' = [voteWeight EXCEPT ![p][u] = n]
      /\ UNCHANGED <<now, userScores, executions>>
  BY DEF Liquid!Vote, Liquid!scoreVars, b
<1>5. ballots' = [ballots EXCEPT ![p] = q]
  BY DEF Liquid!Vote, b
<1>6. /\ ballots \in [ProposalId -> Liquid!Proposal] /\ hasVoted \in [ProposalId -> SUBSET Voter]
      /\ voteWeight \in [ProposalId -> [Voter -> Nat]]
  BY DEF LiquidInv, Liquid!TypeOK
<1>7. q \in Liquid!Proposal
  <2>1. ballots[p] \in Liquid!Proposal
    BY <1>6
  <2> HIDE DEF n
  <2>2. /\ [ballots[p] EXCEPT !.forVotes = @ + n] \in Liquid!Proposal
        /\ [ballots[p] EXCEPT !.againstVotes = @ + n] \in Liquid!Proposal
    BY <1>3, <2>1, BallotTypes
  <2>3. QED
    BY <2>2
<1>8. /\ q.executed = ballots[p].executed
      /\ q.forVotes + q.againstVotes = ballots[p].forVotes + ballots[p].againstVotes + n
  <2>1. ballots[p] \in Liquid!Proposal
    BY <1>6
  <2> HIDE DEF n
  <2>2. QED
    BY <1>3, <2>1 DEF Liquid!Proposal
<1> HIDE DEF n, q
<1>9. /\ ballots'[p] = q /\ \A s \in ProposalId \ {p} : ballots'[s] = ballots[s]
      /\ hasVoted'[p] = hasVoted[p] \cup {u}
      /\ \A s \in ProposalId \ {p} : hasVoted'[s] = hasVoted[s] /\ voteWeight'[s] = voteWeight[s]
      /\ voteWeight'[p][u] = n
      /\ \A v \in Voter \ {u} : voteWeight'[p][v] = voteWeight[p][v]
      /\ voteWeight[p] \in [Voter -> Nat] /\ voteWeight'[p] \in [Voter -> Nat]
  BY <1>3, <1>4, <1>5, <1>6
<1>10. Liquid!TypeOK'
  <2>1. ballots' \in [ProposalId -> Liquid!Proposal]
    BY <1>5, <1>6, <1>7
  <2>2. hasVoted' \in [ProposalId -> SUBSET Voter] /\ voteWeight' \in [ProposalId -> [Voter -> Nat]]
    BY <1>3, <1>4, <1>6
  <2>3. QED
    BY <1>2, <1>4, <2>1, <2>2 DEF LiquidInv, Liquid!TypeOK, GoodBook, Book
<1>11. Recorded'
  <2>1. ASSUME NEW s \in ProposalId, NEW v \in Voter, v \notin hasVoted'[s]
        PROVE  voteWeight'[s][v] = 0
    BY <1>9, <2>1 DEF LiquidInv, Recorded
  <2>2. \A s \in ProposalId : ballots'[s].executed = ballots[s].executed
    BY <1>8, <1>9
  <2>3. QED
    BY <1>4, <2>1, <2>2 DEF LiquidInv, Recorded
<1>12. Liquid!TalliesAreWeights'
  <2>1. voteWeight[p][u] = 0
    BY <1>4 DEF LiquidInv, Recorded
  <2>2. Total(voteWeight'[p], Voter) = Total(voteWeight[p], Voter) - 0 + n
    BY <1>9, <2>1, VotersFinite, TotalUpdate
  <2>3. Total(voteWeight[p], Voter) \in Nat
    BY <1>9, VotersFinite, TotalNat
  <2>4. ballots[p].forVotes + ballots[p].againstVotes = Total(voteWeight[p], Voter)
    BY LiquidTotals DEF LiquidInv, Liquid!TalliesAreWeights
  <2>5. ballots'[p].forVotes + ballots'[p].againstVotes = Total(voteWeight'[p], Voter)
    BY <1>3, <1>8, <1>9, <2>2, <2>3, <2>4
  <2>6. ASSUME NEW s \in ProposalId
        PROVE  ballots'[s].forVotes + ballots'[s].againstVotes = Liquid!Total(voteWeight'[s], Voter)
    <3>1. CASE s = p
      BY <2>5, <3>1, LiquidTotals
    <3>2. CASE s # p
      BY <1>9, <3>2 DEF LiquidInv, Liquid!TalliesAreWeights
    <3>3. QED
      BY <3>1, <3>2
  <2>7. QED
    BY <2>6 DEF Liquid!TalliesAreWeights
<1>13. GoodBook(book)'
  BY <1>2, <1>4
<1>14. QED
  BY <1>10, <1>11, <1>12, <1>13 DEF LiquidInv

\* createProposal and executeProposal change one ballot and leave its votes.
LEMMA BallotStep ==
  ASSUME LiquidInv, NEW p \in ProposalId, NEW q \in Liquid!Proposal,
         ballots' = [ballots EXCEPT ![p] = q],
         q.forVotes = ballots[p].forVotes, q.againstVotes = ballots[p].againstVotes,
         executions' \in [ProposalId -> Nat],
         executions'[p] = IF q.executed THEN 1 ELSE 0,
         \A s \in ProposalId \ {p} : executions'[s] = executions[s],
         UNCHANGED <<now, userScores, hasVoted, voteWeight, book>>
  PROVE  LiquidInv'
<1>1. ballots \in [ProposalId -> Liquid!Proposal]
  BY DEF LiquidInv, Liquid!TypeOK
<1>2. /\ ballots' \in [ProposalId -> Liquid!Proposal] /\ ballots'[p] = q
      /\ \A s \in ProposalId \ {p} : ballots'[s] = ballots[s]
  BY <1>1
<1>3. Liquid!TypeOK'
  BY <1>2 DEF LiquidInv, Liquid!TypeOK
<1>4. Recorded'
  BY <1>2 DEF LiquidInv, Recorded
<1>5. Liquid!TalliesAreWeights'
  BY <1>2 DEF LiquidInv, Liquid!TalliesAreWeights
<1>6. GoodBook(book)'
  BY DEF LiquidInv
<1>7. QED
  BY <1>3, <1>4, <1>5, <1>6 DEF LiquidInv

LEMMA CreateStep ==
  ASSUME LiquidInv, NEW u \in Voter, NEW p \in ProposalId, NEW period \in Period,
         Liquid!CreateProposal(u, p, period)
  PROVE  LiquidInv'
<1> DEFINE q == [ballots[p] EXCEPT !.startTime = now, !.endTime = now + period]
<1>1. ballots[p] \in Liquid!Proposal /\ now \in Nat /\ executions \in [ProposalId -> Nat]
  BY DEF LiquidInv, Liquid!TypeOK
<1>2. now + period \in Nat
  BY <1>1, LiquidAssumption DEF Liquid!LiquidDemocracyAssumption
<1>3. /\ q \in Liquid!Proposal /\ q.forVotes = ballots[p].forVotes
      /\ q.againstVotes = ballots[p].againstVotes /\ q.executed = ballots[p].executed
  BY <1>1, <1>2 DEF Liquid!Proposal
<1>4. ballots' = [ballots EXCEPT ![p] = q]
  BY DEF Liquid!CreateProposal
<1>5. UNCHANGED <<now, userScores, hasVoted, voteWeight, executions, book>>
  BY DEF Liquid!CreateProposal, Liquid!scoreVars
<1> HIDE DEF q
<1>6. executions'[p] = IF q.executed THEN 1 ELSE 0
  BY <1>3, <1>5 DEF LiquidInv, Recorded
<1>7. QED
  BY <1>1, <1>3, <1>4, <1>5, <1>6, BallotStep

LEMMA LiquidExecuteStep ==
  ASSUME LiquidInv, NEW p \in ProposalId, Liquid!ExecuteProposal(p)
  PROVE  LiquidInv'
<1> DEFINE q == [ballots[p] EXCEPT !.executed = TRUE]
<1>1. ballots[p] \in Liquid!Proposal /\ executions \in [ProposalId -> Nat]
  BY DEF LiquidInv, Liquid!TypeOK
<1>2. /\ q \in Liquid!Proposal /\ q.forVotes = ballots[p].forVotes
      /\ q.againstVotes = ballots[p].againstVotes /\ q.executed
  BY <1>1 DEF Liquid!Proposal
<1>3. ballots' = [ballots EXCEPT ![p] = q]
  BY DEF Liquid!ExecuteProposal
<1>4. /\ UNCHANGED <<now, userScores, hasVoted, voteWeight, book>>
      /\ executions' = [executions EXCEPT ![p] = @ + 1]
  BY DEF Liquid!ExecuteProposal, Liquid!scoreVars
<1>5. executions[p] = 0
  BY DEF Liquid!ExecuteProposal, LiquidInv, Recorded
<1>6. /\ executions'[p] = 1 /\ executions' \in [ProposalId -> Nat]
      /\ \A s \in ProposalId \ {p} : executions'[s] = executions[s]
  BY <1>1, <1>4, <1>5
<1> HIDE DEF q
<1>7. executions'[p] = IF q.executed THEN 1 ELSE 0
  BY <1>2, <1>6
<1>8. QED
  BY <1>2, <1>3, <1>4, <1>6, <1>7, BallotStep

LEMMA ScoreStep ==
  ASSUME LiquidInv, NEW u \in Voter, NEW d \in Delta, Liquid!UpdateScore(u, d),
         UNCHANGED <<now, ballots, hasVoted, voteWeight, executions, book>>
  PROVE  LiquidInv'
<1> DEFINE s == userScores[u]
           days == Liquid!DaysPassed(s)
           t == [love |-> Liquid!Moved(Liquid!Moved(s.love, -days), d.love),
                 vice |-> Liquid!Moved(Liquid!Moved(s.vice, -days), d.vice),
                 lastUpdate |-> now, isActive |-> TRUE]
<1>1. s \in Liquid!UserScore /\ now \in Nat /\ userScores \in [Voter -> Liquid!UserScore]
  BY DEF LiquidInv, Liquid!TypeOK
<1>2. d.love \in Int /\ d.vice \in Int /\ MaxScore \in Nat /\ Day \in Nat \ {0}
  BY LiquidAssumption DEF Liquid!LiquidDemocracyAssumption, Liquid!LoveViceScoreAssumption
<1>3. s.love \in 0 .. MaxScore /\ s.vice \in 0 .. MaxScore /\ s.lastUpdate \in Nat
  BY <1>1 DEF Liquid!UserScore
<1>4. -days \in Int
  <2>1. (now - s.lastUpdate) \div Day \in Int
    BY <1>1, <1>2, <1>3
  <2>2. QED
    BY <2>1 DEF Liquid!DaysPassed
<1>5. \A y \in 0 .. MaxScore, k \in Int : Liquid!Moved(y, k) \in 0 .. MaxScore
  BY <1>2 DEF Liquid!Moved
<1> HIDE DEF s, days
<1>6. t \in Liquid!UserScore
  BY <1>1, <1>2, <1>3, <1>4, <1>5 DEF Liquid!UserScore
<1>7. userScores' = [userScores EXCEPT ![u] = t]
  BY DEF Liquid!UpdateScore, s, days
<1>8. userScores' \in [Voter -> Liquid!UserScore]
  <2> HIDE DEF t
  <2>1. QED
    BY <1>1, <1>6, <1>7
<1>9. Liquid!TypeOK'
  BY <1>8 DEF LiquidInv, Liquid!TypeOK
<1>10. QED
  BY <1>9 DEF LiquidInv, GoodBook, Recorded, Liquid!TalliesAreWeights

\* The clock moves by one, or it does not.
LEMMA ClockMoves == Next => now' \in {now, now + 1}
<1> SUFFICES ASSUME Next PROVE now' \in {now, now + 1}
  OBVIOUS
<1>1. ASSUME NEW u \in User, StakerStep(u) PROVE now' = now
  <2>1. ASSUME NEW a \in Amount, Stake(u, a) \/ Unstake(u, a) \/ \E v \in User : Transfer(u, v, a)
        PROVE  now' = now
    BY <2>1 DEF Stake, Unstake, Transfer
  <2>2. ASSUME NEW c \in Call, Propose(u, c) PROVE now' = now
    BY <2>2 DEF Propose
  <2>3. ASSUME NEW p \in PId, NEW support \in BOOLEAN, Vote(u, p, support) PROVE now' = now
    BY <2>3 DEF Vote
  <2>4. QED
    BY <1>1, <2>1, <2>2, <2>3 DEF StakerStep
<1>2. ASSUME NEW p \in PId, ExecuteProposal(p) \/ CancelProposal(p) PROVE now' = now
  BY <1>2 DEF ExecuteProposal, CancelProposal
<1>3. CASE Tick
  BY <1>3 DEF Tick
<1>4. QED
  BY <1>1, <1>2, <1>3 DEF Next

LEMMA LiquidStepInv == LiquidInv /\ [GovNext]_govVars => LiquidInv'
<1> SUFFICES ASSUME LiquidInv, [GovNext]_govVars PROVE LiquidInv'
  OBVIOUS
<1>1. CASE UNCHANGED liquidVars /\ now' \in Nat
  <2>1. Liquid!TypeOK'
    BY <1>1 DEF LiquidInv, Liquid!TypeOK, liquidVars
  <2>2. QED
    BY <1>1, <2>1 DEF LiquidInv, GoodBook, Recorded, Liquid!TalliesAreWeights, liquidVars
<1>2. now \in Nat
  BY DEF LiquidInv, Liquid!TypeOK
<1>3. CASE MarketplaceStep
  <2>1. now' \in Nat
    BY <1>2, <1>3, ClockMoves DEF MarketplaceStep
  <2>2. QED
    BY <1>1, <1>3, <2>1 DEF MarketplaceStep
<1>4. CASE LiquidStep
  <2>1. CASE \E u \in Voter : Liquid!VoterStep(u)
    BY <2>1, DelegateStep, RevokeStep, CreateStep, LiquidVoteStep DEF Liquid!VoterStep
  <2>2. ASSUME NEW u \in Voter, NEW d \in Delta, Liquid!UpdateScore(u, d),
               UNCHANGED <<now, Liquid!ballotVars, book, delegated>>
        PROVE  LiquidInv'
    BY <2>2, ScoreStep DEF Liquid!ballotVars
  <2>3. CASE \E p \in ProposalId : Liquid!ExecuteProposal(p)
    BY <2>3, LiquidExecuteStep
  <2>4. CASE Liquid!Tick
    <3>1. now' \in Nat /\ UNCHANGED liquidVars
      BY <1>2, <2>4 DEF Liquid!Tick, Liquid!scoreVars, Liquid!ballotVars, liquidVars
    <3>2. QED
      BY <1>1, <3>1
  <2>5. QED
    BY <1>4, <2>1, <2>2, <2>3, <2>4 DEF LiquidStep, Liquid!Next
<1>5. CASE UNCHANGED govVars
  BY <1>1, <1>2, <1>5 DEF govVars, vars
<1>6. QED
  BY <1>3, <1>4, <1>5 DEF GovNext

\* The lists of LiquidDemocracy hold the active delegations and the powers kept are
\* what they add up to, for any users, weights and scores.
THEOREM PowerDelegated == GovSpec => []PowerIsDelegated
<1>1. GovInit => LiquidInv
  BY LiquidInit DEF GovInit
<1>2. LiquidInv => PowerIsDelegated
  <2> SUFFICES ASSUME LiquidInv PROVE PowerIsDelegated
    OBVIOUS
  <2>1. ASSUME NEW d \in Voter
        PROVE  book.votingPower[d] = book.reputation[d]
                 + Liquid!Total(Liquid!Shares(book, d), Voter)
    BY LiquidTotals DEF LiquidInv, GoodBook, Powered
  <2>2. QED
    BY <2>1 DEF LiquidInv, GoodBook, PowerIsDelegated, Liquid!DelegatorsListed,
                Liquid!PowerAccounted
<1>3. QED
  BY <1>1, <1>2, LiquidStepInv, PTL DEF GovSpec

\* A ballot of LiquidDemocracy is the sum of the weights on record and is executed
\* once, however often its id is created.
THEOREM BallotsTallied == GovSpec => []BallotsAccounted
<1>1. GovInit => LiquidInv
  BY LiquidInit DEF GovInit
<1>2. LiquidInv => BallotsAccounted
  BY DEF LiquidInv, Recorded, BallotsAccounted, Liquid!ExecutedOnce
<1>3. QED
  BY <1>1, <1>2, LiquidStepInv, PTL DEF GovSpec

\* MarketplaceGovernance behaves beside the other contract as it does alone.
THEOREM MarketplaceInGovernance == GovSpec => Spec
<1>1. LiquidStep => Tick \/ UNCHANGED vars
  <2> SUFFICES ASSUME LiquidStep PROVE Tick \/ now' = now
    BY DEF LiquidStep, vars
  <2>1. ASSUME NEW u \in Voter, Liquid!VoterStep(u) PROVE now' = now
    <3>1. ASSUME NEW d \in Voter, NEW w \in Weight, Liquid!DelegateVote(u, d, w) PROVE now' = now
      BY <3>1 DEF Liquid!DelegateVote
    <3>2. CASE Liquid!RevokeDelegation(u)
      BY <3>2 DEF Liquid!RevokeDelegation
    <3>3. ASSUME NEW p \in ProposalId, NEW period \in Period, Liquid!CreateProposal(u, p, period)
          PROVE  now' = now
      BY <3>3 DEF Liquid!CreateProposal
    <3>4. ASSUME NEW p \in ProposalId, NEW support \in BOOLEAN, Liquid!Vote(u, p, support)
          PROVE  now' = now
      BY <3>4 DEF Liquid!Vote
    <3>5. QED
      BY <2>1, <3>1, <3>2, <3>3, <3>4 DEF Liquid!VoterStep
  <2>2. ASSUME NEW p \in ProposalId, Liquid!ExecuteProposal(p) PROVE now' = now
    BY <2>2 DEF Liquid!ExecuteProposal
  <2>3. CASE Liquid!Tick
    BY <2>3 DEF LiquidStep, Liquid!Tick, Tick
  <2>4. QED
    BY <2>1, <2>2, <2>3 DEF LiquidStep, Liquid!Next
<1>2. [GovNext]_govVars => [Next]_vars
  BY <1>1 DEF GovNext, govVars, MarketplaceStep, Next
<1>3. QED
  BY <1>2, PTL DEF GovSpec, GovInit, Spec
=============================================================================
