----------------------- MODULE DecentralizedGovernance -----------------------
(***************************************************************************)
(* src/decentralized_governance.py: every node keeps its own proposals and *)
(* votes, and decides on its own, once the deadline is over, from the      *)
(* votes that have reached it.  There is no agreement between the nodes.   *)
(*                                                                         *)
(* The bus delivers a broadcast to any node, the sender included, late, in *)
(* any order, again, or not at all: `announced` and `cast` are what was    *)
(* broadcast so far.  The loop and the handlers of a node have no await    *)
(* that suspends, so each is one step; creating a proposal is two, with    *)
(* the upload in between.                                                  *)
(***************************************************************************)
EXTENDS Integers, FiniteSets, SequencesExt

CONSTANTS
  Node, Proposal,
  Terms,          \* quorum, threshold in percent and voting period of a proposal
  MaxTime         \* bound on the clock

ASSUME GovernanceAssumption ==
  /\ IsFiniteSet(Node)
  /\ Terms \subseteq [quorum : Nat, threshold : Nat, period : Nat]
  /\ MaxTime \in Nat

VARIABLES
  now,
  terms,       \* what each proposal says, signed and never changed
  uploading,   \* proposals whose create_proposal waits for the upload
  announced,   \* governance_proposal messages
  cast,        \* governance_vote messages
  proposals,   \* per node: self.proposals, in the order of the dictionary
  votes,       \* per node: self.votes
  executed,    \* per node: self.executed_proposals
  ran          \* history: calls of _execute_proposal

govVars == <<now, terms, uploading, announced, cast, proposals, votes, executed, ran>>

NotMade == [proposer |-> "nobody"]
Made(p) == terms[p] # NotMade
Knows(n, p) == p \in ToSet(proposals[n])
Deadline(p) == terms[p].created + terms[p].period

GovTypeOK ==
  /\ now \in 0 .. MaxTime
  /\ \A p \in Proposal : Made(p) =>
       /\ terms[p].proposer \in Node /\ terms[p].created \in 0 .. now
       /\ [quorum |-> terms[p].quorum, threshold |-> terms[p].threshold,
           period |-> terms[p].period] \in Terms
  /\ uploading \subseteq Proposal /\ announced \subseteq Proposal
  /\ cast \subseteq [proposal : Proposal, voter : Node, vote : {"yes", "no"}]
  /\ \A n \in Node : IsInjective(proposals[n]) /\ ToSet(proposals[n]) \subseteq Proposal
  /\ votes \in [Node -> [Proposal -> [Node -> {"none", "yes", "no"}]]]
  /\ executed \in [Node -> SUBSET Proposal]
  /\ ran \in [Node -> [Proposal -> Nat]]

GovInit ==
  /\ now = 0
  /\ terms = [p \in Proposal |-> NotMade]
  /\ uploading = {} /\ announced = {} /\ cast = {}
  /\ proposals = [n \in Node |-> <<>>]
  /\ votes = [n \in Node |-> [p \in Proposal |-> [v \in Node |-> "none"]]]
  /\ executed = [n \in Node |-> {}]
  /\ ran = [n \in Node |-> [p \in Proposal |-> 0]]

-----------------------------------------------------------------------------
\* A key that is there keeps its place in a dictionary.
Stored(n, p) == IF Knows(n, p) THEN proposals[n] ELSE Append(proposals[n], p)

CreateProposal(n, p, t) ==
  /\ ~Made(p)
  /\ terms' = [terms EXCEPT ![p] =
       [proposer |-> n, created |-> now, quorum |-> t.quorum,
        threshold |-> t.threshold, period |-> t.period]]
  /\ proposals' = [proposals EXCEPT ![n] = Stored(n, p)]
  /\ uploading' = uploading \cup {p}
  /\ UNCHANGED <<now, announced, cast, votes, executed, ran>>

\* The upload returns and the proposal is broadcast, or one of the two raises
\* and it stays with its proposer.
Announce(p) ==
  /\ p \in uploading
  /\ uploading' = uploading \ {p}
  /\ announced' = announced \cup {p}
  /\ UNCHANGED <<now, terms, cast, proposals, votes, executed, ran>>

AnnounceFails(p) ==
  /\ p \in uploading
  /\ uploading' = uploading \ {p}
  /\ UNCHANGED <<now, terms, announced, cast, proposals, votes, executed, ran>>

HandleProposal(n, p) ==
  /\ p \in announced
  /\ proposals' = [proposals EXCEPT ![n] = Stored(n, p)]
  /\ UNCHANGED <<now, terms, uploading, announced, cast, votes, executed, ran>>

\* A node may vote again; the later vote takes the place of the earlier one
\* here, elsewhere the one that arrives last does.
VoteOnProposal(n, p, vote) ==
  /\ Knows(n, p)
  /\ now <= Deadline(p)
  /\ votes' = [votes EXCEPT ![n][p][n] = vote]
  /\ cast' = cast \cup {[proposal |-> p, voter |-> n, vote |-> vote]}
  /\ UNCHANGED <<now, terms, uploading, announced, proposals, executed, ran>>

\* Mutant of HandleVote: the dictionary of the proposal starts anew.
HandleVote_Anew(n, c) ==
  /\ c \in cast
  /\ votes' = [votes EXCEPT ![n][c.proposal] =
                 [v \in Node |-> IF v = c.voter THEN c.vote ELSE "none"]]
  /\ UNCHANGED <<now, terms, uploading, announced, cast, proposals, executed, ran>>

\* Neither the deadline nor the time stamp of the vote is looked at.
HandleVote(n, c) ==
  /\ c \in cast
  /\ votes' = [votes EXCEPT ![n][c.proposal][c.voter] = c.vote]
  /\ UNCHANGED <<now, terms, uploading, announced, cast, proposals, executed, ran>>

-----------------------------------------------------------------------------
Count(n, p, vote) == Cardinality({v \in Node : votes[n][p][v] = vote})
TotalVotes(n, p) == Count(n, p, "yes") + Count(n, p, "no")

Passes(n, p) == 100 * Count(n, p, "yes") >= terms[p].threshold * TotalVotes(n, p)

\* The loop looks at p: it is open, over and has its quorum of votes.
Ready(n, p) ==
  /\ p \notin executed[n]
  /\ now >= Deadline(p)
  /\ TotalVotes(n, p) >= terms[p].quorum

\* A quorum of zero votes is reached by none, and then the share of the yes
\* votes is a division by zero, which ends the pass.
Raises(n, p) == Ready(n, p) /\ TotalVotes(n, p) = 0

\* Mutant of Reached: the pass ends at the first proposal that is not ready.
Reached_StopsEarly(n, p) ==
  \E i \in DOMAIN proposals[n] :
    /\ proposals[n][i] = p
    /\ \A j \in 1 .. i : Ready(n, proposals[n][j]) /\ ~Raises(n, proposals[n][j])

\* The pass gets as far as p, which is behind no proposal that raises.
Reached(n, p) ==
  \E i \in DOMAIN proposals[n] :
    proposals[n][i] = p /\ \A j \in 1 .. i : ~Raises(n, proposals[n][j])

\* One pass of the loop.  Without a quorum a proposal stays open, for the votes
\* that are still to come; the others are decided, passed or not.
ProcessReadyProposals(n) ==
  LET decided == {p \in Proposal : Reached(n, p) /\ Ready(n, p)}
  IN  /\ decided # {}
      /\ executed' = [executed EXCEPT ![n] = @ \cup decided]
      /\ ran' = [ran EXCEPT ![n] = [p \in Proposal |->
                   IF p \in decided /\ Passes(n, p) THEN @[p] + 1 ELSE @[p]]]
      /\ UNCHANGED <<now, terms, uploading, announced, cast, proposals, votes>>

\* get_proposal_result: it counts the votes that are there now.
Status(n, p) ==
  CASE now <= Deadline(p) -> "active"
    [] now > Deadline(p) /\ TotalVotes(n, p) < terms[p].quorum -> "failed_quorum"
    [] OTHER -> IF Passes(n, p) THEN "passed" ELSE "rejected"

GovTick ==
  /\ now < MaxTime
  /\ now' = now + 1
  /\ UNCHANGED <<terms, uploading, announced, cast, proposals, votes, executed, ran>>

\* What a node does by itself, by its users or for a message.
GovStep(n, P) ==
  \/ \E p \in P :
       \/ \E t \in Terms : CreateProposal(n, p, t)
       \/ HandleProposal(n, p)
       \/ \E vote \in {"yes", "no"} : VoteOnProposal(n, p, vote)
  \/ \E c \in cast : HandleVote(n, c)
  \/ ProcessReadyProposals(n)

-----------------------------------------------------------------------------
(* Properties.                                                             *)

\* A node decides only when as many nodes as the quorum asks for have really
\* voted, wherever their votes travelled, and never while voting was open.
DecidedByQuorum ==
  \A n \in Node, p \in Proposal : p \in executed[n] =>
    /\ now >= Deadline(p)
    /\ Cardinality({c.voter : c \in {d \in cast : d.proposal = p}}) >= terms[p].quorum

\* get_proposal_result never says of a decided proposal that it failed its
\* quorum, whatever votes arrive, arrive again or are changed afterwards.
DecidedKeepsQuorum ==
  \A n \in Node, p \in Proposal : p \in executed[n] => Status(n, p) # "failed_quorum"

\* The loop decides every proposal that has its quorum and its time behind it,
\* unless it is one with a quorum of zero and no vote, or such a one precedes it in
\* the dictionary.
ReadyIsDecided ==
  \A n \in Node, p \in Proposal :
    (Knows(n, p) /\ Ready(n, p)) ~>
      \/ p \in executed[n]
      \/ \E i \in DOMAIN proposals[n] :
           proposals[n][i] = p /\ \E j \in 1 .. i : Raises(n, proposals[n][j])
=============================================================================
