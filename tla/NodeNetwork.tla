----------------------------- MODULE NodeNetwork -----------------------------
(***************************************************************************)
(* src/p2p/node_network.py: a node puts an inference request to its peers, *)
(* one after the other, and takes the result that most of them give.       *)
(* Meanwhile it may connect to another peer, which Python's iteration over *)
(* a set does not allow.                                                   *)
(***************************************************************************)
EXTENDS Naturals, Sequences, FiniteSets, SequencesExt

CONSTANTS
  NetPeer,
  Result           \* what a peer can answer

ASSUME NetAssumption == IsFiniteSet(NetPeer)

VARIABLES
  netPeers,        \* self.peers
  broadcast,       \* a broadcast_inference_request; <<>> when there is none
  agreed           \* history: the last broadcast that returned, and what

netVars == <<netPeers, broadcast, agreed>>

NetTypeOK ==
  /\ netPeers \subseteq NetPeer
  /\ broadcast # <<>> =>
       /\ broadcast.size \in Nat /\ broadcast.done \subseteq NetPeer
       /\ broadcast.responses \in Seq(Result)
  /\ agreed # <<>> => agreed.result \in Result /\ agreed.current \in BOOLEAN

NetInit == netPeers = {} /\ broadcast = <<>> /\ agreed = <<>>

-----------------------------------------------------------------------------
ConnectToPeer(p) ==
  /\ netPeers' = netPeers \cup {p}
  /\ UNCHANGED <<broadcast, agreed>>

BroadcastInferenceRequest ==
  /\ broadcast = <<>>
  /\ broadcast' = [size |-> Cardinality(netPeers), done |-> {}, responses |-> <<>>]
  /\ UNCHANGED <<netPeers, agreed>>

\* Mutant of Iterating: the iteration goes over a copy of the set.
Iterating_Copy == broadcast # <<>>

\* The set must not have grown since: the iteration raises otherwise, at its end too.
Iterating == broadcast # <<>> /\ broadcast.size = Cardinality(netPeers)

\* The next peer, in any order, answers, or raises and is left out.
PeerResponds(p) ==
  /\ Iterating /\ p \in netPeers \ broadcast.done
  /\ \E answer \in {<<>>} \cup {<<r>> : r \in Result} :
       broadcast' = [broadcast EXCEPT !.done = @ \cup {p}, !.responses = @ \o answer]
  /\ UNCHANGED <<netPeers, agreed>>

Votes(responses, r) == Cardinality({i \in DOMAIN responses : responses[i] = r})

\* The first of the results that most responses give.
ConsensusResult(responses) ==
  SelectInSeq(responses, LAMBDA r : \A x \in ToSet(responses) : Votes(responses, x) <= Votes(responses, r))

BroadcastReturns ==
  /\ Iterating /\ Cardinality(broadcast.done) >= broadcast.size
  /\ broadcast.responses # <<>>
  /\ agreed' = [result |-> broadcast.responses[ConsensusResult(broadcast.responses)],
                responses |-> broadcast.responses,
                current |-> netPeers = broadcast.done]
  /\ broadcast' = <<>>
  /\ UNCHANGED netPeers

\* Another peer was connected, or nobody responded.
BroadcastRaises ==
  /\ broadcast # <<>>
  /\ \/ ~Iterating
     \/ Cardinality(broadcast.done) >= broadcast.size /\ broadcast.responses = <<>>
  /\ broadcast' = <<>>
  /\ UNCHANGED <<netPeers, agreed>>

NetNext ==
  \/ \E p \in NetPeer : ConnectToPeer(p) \/ PeerResponds(p)
  \/ BroadcastInferenceRequest \/ BroadcastReturns \/ BroadcastRaises

-----------------------------------------------------------------------------
\* A broadcast that returns has asked every peer that is connected by then, also when
\* peers were connected while it waited, and no other result has more votes than its.
ConsensusOfAll ==
  agreed # <<>> =>
    /\ agreed.current
    /\ \A r \in Result : Votes(agreed.responses, r) <= Votes(agreed.responses, agreed.result)
=============================================================================
