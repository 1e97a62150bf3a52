------------------------ MODULE MCGovernanceContracts ------------------------
(* Instances of GovernanceContracts for TLC. *)
EXTENDS GovernanceContracts, TLC

CONSTANTS s1, s2, v1, v2, v3, p1

MCUser       == {s1, s2}
MCAmount     == {1}
\* Two policies and one the contract refuses.
MCCall       == {[fee |-> 500], [fee |-> 1001], [min |-> 200, max |-> 300]}
MCVoter      == {v1, v2, v3}
\* Moved once a user has a reputation, moved twice within a day it has none.
MCDelta      == {[love |-> 2, vice |-> 1]}
MCProposalId == {p1}
MCWeight     == {1}
MCPeriod     == {0}
Symmetry     == Permutations(MCUser) \cup Permutations(MCVoter)
=============================================================================
