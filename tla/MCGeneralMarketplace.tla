------------------------- MODULE MCGeneralMarketplace -------------------------
(* Instances of GeneralMarketplace for TLC. *)
EXTENDS GeneralMarketplace, TLC

CONSTANTS u1, u2, id1

MCUser     == {u1, u2}
MCId       == {id1}
\* The smallest price with a platform share of its own.
MCPrice    == {20}
MCQuantity == {1}
MCStock    == 0 .. 1
MCPeriod   == 0 .. 1
MCRating   == 1 .. 2
MCFee      == {1}
Symmetry   == Permutations(MCUser)
=============================================================================
