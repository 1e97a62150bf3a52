---------------------------- MODULE MCBridgeSystem ----------------------------
(* Instances of BridgeSystem for TLC. *)
EXTENDS BridgeSystem

CONSTANTS u1, e1, e2

MCUser    == {u1}
MCDeposit == {e1, e2}
MCAmount  == 0 .. 2
\* A usual setting, one with a lower daily limit, and one that is refused.
MCLimits == {[min |-> 1, max |-> 2, daily |-> 3], [min |-> 0, max |-> 2, daily |-> 2],
             [min |-> 2, max |-> 1, daily |-> 3]}
=============================================================================
