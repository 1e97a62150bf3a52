------------------------------ MODULE EventFeed ------------------------------
(***************************************************************************)
(* What the relay of src/bridge_service.py promises about the deposits of  *)
(* the bridge contract, with nothing of how it does it.  Blocks arrive,    *)
(* each with some deposits; a durable cursor moves forward over them; a    *)
(* deposit may be paid only while its block lies beyond the cursor.  It    *)
(* may be paid several times before the cursor passes it (the relay        *)
(* crashed and started over) and it may be passed unpaid (a call failed),  *)
(* but once passed it is settled for good.                                 *)
(***************************************************************************)
EXTENDS Naturals

CONSTANT DepositEvent   \* the deposits that will ever be made

VARIABLES
  head,      \* number of the newest block
  blockOf,   \* block of each deposit, 0 while it is not made
  cursor,    \* every block up to this one is settled
  paid       \* how many times each deposit was paid

vars == <<head, blockOf, cursor, paid>>

Init ==
  /\ head = 0
  /\ blockOf = [d \in DepositEvent |-> 0]
  /\ cursor = 0
  /\ paid = [d \in DepositEvent |-> 0]

Mine ==
  /\ head' = head + 1
  /\ \E S \in SUBSET {d \in DepositEvent : blockOf[d] = 0} :
       blockOf' = [d \in DepositEvent |-> IF d \in S THEN head + 1 ELSE blockOf[d]]
  /\ UNCHANGED <<cursor, paid>>

Pay ==
  /\ \E d \in DepositEvent :
       /\ cursor < blockOf[d]
       /\ blockOf[d] <= head
       /\ paid' = [paid EXCEPT ![d] = @ + 1]
  /\ UNCHANGED <<head, blockOf, cursor>>

Settle ==
  /\ \E b \in cursor .. head : cursor' = b
  /\ UNCHANGED <<head, blockOf, paid>>

Next == Mine \/ Pay \/ Settle

Spec == Init /\ [][Next]_vars
=============================================================================
