------------------------------ MODULE ProofOfUse ------------------------------
(***************************************************************************)
(* src/consensus/proof_of_use.py: every node registers validators, records *)
(* the transactions it has validated and, from its own records alone,      *)
(* selects who produces the next block.  Nothing fills validation_queue,   *)
(* whose worker calls a method that does not exist.                        *)
(***************************************************************************)
EXTENDS Naturals, FiniteSets

CONSTANTS
  UseNode,       \* nodes, which are the validators
  Stakes,        \* stakes and reputations validators register with
  Tx,            \* transactions there may be
  MaxActivity    \* bound on the validations a node records

\* Marks of a list without a validator and of a node that announced none.
NotListed == <<>>
NoProducer == "none"

ASSUME UseAssumption ==
  /\ NotListed \notin Stakes /\ NoProducer \notin UseNode
  /\ IsFiniteSet(Tx) /\ MaxActivity \in Nat

VARIABLES
  registered,            \* whitelist of each node, with stake and reputation
  submitted,             \* transactions on the bus
  transaction_history,   \* how often each node has validated each transaction
  announcement           \* per node: the producer it announced last, if any

useVars == <<registered, submitted, transaction_history, announcement>>

MIN_STAKE_USE == 1000
MIN_REPUTATION_USE == 100

Activity(n) ==
  Cardinality({p \in (1 .. MaxActivity) \X Tx : transaction_history[n][p[2]] >= p[1]})

UseTypeOK ==
  /\ registered \in [UseNode -> [UseNode -> Stakes \cup {NotListed}]]
  /\ submitted \subseteq Tx
  /\ transaction_history \in [UseNode -> [Tx -> 0 .. MaxActivity]]
  /\ announcement \in [UseNode -> UseNode \cup {NoProducer}]

UseInit ==
  /\ registered = [n \in UseNode |-> [v \in UseNode |-> NotListed]]
  /\ submitted = {}
  /\ transaction_history = [n \in UseNode |-> [t \in Tx |-> 0]]
  /\ announcement = [n \in UseNode |-> NoProducer]

-----------------------------------------------------------------------------
\* Every approval is granted; a second registration replaces the first.
RegisterValidator(n, v, s) ==
  /\ registered' = [registered EXCEPT ![n][v] = s]
  /\ UNCHANGED <<submitted, transaction_history, announcement>>

Whitelisted(n, v) == registered[n][v] # NotListed

IsEligible(n, v) ==
  /\ Whitelisted(n, v)
  /\ registered[n][v].stake >= MIN_STAKE_USE
  /\ registered[n][v].reputation >= MIN_REPUTATION_USE

\* Ten times the weights 0.3, 0.4 and 0.3; a node knows no activity but its own.
Score(n, v) ==
  3 * registered[n][v].stake + 4 * registered[n][v].reputation
    + 3 * (IF v = n THEN Activity(n) ELSE 0)

\* The best of the eligible; of equal ones, whichever the set yields first.
SelectNextProducer(n) ==
  /\ \E v \in UseNode :
       /\ IsEligible(n, v)
       /\ \A w \in UseNode : IsEligible(n, w) => Score(n, w) <= Score(n, v)
       /\ announcement' = [announcement EXCEPT ![n] = v]
  /\ UNCHANGED <<registered, submitted, transaction_history>>

SubmitTransaction(t) ==
  /\ t \notin submitted
  /\ submitted' = submitted \cup {t}
  /\ UNCHANGED <<registered, transaction_history, announcement>>

\* A transaction that comes twice is recorded twice, whether or not the proof
\* can be broadcast.
ValidateTransaction(n, t) ==
  /\ t \in submitted
  /\ Whitelisted(n, n)
  /\ Activity(n) < MaxActivity
  /\ transaction_history' = [transaction_history EXCEPT ![n][t] = @ + 1]
  /\ UNCHANGED <<registered, submitted, announcement>>

UseNext ==
  \/ \E n \in UseNode :
       \/ \E v \in UseNode, s \in Stakes : RegisterValidator(n, v, s)
       \/ SelectNextProducer(n)
       \/ \E t \in Tx : ValidateTransaction(n, t)
  \/ \E t \in Tx : SubmitTransaction(t)

-----------------------------------------------------------------------------
(* Properties.                                                             *)

\* A node that announces a producer has that validator on its list, and activity
\* is counted only for nodes that list themselves: no step leaves a producer or a
\* record behind that its node would not admit.
ProducersAreListed ==
  \A n \in UseNode :
    /\ announcement[n] # NoProducer => Whitelisted(n, announcement[n])
    /\ Activity(n) > 0 => Whitelisted(n, n)
=============================================================================
