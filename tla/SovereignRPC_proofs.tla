-------------------------- MODULE SovereignRPC_proofs --------------------------
(***************************************************************************)
(* Proofs about SovereignRPC for any finite set of nodes and any amounts.  *)
(***************************************************************************)
EXTENDS SovereignRPC, Totals_proofs

(***************************************************************************)
(* The inductive invariant adds to the properties what relates the history *)
(* variable lowest to the current minimum, and that a node that never      *)
(* registered has no stake, which a registration would otherwise lose.     *)
(***************************************************************************)
LowestBelow == lowest <= minStake

NewcomersHaveNone == \A n \in Node : status[n] = "Inactive" => stake[n] = 0

IInv ==
  /\ TypeOK
  /\ LowestBelow
  /\ NewcomersHaveNone
  /\ StakesBacked
  /\ OwnMoney
  /\ StakeAboveLowestMin

-----------------------------------------------------------------------------
LEMMA InitIInv == Init => IInv
<1> SUFFICES ASSUME Init PROVE IInv
  OBVIOUS
<1> USE SovereignRPCAssumption DEF Init
<1>1. TypeOK
  BY DEF TypeOK, NoTime
<1>2. LowestBelow /\ NewcomersHaveNone /\ StakeAboveLowestMin
  BY DEF LowestBelow, NewcomersHaveNone, StakeAboveLowestMin
<1>3. OwnMoney
  BY DEF OwnMoney
<1>4. StakesBacked
  BY TotalZero DEF StakesBacked
<1>5. QED
  BY <1>1, <1>2, <1>3, <1>4 DEF IInv

LEMMA LocalStep ==
  IInv /\ [Next]_vars =>
    TypeOK' /\ LowestBelow' /\ NewcomersHaveNone' /\ OwnMoney' /\ StakeAboveLowestMin'
<1> SUFFICES ASSUME IInv, [Next]_vars
             PROVE  TypeOK' /\ LowestBelow' /\ NewcomersHaveNone' /\ OwnMoney'
                      /\ StakeAboveLowestMin'
  OBVIOUS
<1> USE SovereignRPCAssumption DEF IInv, TypeOK, LowestBelow, NewcomersHaveNone, OwnMoney,
        StakeAboveLowestMin, nodeVars, joyVars, history
<1>1. ASSUME NEW n \in Node, RegisterNode(n)
      PROVE  TypeOK' /\ LowestBelow' /\ NewcomersHaveNone' /\ OwnMoney' /\ StakeAboveLowestMin'
  BY <1>1 DEF RegisterNode, Lock
<1>2. ASSUME NEW n \in Node, Heartbeat(n)
      PROVE  TypeOK' /\ LowestBelow' /\ NewcomersHaveNone' /\ OwnMoney' /\ StakeAboveLowestMin'
  BY <1>2 DEF Heartbeat
<1>3. ASSUME NEW n \in Node, NEW c \in Cid, RecordDataStorage(n, c)
      PROVE  TypeOK' /\ LowestBelow' /\ NewcomersHaveNone' /\ OwnMoney' /\ StakeAboveLowestMin'
  BY <1>3 DEF RecordDataStorage
<1>4. ASSUME NEW n \in Node, NEW a \in Amount, IncreaseStake(n, a)
      PROVE  TypeOK' /\ LowestBelow' /\ NewcomersHaveNone' /\ OwnMoney' /\ StakeAboveLowestMin'
  BY <1>4 DEF IncreaseStake, Lock
<1>5. ASSUME NEW n \in Node, NEW a \in Amount, WithdrawStake(n, a)
      PROVE  TypeOK' /\ LowestBelow' /\ NewcomersHaveNone' /\ OwnMoney' /\ StakeAboveLowestMin'
  BY <1>5 DEF WithdrawStake, Unlock
<1>6. ASSUME NEW n \in Node, NEW a \in Amount, SlashNode(n, a)
      PROVE  TypeOK' /\ LowestBelow' /\ NewcomersHaveNone' /\ OwnMoney' /\ StakeAboveLowestMin'
  BY <1>6 DEF SlashNode, ToOwner
<1>7. ASSUME NEW m \in MinStakes, UpdateParameters(m)
      PROVE  TypeOK' /\ LowestBelow' /\ NewcomersHaveNone' /\ OwnMoney' /\ StakeAboveLowestMin'
  BY <1>7 DEF UpdateParameters
<1>8. CASE Tick
  BY <1>8 DEF Tick
<1>9. CASE UNCHANGED vars
  BY <1>9 DEF vars
<1>10. QED
  BY <1>1, <1>2, <1>3, <1>4, <1>5, <1>6, <1>7, <1>8, <1>9 DEF Next, NodeStep

\* Where a step changes one stake, it changes the JOY held by as much.
LEMMA BackedStep == IInv /\ [Next]_vars => StakesBacked'
<1> SUFFICES ASSUME IInv, [Next]_vars PROVE StakesBacked'
  OBVIOUS
<1> DEFINE Moves(n, v) ==
             stake' = [stake EXCEPT ![n] = v] /\ held' = held - stake[n] + v
<1>1. ASSUME NEW n \in Node, NEW v \in Nat, Moves(n, v) PROVE StakesBacked'
  <2>1. IsFiniteSet(Node) /\ stake \in [Node -> Nat] /\ stake' \in [Node -> Nat]
    BY <1>1, SovereignRPCAssumption DEF IInv, TypeOK
  <2>2. \A y \in Node \ {n} : stake'[y] = stake[y]
    BY <1>1, <2>1
  <2>3. Total(stake', Node) = Total(stake, Node) - stake[n] + stake'[n]
    BY <2>1, <2>2, TotalUpdate
  <2>4. QED
    BY <1>1, <2>1, <2>3 DEF StakesBacked, IInv
<1>2. ASSUME UNCHANGED <<stake, held>> PROVE StakesBacked'
  BY <1>2 DEF StakesBacked, IInv
<1> USE DEF IInv, TypeOK
<1>3. ASSUME NEW n \in Node, RegisterNode(n) PROVE StakesBacked'
  <2>1. stake[n] = 0 /\ minStake \in Nat
    BY <1>3 DEF RegisterNode, NewcomersHaveNone
  <2>2. Moves(n, minStake)
    BY <1>3, <2>1 DEF RegisterNode, Lock
  <2>3. QED
    BY <1>1, <2>1, <2>2
<1>4. ASSUME NEW n \in Node, NEW a \in Amount, IncreaseStake(n, a) PROVE StakesBacked'
  <2>1. stake[n] + a \in Nat /\ Moves(n, stake[n] + a)
    BY <1>4, SovereignRPCAssumption DEF IncreaseStake, Lock
  <2>2. QED
    BY <1>1, <2>1
<1>5. ASSUME NEW n \in Node, NEW a \in Amount, WithdrawStake(n, a) PROVE StakesBacked'
  <2>1. stake[n] - a \in Nat /\ Moves(n, stake[n] - a)
    BY <1>5, SovereignRPCAssumption DEF WithdrawStake, Unlock
  <2>2. QED
    BY <1>1, <2>1
<1>6. ASSUME NEW n \in Node, NEW a \in Amount, SlashNode(n, a) PROVE StakesBacked'
  <2>1. stake[n] - a \in Nat /\ Moves(n, stake[n] - a)
    BY <1>6, SovereignRPCAssumption DEF SlashNode, ToOwner
  <2>2. QED
    BY <1>1, <2>1
<1>7. ASSUME \/ \E n \in Node : Heartbeat(n)
             \/ \E n \in Node, c \in Cid : RecordDataStorage(n, c)
             \/ \E m \in MinStakes : UpdateParameters(m)
             \/ Tick
             \/ UNCHANGED vars
      PROVE  StakesBacked'
  BY <1>2, <1>7 DEF Heartbeat, RecordDataStorage, UpdateParameters, Tick, vars, nodeVars,
     joyVars
<1>8. QED
  BY <1>3, <1>4, <1>5, <1>6, <1>7 DEF Next, NodeStep

LEMMA StepIInv == IInv /\ [Next]_vars => IInv'
BY LocalStep, BackedStep DEF IInv

LEMMA Invariance == Spec => []IInv
<1>1. QED
  BY InitIInv, StepIInv, PTL DEF Spec

-----------------------------------------------------------------------------
\* Every variable keeps its type: no stake, wallet or holding goes negative.
THEOREM TypeCorrect == Spec => []TypeOK
<1>1. IInv => TypeOK
  BY DEF IInv
<1>2. QED
  BY <1>1, Invariance, PTL

\* registerNode, increaseStake, withdrawStake and slashNode keep the contract solvent:
\* it holds exactly the stakes it owes, and wallet, stake and fines of every account
\* add up to what it started with.
THEOREM Solvency == Spec => []Solvent
<1>1. IInv => Solvent
  BY DEF IInv, Solvent
<1>2. QED
  BY <1>1, Invariance, PTL

\* Whatever the owner does to minStake, active nodes stay above its lowest value.
THEOREM AboveLowest == Spec => []StakeAboveLowestMin
<1>1. IInv => StakeAboveLowestMin
  BY DEF IInv
<1>2. QED
  BY <1>1, Invariance, PTL

\* No call touches a slashed node again.
THEOREM SlashingFinal == Spec => SlashedIsFrozen
<1>1. TypeOK /\ [Next]_vars =>
        [\A n \in Node : status[n] = "Slashed" =>
           status'[n] = "Slashed" /\ stake'[n] = stake[n]
             /\ lastHeartbeat'[n] = lastHeartbeat[n]]_vars
  BY DEF TypeOK, Next, NodeStep, RegisterNode, Heartbeat, RecordDataStorage, IncreaseStake,
     WithdrawStake, SlashNode, UpdateParameters, Tick, nodeVars, vars
<1>2. QED
  BY <1>1, TypeCorrect, PTL DEF Spec, SlashedIsFrozen
=============================================================================
