----------------------------- MODULE SovereignRPC -----------------------------
(***************************************************************************)
(* The contract contracts/SovereignRPC.sol: RPC nodes lock a stake of JOY, *)
(* send heartbeats and record data; the owner slashes and sets parameters. *)
(* Calls that revert change nothing and are not actions.                   *)
(***************************************************************************)
EXTENDS Integers, FiniteSets, Totals

CONSTANTS
  Node,         \* accounts that may run a node
  Cid,          \* contents recorded on the network
  Amount,       \* amounts of stake calls are made with
  MinStakes,    \* values the owner may set minStake to
  Wealth,       \* JOY each account starts with
  MaxTime       \* bound on the clock

ASSUME SovereignRPCAssumption ==
  /\ IsFiniteSet(Node)
  /\ Amount \subseteq Nat /\ MinStakes \subseteq Nat
  /\ Wealth \in Nat /\ MaxTime \in Nat

VARIABLES
  now,            \* block.timestamp
  minStake,
  status,         \* nodes[n].status; the operator field is set iff it is not Inactive
  stake,          \* nodes[n].stake
  lastHeartbeat,  \* nodes[n].lastHeartbeat
  storedAt,       \* dataProviders[cid].timestamp (the providers and the proof are
                  \* replaced with it), NoTime before the first record
  wallet,         \* JOY of each account
  held,           \* JOY of the contract
  treasury,       \* JOY of the owner
  fined,          \* history: JOY taken from each node by slashing
  lowest,         \* history: lowest minStake so far
  stakedAt        \* history: time of the last deposit of each node

nodeVars == <<status, stake, lastHeartbeat>>
joyVars  == <<wallet, held, treasury>>
history  == <<fined, lowest, stakedAt>>
vars == <<now, minStake, nodeVars, storedAt, joyVars, history>>

NoTime == -1

TypeOK ==
  /\ now \in Nat
  /\ minStake \in Nat
  /\ status \in [Node -> {"Inactive", "Active", "Slashed"}]
  /\ stake \in [Node -> Nat]
  /\ lastHeartbeat \in [Node -> Nat]
  /\ storedAt \in [Cid -> Nat \cup {NoTime}]
  /\ wallet \in [Node -> Nat]
  /\ held \in Nat /\ treasury \in Nat
  /\ fined \in [Node -> Nat]
  /\ lowest \in Nat
  /\ stakedAt \in [Node -> Nat]

Init ==
  /\ now = 0
  /\ minStake \in MinStakes
  /\ status = [n \in Node |-> "Inactive"]
  /\ stake = [n \in Node |-> 0]
  /\ lastHeartbeat = [n \in Node |-> 0]
  /\ storedAt = [c \in Cid |-> NoTime]
  /\ wallet = [n \in Node |-> Wealth]
  /\ held = 0 /\ treasury = 0
  /\ fined = [n \in Node |-> 0]
  /\ lowest = minStake
  /\ stakedAt = [n \in Node |-> 0]

-----------------------------------------------------------------------------
\* joyToken.transferFrom(n, address(this), amount)
Lock(n, amount) ==
  /\ wallet[n] >= amount
  /\ wallet' = [wallet EXCEPT ![n] = @ - amount]
  /\ held' = held + amount
  /\ UNCHANGED treasury

\* joyToken.transfer(n, amount)
Unlock(n, amount) ==
  /\ held >= amount
  /\ wallet' = [wallet EXCEPT ![n] = @ + amount]
  /\ held' = held - amount
  /\ UNCHANGED treasury

\* joyToken.transfer(owner(), amount)
ToOwner(amount) ==
  /\ held >= amount
  /\ held' = held - amount
  /\ treasury' = treasury + amount
  /\ UNCHANGED wallet

\* Mutant of RegisterNode: the status and not the operator is looked at, so that
\* a slashed account registers again.
RegisterNode_Again(n) ==
  /\ status[n] # "Active"
  /\ Lock(n, minStake)
  /\ status' = [status EXCEPT ![n] = "Active"]
  /\ stake' = [stake EXCEPT ![n] = minStake]
  /\ lastHeartbeat' = [lastHeartbeat EXCEPT ![n] = now]
  /\ stakedAt' = [stakedAt EXCEPT ![n] = now]
  /\ UNCHANGED <<now, minStake, storedAt, fined, lowest>>

\* The operator of a node is never cleared, so an account registers once.
RegisterNode(n) ==
  /\ status[n] = "Inactive"
  /\ Lock(n, minStake)
  /\ status' = [status EXCEPT ![n] = "Active"]
  /\ stake' = [stake EXCEPT ![n] = minStake]
  /\ lastHeartbeat' = [lastHeartbeat EXCEPT ![n] = now]
  /\ stakedAt' = [stakedAt EXCEPT ![n] = now]
  /\ UNCHANGED <<now, minStake, storedAt, fined, lowest>>

Heartbeat(n) ==
  /\ status[n] = "Active"
  /\ lastHeartbeat' = [lastHeartbeat EXCEPT ![n] = now]
  /\ UNCHANGED <<now, minStake, status, stake, storedAt, joyVars, history>>

RecordDataStorage(n, cid) ==
  /\ status[n] = "Active"
  /\ storedAt' = [storedAt EXCEPT ![cid] = now]
  /\ UNCHANGED <<now, minStake, nodeVars, joyVars, history>>

IncreaseStake(n, amount) ==
  /\ status[n] = "Active"
  /\ Lock(n, amount)
  /\ stake' = [stake EXCEPT ![n] = @ + amount]
  /\ stakedAt' = [stakedAt EXCEPT ![n] = now]
  /\ UNCHANGED <<now, minStake, status, lastHeartbeat, storedAt, fined, lowest>>

\* Mutant of WithdrawStake: the minimum is compared with what the node has before.
WithdrawStake_Before(n, amount) ==
  /\ status[n] = "Active"
  /\ stake[n] >= minStake /\ stake[n] >= amount
  /\ Unlock(n, amount)
  /\ stake' = [stake EXCEPT ![n] = @ - amount]
  /\ UNCHANGED <<now, minStake, status, lastHeartbeat, storedAt, history>>

WithdrawStake(n, amount) ==
  /\ status[n] = "Active"
  /\ stake[n] >= minStake + amount
  /\ Unlock(n, amount)
  /\ stake' = [stake EXCEPT ![n] = @ - amount]
  /\ UNCHANGED <<now, minStake, status, lastHeartbeat, storedAt, history>>

\* Mutant of SlashNode: the stake is not reduced.
SlashNode_KeepsStake(n, amount) ==
  /\ status[n] = "Active"
  /\ stake[n] >= amount
  /\ ToOwner(amount)
  /\ status' = [status EXCEPT ![n] = "Slashed"]
  /\ fined' = [fined EXCEPT ![n] = @ + amount]
  /\ UNCHANGED <<now, minStake, stake, lastHeartbeat, storedAt, lowest, stakedAt>>

SlashNode(n, amount) ==
  /\ status[n] = "Active"
  /\ stake[n] >= amount
  /\ ToOwner(amount)
  /\ stake' = [stake EXCEPT ![n] = @ - amount]
  /\ status' = [status EXCEPT ![n] = "Slashed"]
  /\ fined' = [fined EXCEPT ![n] = @ + amount]
  /\ UNCHANGED <<now, minStake, lastHeartbeat, storedAt, lowest, stakedAt>>

\* The other parameters are stored and read by no call of the contract.
UpdateParameters(m) ==
  /\ minStake' = m
  /\ lowest' = IF m < lowest THEN m ELSE lowest
  /\ UNCHANGED <<now, nodeVars, storedAt, joyVars, fined, stakedAt>>

Tick ==
  /\ now < MaxTime
  /\ now' = now + 1
  /\ UNCHANGED <<minStake, nodeVars, storedAt, joyVars, history>>

NodeStep(n) ==
  \/ RegisterNode(n)
  \/ Heartbeat(n)
  \/ \E c \in Cid : RecordDataStorage(n, c)
  \/ \E a \in Amount : IncreaseStake(n, a) \/ WithdrawStake(n, a) \/ SlashNode(n, a)

Next ==
  \/ \E n \in Node : NodeStep(n)
  \/ \E m \in MinStakes : UpdateParameters(m)
  \/ Tick

Spec == Init /\ [][Next]_vars

-----------------------------------------------------------------------------
(* Properties.                                                             *)

\* The contract holds exactly the stakes it owes, those of slashed nodes
\* included, whatever the order of deposits, withdrawals and slashings.
StakesBacked == held = Total(stake, Node)

\* No account gains or loses JOY: what is not in its wallet is its stake or was
\* taken by a slashing of that very account.
OwnMoney == \A n \in Node : wallet[n] + stake[n] + fined[n] = Wealth

\* The money of registerNode, increaseStake, withdrawStake and slashNode: no balance
\* goes below zero, the contract can pay what it owes and nobody pays for others.
Solvent == TypeOK /\ StakesBacked /\ OwnMoney

\* Raising minStake leaves old nodes below it, and lowering it lets them withdraw
\* down to it; an active node still never has less than the lowest minimum there
\* has been, and only a slashed node has.
StakeAboveLowestMin == \A n \in Node : status[n] = "Active" => stake[n] >= lowest

\* A slashing is final: what it leaves of the stake can no longer be withdrawn,
\* increased or slashed and the account never registers again.
SlashedIsFrozen ==
  [][\A n \in Node : status[n] = "Slashed" =>
        status'[n] = "Slashed" /\ stake'[n] = stake[n]
          /\ lastHeartbeat'[n] = lastHeartbeat[n]]_vars

\* withdrawStake is documented to have a timelock: stake does not leave in the
\* block in which the node last deposited.
WithdrawalsWait ==
  [][\A n \in Node : wallet'[n] > wallet[n] => now > stakedAt[n]]_vars
=============================================================================
