----------------------------- MODULE BridgeSystem -----------------------------
(***************************************************************************)
(* The JSC bridge as a whole: the contract (JSCBridge) and the relay that  *)
(* watches its events (BridgeService).  They share the chain: a successful *)
(* call of the contract is in a block of its own, and a deposit leaves the *)
(* Deposit event the relay will find there.                                *)
(*                                                                         *)
(* Each part also runs alone, with everything the other may do to it: the  *)
(* relay on a chain whose blocks hold any deposits, the contract with no   *)
(* relay behind it.  The bounds of the joint behaviours are lower.         *)
(***************************************************************************)
EXTENDS BridgeService, JSCBridge

CONSTANTS JointTime, JointCrashes   \* bounds when both parts run

ASSUME EventsAssumption == IsFiniteSet(DepositEvent)

VARIABLES
  scope,      \* which parts run: "relay", "contract" or "both"
  amountOf,   \* amount of each Deposit event
  burned      \* history: JOY burned by withdrawals

sysVars == <<scope, bridgeVars, vars, amountOf, burned>>

SysInit ==
  /\ scope \in {"relay", "contract", "both"}
  /\ BridgeInit
  /\ Init
  /\ amountOf = [e \in DepositEvent |-> 0]
  /\ burned = 0

-----------------------------------------------------------------------------
\* One part alone.
RelayAlone == scope = "relay" /\ Next /\ UNCHANGED <<bridgeVars, amountOf, burned>>

ContractAlone ==
  scope = "contract" /\ BridgeNext /\ UNCHANGED <<vars, amountOf, burned>>

\* Both.
DepositTx(e, user, amount) ==
  /\ blockOf[e] = 0
  /\ Deposit(user, amount)
  /\ MineBlock({e})
  /\ amountOf' = [amountOf EXCEPT ![e] = amount]
  /\ UNCHANGED burned

\* Mutant of WithdrawTx: the call emits a Deposit event.
WithdrawTx_WrongEvent(user, amount) ==
  /\ Withdraw(user, amount)
  /\ \E e \in DepositEvent :
       /\ MineBlock({e})
       /\ amountOf' = [amountOf EXCEPT ![e] = amount]
  /\ burned' = burned + amount

\* The Withdrawal event is in the block, but the relay only asks for Deposit.
WithdrawTx(user, amount) ==
  /\ Withdraw(user, amount)
  /\ MineBlock({})
  /\ burned' = burned + amount
  /\ UNCHANGED amountOf

AdminTx == AdminStep /\ MineBlock({}) /\ UNCHANGED <<amountOf, burned>>

JointTick ==
  /\ now < JointTime
  /\ Tick
  /\ UNCHANGED <<vars, amountOf, burned>>

RelayStep ==
  /\ ServiceStep \/ (crashes < JointCrashes /\ Crash)
  /\ UNCHANGED <<bridgeVars, amountOf, burned>>

Together ==
  /\ scope = "both"
  /\ \/ \E e \in DepositEvent, u \in User, a \in Amount : DepositTx(e, u, a)
     \/ \E u \in User, a \in Amount : WithdrawTx(u, a)
     \/ AdminTx
     \/ JointTick
     \/ RelayStep

SysNext == (RelayAlone \/ ContractAlone \/ Together) /\ UNCHANGED scope

\* The loop of the relay never ends and whoever operates it starts it again.
SysSpec ==
  /\ SysInit /\ [][SysNext]_sysVars
  /\ WF_sysVars(scope # "contract" /\ ServiceStep
                /\ UNCHANGED <<scope, bridgeVars, amountOf, burned>>)

-----------------------------------------------------------------------------
(* Properties.                                                             *)

\* The volume counter of the contract is what moved since its last reset, and no 24
\* hours see more than twice the highest limit: deposits, withdrawals, resets and
\* changes of the limits in any order.
DailyLimitKept ==
  BridgeTypeOK /\ VolumeAccounted /\ AnyDayWithinTwiceLimit

\* JSC the wallet has sent out.
JSCSent == Total([e \in DepositEvent |-> paid[e] * amountOf[e]], DepositEvent)

\* All JSC that leaves the wallet was matched by JOY minted at the contract, up
\* to one more payment of everything per crash of the relay.
PayoutsMatchMints == JSCSent <= (1 + crashes) * (totalSupply + burned)

\* JSCBridge.sol calls withdraw the operation that releases JSC, by burning JOY:
\* the wallet has never sent more JSC than withdrawals burned.
SentOnlyForBurned == JSCSent <= burned
=============================================================================
