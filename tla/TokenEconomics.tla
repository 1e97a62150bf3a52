---------------------------- MODULE TokenEconomics ----------------------------
(***************************************************************************)
(* src/core/token_economics.py: the supply is handed out once, the fees    *)
(* of transactions gather in a pool that goes to the treasury when it is   *)
(* full.  Amounts are counted in fixed fees, ratios in parts of Whole.     *)
(***************************************************************************)
EXTENDS Naturals, FiniteSets, FiniteSetsExt

CONSTANTS
  TotalSupply,
  Whole,            \* Decimal("1.0")
  DefaultRatios,    \* GENESIS_ALLOCATIONS
  CustomRatios,     \* allocations a caller may pass
  PoolThreshold,    \* 1000 fees
  MaxFees           \* bound on the fees paid

ASSUME EconomicsAssumption ==
  /\ Whole \in Nat \ {0}
  /\ TotalSupply \in Nat /\ TotalSupply % Whole = 0
  /\ PoolThreshold \in Nat \ {0}
  /\ \A alloc \in CustomRatios \cup {DefaultRatios} : \A purpose \in DOMAIN alloc :
       alloc[purpose] \in Nat

VARIABLES
  genesis_complete, circulating_supply, treasury_balance, fee_pool,
  feesPaid,       \* history: fees that were accepted
  sweptEarly,     \* history: what the treasury got before the genesis and lost with it
  treasuryShare   \* history: what the genesis gave to the treasury

ecoVars == <<genesis_complete, circulating_supply, treasury_balance, fee_pool, feesPaid,
             sweptEarly, treasuryShare>>

EcoTypeOK ==
  /\ genesis_complete \in BOOLEAN
  /\ circulating_supply \in Nat /\ treasury_balance \in Nat
  /\ fee_pool \in Nat
  /\ feesPaid \in Nat /\ sweptEarly \in Nat /\ treasuryShare \in Nat

EcoInit ==
  /\ genesis_complete = FALSE
  /\ circulating_supply = 0 /\ treasury_balance = 0 /\ fee_pool = 0
  /\ feesPaid = 0 /\ sweptEarly = 0 /\ treasuryShare = 0

-----------------------------------------------------------------------------
\* Decimals are exact: a ratio of r parts is r units of the supply.
Unit == TotalSupply \div Whole
RatioSum(alloc) == MapThenSumSet(LAMBDA purpose : alloc[purpose], DOMAIN alloc)

ValidRatios(alloc) == RatioSum(alloc) = Whole

\* The treasury is set, not added to; without a share of the treasury it is kept.
InitializeGenesis(alloc) ==
  /\ ~genesis_complete
  /\ ValidRatios(alloc)
  /\ genesis_complete' = TRUE
  /\ circulating_supply' = circulating_supply + Unit * RatioSum(alloc)
  /\ IF "treasury" \in DOMAIN alloc
     THEN /\ treasury_balance' = Unit * alloc["treasury"]
          /\ treasuryShare' = Unit * alloc["treasury"]
          /\ sweptEarly' = treasury_balance
     ELSE UNCHANGED <<treasury_balance, treasuryShare, sweptEarly>>
  /\ UNCHANGED <<fee_pool, feesPaid>>

\* Mutant of ProcessTransactionFee: the pool is swept before the fee is added.
ProcessTransactionFee_SweepsFirst ==
  /\ feesPaid < MaxFees
  /\ feesPaid' = feesPaid + 1
  /\ IF fee_pool + 1 >= PoolThreshold
     THEN treasury_balance' = treasury_balance + fee_pool /\ fee_pool' = 0
     ELSE fee_pool' = fee_pool + 1 /\ UNCHANGED treasury_balance
  /\ UNCHANGED <<genesis_complete, circulating_supply, sweptEarly, treasuryShare>>

\* A fee other than the fixed one is refused and changes nothing.
ProcessTransactionFee ==
  /\ feesPaid < MaxFees
  /\ feesPaid' = feesPaid + 1
  /\ IF fee_pool + 1 >= PoolThreshold
     THEN treasury_balance' = treasury_balance + fee_pool + 1 /\ fee_pool' = 0
     ELSE fee_pool' = fee_pool + 1 /\ UNCHANGED treasury_balance
  /\ UNCHANGED <<genesis_complete, circulating_supply, sweptEarly, treasuryShare>>

EcoNext ==
  \/ \E alloc \in CustomRatios \cup {DefaultRatios} : InitializeGenesis(alloc)
  \/ ProcessTransactionFee

-----------------------------------------------------------------------------
(* Properties.                                                             *)

\* No fee is lost between pool and treasury, in whatever order fees and the
\* genesis come, but for those swept before the genesis, which overwrites the
\* treasury: and what was handed out is nothing or the whole supply.
FeesAccounted ==
  /\ treasury_balance + fee_pool + sweptEarly = treasuryShare + feesPaid
  /\ fee_pool < PoolThreshold
  /\ circulating_supply = IF genesis_complete THEN TotalSupply ELSE 0
=============================================================================
