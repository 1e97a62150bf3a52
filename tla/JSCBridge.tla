------------------------------ MODULE JSCBridge ------------------------------
(***************************************************************************)
(* The contract contracts/JSCBridge.sol: users mint JoyTokens by deposit   *)
(* and burn them by withdraw, within limits an administrator sets and a    *)
(* volume per day that both share.  Time is counted in ticks, Day ticks    *)
(* being the 24 hours of the contract.                                     *)
(*                                                                         *)
(* A call that reverts changes nothing, the reset of its modifier          *)
(* included, so only successful calls are actions.                         *)
(*                                                                         *)
(* The contract calls mint and burnFrom of the token, which the token it   *)
(* imports, contracts/JoyToken.sol, does not have: modelled is what its    *)
(* mintFromJSC and burnForJSC do, which are there for the bridge.          *)
(***************************************************************************)
EXTENDS Totals

CONSTANTS
  User,          \* holders of JoyTokens
  Amount,        \* amounts users call with
  Limits,        \* limits the administrator may set: records [min, max, daily]
  MaxSupply,     \* what the cap of the token leaves to the bridge
  Day,           \* ticks in 24 hours
  MaxTime        \* bound on the clock

ASSUME JSCBridgeAssumption ==
  /\ IsFiniteSet(User)
  /\ Amount \subseteq Nat
  /\ Limits \subseteq [min : Nat, max : Nat, daily : Nat]
  /\ MaxSupply \in Nat /\ Day \in Nat \ {0} /\ MaxTime \in Nat

VARIABLES
  now,             \* block.timestamp
  limits,          \* minDeposit, maxDeposit, dailyLimit
  dailyVolume,
  lastResetTime,
  paused,
  balance,         \* the token: JOY held by each user
  volume,          \* history: amount moved by calls at each tick
  peak             \* history: highest dailyLimit so far

bridgeVars == <<now, limits, dailyVolume, lastResetTime, paused, balance, volume, peak>>

totalSupply == Total(balance, User)

BridgeTypeOK ==
  /\ now \in 0 .. MaxTime
  /\ limits \in [min : Nat, max : Nat, daily : Nat]
  /\ dailyVolume \in Nat
  /\ lastResetTime \in 0 .. now
  /\ paused \in BOOLEAN
  /\ balance \in [User -> Nat]
  /\ volume \in [0 .. MaxTime -> Nat]
  /\ peak \in Nat

BridgeInit ==
  /\ now = 0
  /\ limits \in {l \in Limits : l.max >= l.min}
  /\ dailyVolume = 0
  /\ lastResetTime = now
  /\ paused = FALSE
  /\ balance = [u \in User |-> 0]
  /\ volume = [t \in 0 .. MaxTime |-> 0]
  /\ peak = limits.daily

-----------------------------------------------------------------------------
\* The modifier resetDailyVolume: has the window of the last reset ended?
WindowOver == now >= lastResetTime + Day

VolumeAfterReset == IF WindowOver THEN 0 ELSE dailyVolume

\* Mutant of CountVolume: the limit is compared with the volume before the call.
CountVolume_LateLimit(amount) ==
  /\ ~paused
  /\ limits.min <= amount /\ amount <= limits.max
  /\ VolumeAfterReset <= limits.daily
  /\ dailyVolume' = VolumeAfterReset + amount
  /\ lastResetTime' = IF WindowOver THEN now ELSE lastResetTime
  /\ volume' = [volume EXCEPT ![now] = @ + amount]
  /\ UNCHANGED <<now, limits, paused, peak>>

\* What deposit and withdraw share: the modifiers, the three requirements on the
\* amount and the accounting of the volume.
CountVolume(amount) ==
  /\ ~paused
  /\ limits.min <= amount /\ amount <= limits.max
  /\ VolumeAfterReset + amount <= limits.daily
  /\ dailyVolume' = VolumeAfterReset + amount
  /\ lastResetTime' = IF WindowOver THEN now ELSE lastResetTime
  /\ volume' = [volume EXCEPT ![now] = @ + amount]
  /\ UNCHANGED <<now, limits, paused, peak>>

\* mintFromJSC of the token: refused above its cap.
Mint(user, amount) ==
  /\ totalSupply + amount <= MaxSupply
  /\ balance' = [balance EXCEPT ![user] = @ + amount]

\* burnForJSC of the token: refused beyond the balance.
BurnFrom(user, amount) ==
  /\ balance[user] >= amount
  /\ balance' = [balance EXCEPT ![user] = @ - amount]

Deposit(user, amount) == CountVolume(amount) /\ Mint(user, amount)

Withdraw(user, amount) == CountVolume(amount) /\ BurnFrom(user, amount)

UpdateLimits(l) ==
  /\ l.max >= l.min
  /\ limits' = l
  /\ peak' = IF l.daily > peak THEN l.daily ELSE peak
  /\ UNCHANGED <<now, dailyVolume, lastResetTime, paused, balance, volume>>

Pause ==
  /\ ~paused
  /\ paused' = TRUE
  /\ UNCHANGED <<now, limits, dailyVolume, lastResetTime, balance, volume, peak>>

Unpause ==
  /\ paused
  /\ paused' = FALSE
  /\ UNCHANGED <<now, limits, dailyVolume, lastResetTime, balance, volume, peak>>

\* Blocks carry a later timestamp.
Tick ==
  /\ now < MaxTime
  /\ now' = now + 1
  /\ UNCHANGED <<limits, dailyVolume, lastResetTime, paused, balance, volume, peak>>

AdminStep == Pause \/ Unpause \/ \E l \in Limits : UpdateLimits(l)

BridgeNext ==
  \/ \E u \in User, a \in Amount : Deposit(u, a) \/ Withdraw(u, a)
  \/ AdminStep
  \/ Tick

BridgeSpec == BridgeInit /\ [][BridgeNext]_bridgeVars

-----------------------------------------------------------------------------
(* Properties.                                                             *)

\* The counter holds what moved since the last reset, no more and no less,
\* across resets, pauses and changes of the limits.
VolumeAccounted == dailyVolume = Total(volume, lastResetTime .. now)

\* The window is fixed, not sliding, so that 24 hours that straddle a reset may
\* see the limit twice; they never see it three times.
AnyDayWithinTwiceLimit ==
  \A t \in 0 .. now :
    Total(volume, {s \in t .. now : s < t + Day}) <= 2 * peak
=============================================================================
