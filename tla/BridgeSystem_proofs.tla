-------------------------- MODULE BridgeSystem_proofs --------------------------
(***************************************************************************)
(* Proofs about the JSC bridge for any set of deposits, users, amounts and *)
(* limits and any bounds: first the relay on its own (Spec), then the      *)
(* contract's limit per day, then what the wallet sends against what the   *)
(* contract mints (SysSpec).                                               *)
(***************************************************************************)
EXTENDS BridgeSystem, Totals_proofs


(***************************************************************************)
(* The inductive invariant.  Its parts say where the blocks are relative   *)
(* to the three pointers (saved, last_block, current), what the file holds *)
(* of them, which events the loop still owes, and how often a deposit can  *)
(* have been paid given what this incarnation has already passed.          *)
(***************************************************************************)
Pointers ==
  /\ \A d \in DepositEvent : blockOf[d] <= head
  /\ saved <= head
  /\ file.state = "absent" => saved = 0
  /\ file.state = "number" => file.block = saved
  /\ Running => saved <= last_block /\ last_block <= head
  /\ pc \in {"query", "transfer", "advance"} => last_block < current /\ current <= head
  /\ pc \in {"open", "write"} => last_block = current
  /\ pc = "write" => saved = current

Owed ==
  /\ pc = "transfer" => todo \subseteq DepositsIn(last_block + 1, current)
  /\ pc # "transfer" => todo = {}

Covered ==
  /\ DepositsIn(1, saved) \subseteq tried \cup missed
  /\ Running => DepositsIn(1, last_block) \subseteq tried \cup missed
  /\ pc = "transfer" => DepositsIn(1, current) \ todo \subseteq tried \cup missed
  /\ pc = "advance" => DepositsIn(1, current) \subseteq tried \cup missed

\* This incarnation has passed deposit d.
Passed(d) ==
  \/ Running /\ blockOf[d] \in 1 .. last_block
  \/ pc = "transfer" /\ blockOf[d] \in last_block + 1 .. current /\ d \notin todo
  \/ pc = "advance" /\ blockOf[d] \in 1 .. current

Payments ==
  \A d \in DepositEvent : paid[d] <= 1 + crashes /\ (~Passed(d) => paid[d] <= crashes)

IInv == TypeOK /\ Pointers /\ Owed /\ Covered /\ Payments

-----------------------------------------------------------------------------
LEMMA InitIInv == Init => IInv
BY DEF Init, IInv, TypeOK, Pointers, Owed, Covered, Payments, Passed, Running,
       DepositsIn, NoFile

LEMMA TypeStep == TypeOK /\ [Next]_vars => TypeOK'
<1> SUFFICES ASSUME TypeOK, [Next]_vars PROVE TypeOK'
  OBVIOUS
<1> USE DEF TypeOK, chainVars, memory, historyVars
<1>1. CASE Mine
  BY <1>1 DEF Mine, MineBlock
<1>2. CASE StartFromFile
  BY <1>2 DEF StartFromFile
<1>3. CASE StartFromHead
  BY <1>3 DEF StartFromHead, DepositsIn
<1>4. CASE Poll
  BY <1>4 DEF Poll
<1>5. CASE QueryEvents
  BY <1>5 DEF QueryEvents, DepositsIn
<1>6. CASE QueryFails
  BY <1>6 DEF QueryFails, DepositsIn
<1>7. CASE TransfersDone
  BY <1>7 DEF TransfersDone
<1>8. CASE Advance
  BY <1>8 DEF Advance
<1>9. CASE OpenFile
  BY <1>9 DEF OpenFile, Empty
<1>10. CASE WriteFile
  BY <1>10 DEF WriteFile, Number
<1>11. CASE SaveFails
  BY <1>11 DEF SaveFails
<1>12. CASE Wake
  BY <1>12 DEF Wake
<1>13. CASE Crash
  BY <1>13 DEF Crash
<1>14. CASE \E d \in DepositEvent : Transfer(d)
  BY <1>14 DEF Transfer
<1>15. CASE UNCHANGED vars
  BY <1>15 DEF vars
<1>16. QED
  BY <1>1, <1>2, <1>3, <1>4, <1>5, <1>6, <1>7, <1>8, <1>9, <1>10, <1>11, <1>12, <1>13, <1>14, <1>15 DEF Next, ServiceStep

LEMMA InvStep == IInv /\ [Next]_vars => IInv'
<1> SUFFICES ASSUME IInv, [Next]_vars PROVE IInv'
  OBVIOUS
<1>type. TypeOK /\ TypeOK'
  BY TypeStep DEF IInv
<1> USE <1>type DEF TypeOK, IInv, chainVars, memory, historyVars, Running, DepositsIn
<1>1. CASE Mine
  <2>1. Pointers'
    BY <1>1 DEF Mine, MineBlock, Pointers
  <2>2. Owed'
    BY <1>1 DEF Mine, MineBlock, Pointers, Owed
  <2>3. Covered'
    BY <1>1 DEF Mine, MineBlock, Pointers, Owed, Covered
  <2>4. Payments'
    BY <1>1 DEF Mine, MineBlock, Pointers, Owed, Payments, Passed
  <2>5. QED
    BY <2>1, <2>2, <2>3, <2>4
<1>2. CASE StartFromFile
  <2>1. Pointers'
    BY <1>2 DEF StartFromFile, Pointers
  <2>2. Owed'
    BY <1>2 DEF StartFromFile, Pointers, Owed
  <2>3. Covered'
    BY <1>2 DEF StartFromFile, Pointers, Owed, Covered
  <2>4. Payments'
    BY <1>2 DEF StartFromFile, Pointers, Owed, Payments, Passed
  <2>5. QED
    BY <2>1, <2>2, <2>3, <2>4
<1>3. CASE StartFromHead
  <2>1. Pointers'
    BY <1>3 DEF StartFromHead, NoFile, Pointers
  <2>2. Owed'
    BY <1>3 DEF StartFromHead, NoFile, Pointers, Owed
  <2>3. Covered'
    BY <1>3 DEF StartFromHead, NoFile, Pointers, Owed, Covered
  <2>4. Payments'
    BY <1>3 DEF StartFromHead, NoFile, Pointers, Owed, Payments, Passed
  <2>5. QED
    BY <2>1, <2>2, <2>3, <2>4
<1>4. CASE Poll
  <2>1. Pointers'
    BY <1>4 DEF Poll, Pointers
  <2>2. Owed'
    BY <1>4 DEF Poll, Pointers, Owed
  <2>3. Covered'
    BY <1>4 DEF Poll, Pointers, Owed, Covered
  <2>4. Payments'
    BY <1>4 DEF Poll, Pointers, Owed, Payments, Passed
  <2>5. QED
    BY <2>1, <2>2, <2>3, <2>4
<1>5. CASE QueryEvents
  <2>1. Pointers'
    BY <1>5 DEF QueryEvents, Pointers
  <2>2. Owed'
    BY <1>5 DEF QueryEvents, Pointers, Owed
  <2>3. Covered'
    BY <1>5 DEF QueryEvents, Pointers, Owed, Covered
  <2>4. Payments'
    BY <1>5 DEF QueryEvents, Pointers, Owed, Payments, Passed
  <2>5. QED
    BY <2>1, <2>2, <2>3, <2>4
<1>6. CASE QueryFails
  <2>1. Pointers'
    BY <1>6 DEF QueryFails, Pointers
  <2>2. Owed'
    BY <1>6 DEF QueryFails, Pointers, Owed
  <2>3. Covered'
    BY <1>6 DEF QueryFails, Pointers, Owed, Covered
  <2>4. Payments'
    BY <1>6 DEF QueryFails, Pointers, Owed, Payments, Passed
  <2>5. QED
    BY <2>1, <2>2, <2>3, <2>4
<1>7. CASE TransfersDone
  <2>1. Pointers'
    BY <1>7 DEF TransfersDone, Pointers
  <2>2. Owed'
    BY <1>7 DEF TransfersDone, Pointers, Owed
  <2>3. Covered'
    BY <1>7 DEF TransfersDone, Pointers, Owed, Covered
  <2>4. Payments'
    BY <1>7 DEF TransfersDone, Pointers, Owed, Payments, Passed
  <2>5. QED
    BY <2>1, <2>2, <2>3, <2>4
<1>8. CASE Advance
  <2>1. Pointers'
    BY <1>8 DEF Advance, Pointers
  <2>2. Owed'
    BY <1>8 DEF Advance, Pointers, Owed
  <2>3. Covered'
    BY <1>8 DEF Advance, Pointers, Owed, Covered
  <2>4. Payments'
    BY <1>8 DEF Advance, Pointers, Owed, Payments, Passed
  <2>5. QED
    BY <2>1, <2>2, <2>3, <2>4
<1>9. CASE OpenFile
  <2>1. Pointers'
    BY <1>9 DEF OpenFile, Empty, Pointers
  <2>2. Owed'
    BY <1>9 DEF OpenFile, Empty, Pointers, Owed
  <2>3. Covered'
    BY <1>9 DEF OpenFile, Empty, Pointers, Owed, Covered
  <2>4. Payments'
    BY <1>9 DEF OpenFile, Empty, Pointers, Owed, Payments, Passed
  <2>5. QED
    BY <2>1, <2>2, <2>3, <2>4
<1>10. CASE WriteFile
  <2>1. Pointers'
    BY <1>10 DEF WriteFile, Number, Pointers
  <2>2. Owed'
    BY <1>10 DEF WriteFile, Number, Pointers, Owed
  <2>3. Covered'
    BY <1>10 DEF WriteFile, Number, Pointers, Owed, Covered
  <2>4. Payments'
    BY <1>10 DEF WriteFile, Number, Pointers, Owed, Payments, Passed
  <2>5. QED
    BY <2>1, <2>2, <2>3, <2>4
<1>11. CASE SaveFails
  <2>1. Pointers'
    BY <1>11 DEF SaveFails, Pointers
  <2>2. Owed'
    BY <1>11 DEF SaveFails, Pointers, Owed
  <2>3. Covered'
    BY <1>11 DEF SaveFails, Pointers, Owed, Covered
  <2>4. Payments'
    BY <1>11 DEF SaveFails, Pointers, Owed, Payments, Passed
  <2>5. QED
    BY <2>1, <2>2, <2>3, <2>4
<1>12. CASE Wake
  <2>1. Pointers'
    BY <1>12 DEF Wake, Pointers
  <2>2. Owed'
    BY <1>12 DEF Wake, Pointers, Owed
  <2>3. Covered'
    BY <1>12 DEF Wake, Pointers, Owed, Covered
  <2>4. Payments'
    BY <1>12 DEF Wake, Pointers, Owed, Payments, Passed
  <2>5. QED
    BY <2>1, <2>2, <2>3, <2>4
<1>13. CASE Crash
  <2>1. Pointers'
    BY <1>13 DEF Crash, Pointers
  <2>2. Owed'
    BY <1>13 DEF Crash, Pointers, Owed
  <2>3. Covered'
    BY <1>13 DEF Crash, Pointers, Owed, Covered
  <2>4. Payments'
    BY <1>13 DEF Crash, Pointers, Owed, Payments, Passed
  <2>5. QED
    BY <2>1, <2>2, <2>3, <2>4
<1>14. CASE \E d \in DepositEvent : Transfer(d)
  <2>1. Pointers'
    BY <1>14 DEF Transfer, Pointers
  <2>2. Owed'
    BY <1>14 DEF Transfer, Pointers, Owed
  <2>3. Covered'
    BY <1>14 DEF Transfer, Pointers, Owed, Covered
  <2>4. Payments'
    BY <1>14 DEF Transfer, Pointers, Owed, Payments, Passed
  <2>5. QED
    BY <2>1, <2>2, <2>3, <2>4
<1>15. CASE UNCHANGED vars
  BY <1>15 DEF vars, Pointers, Owed, Covered, Payments, Passed
<1>16. QED
  BY <1>1, <1>2, <1>3, <1>4, <1>5, <1>6, <1>7, <1>8, <1>9, <1>10, <1>11, <1>12, <1>13, <1>14, <1>15 DEF Next, ServiceStep

-----------------------------------------------------------------------------
\* The variables keep their types, whatever the number of deposits, blocks and
\* crashes of src/bridge_service.py.
THEOREM TypeCorrect == Spec => []TypeOK
<1>1. Init => TypeOK
  BY InitIInv DEF IInv
<1>2. QED
  BY <1>1, TypeStep, PTL DEF Spec

LEMMA Invariance == Spec => []IInv
BY InitIInv, InvStep, PTL DEF Spec

\* process_deposits pays a deposit at most once between two starts of the
\* service, for any number of deposits, blocks and crashes.
THEOREM PaidOnce == Spec => []PaidOncePerIncarnation
<1>1. IInv => PaidOncePerIncarnation
  BY DEF IInv, TypeOK, Payments, Passed, Running, PaidOncePerIncarnation
<1>2. QED
  BY <1>1, Invariance, PTL

\* Consecutive block ranges of run() leave no deposit out.
THEOREM NoGap == Spec => []NoGapBetweenRanges
<1>1. IInv => NoGapBetweenRanges
  BY DEF IInv, Covered, NoGapBetweenRanges
<1>2. QED
  BY <1>1, Invariance, PTL

\* A step pays only what the loop still owes, and that lies beyond the blocks
\* handed to a save.
LEMMA PayStep ==
  ASSUME IInv, [Next]_vars, NEW d \in DepositEvent, paid'[d] # paid[d]
  PROVE  Transfer(d) /\ saved < blockOf[d] /\ blockOf[d] <= head
<1> USE DEF IInv, TypeOK, chainVars, memory, historyVars
<1>1. PICK e \in DepositEvent : Transfer(e)
  BY DEF Next, ServiceStep, Mine, MineBlock, StartFromFile, StartFromHead, Poll,
         QueryEvents, QueryFails, TransfersDone, Advance, OpenFile, WriteFile,
         SaveFails, Wake, Crash, vars
<1>2. d = e
  BY <1>1 DEF Transfer
<1>3. QED
  BY <1>1, <1>2 DEF Transfer, Pointers, Owed, DepositsIn, Running

\* No deposit covered by a save of the pointer is ever paid again.
THEOREM Settled == Spec => SettledStaysSettled
<1>1. IInv /\ [Next]_vars =>
        [\A d \in DepositEvent : blockOf[d] \in 1 .. saved => paid'[d] = paid[d]]_vars
  BY PayStep DEF IInv, TypeOK
<1>2. QED
  BY <1>1, Invariance, PTL DEF Spec, SettledStaysSettled

-----------------------------------------------------------------------------
(* Refinement: every step of the service is a step of the feed, or none.   *)

LEMMA RefineInit == Init => Feed!Init
BY DEF Init, Feed!Init

LEMMA RefineStep == IInv /\ [Next]_vars => [Feed!Next]_(Feed!vars)
<1> SUFFICES ASSUME IInv, [Next]_vars PROVE [Feed!Next]_(Feed!vars)
  OBVIOUS
<1> USE DEF IInv, TypeOK, chainVars, memory, historyVars, Feed!vars
<1>1. CASE Mine
  BY <1>1 DEF Mine, MineBlock, Feed!Next, Feed!Mine
<1>2. CASE \E d \in DepositEvent : Transfer(d)
  <2>1. PICK d \in DepositEvent : Transfer(d)
    BY <1>2
  <2>2. saved < blockOf[d] /\ blockOf[d] <= head
    BY <2>1 DEF Transfer, Pointers, Owed, DepositsIn, Running
  <2>3. QED
    BY <2>1, <2>2 DEF Transfer, Feed!Next, Feed!Pay
<1>3. CASE OpenFile
  <2>1. current \in saved .. head
    BY <1>3 DEF OpenFile, Pointers, Running
  <2>2. QED
    BY <1>3, <2>1 DEF OpenFile, Feed!Next, Feed!Settle
<1>4. CASE StartFromFile \/ StartFromHead \/ Poll \/ QueryEvents \/ QueryFails
  BY <1>4 DEF StartFromFile, StartFromHead, Poll, QueryEvents, QueryFails
<1>5. CASE TransfersDone \/ Advance \/ WriteFile \/ SaveFails \/ Wake \/ Crash
  BY <1>5 DEF TransfersDone, Advance, WriteFile, SaveFails, Wake, Crash
<1>6. CASE UNCHANGED vars
  BY <1>6 DEF vars
<1>7. QED
  BY <1>1, <1>2, <1>3, <1>4, <1>5, <1>6 DEF Next, ServiceStep

\* The service implements the abstract feed of settled and unsettled deposits.
THEOREM Refinement == Spec => ImplementsFeed
BY RefineInit, RefineStep, Invariance, PTL DEF Spec, ImplementsFeed, Feed!Spec

-----------------------------------------------------------------------------
(* The contract: the limit per day.                                        *)

\* What moved in the ticks of S.
Moved(S) == Total(volume, S)

(***************************************************************************)
(* The inductive invariant of the contract.  No call moved more in the     *)
(* current window than the highest limit; nothing has moved after now, nor *)
(* after the end of a window that no call has reset yet; and the Day ticks *)
(* before the last reset lie in a single window, so what moved in them is  *)
(* within the highest limit as well.  A day that ended before the last     *)
(* reset keeps what the invariant gave it then.                            *)
(***************************************************************************)
WithinPeak == limits.daily <= peak /\ dailyVolume <= peak

NothingAhead ==
  \A s \in 0 .. MaxTime : s > now \/ s >= lastResetTime + Day => volume[s] = 0

BeforeReset ==
  \A t \in 0 .. lastResetTime :
    t + Day >= lastResetTime => Moved(t .. lastResetTime - 1) <= peak

EndedDays ==
  \A t \in 0 .. lastResetTime :
    t + Day < lastResetTime => Moved({s \in t .. now : s < t + Day}) <= 2 * peak

DayInv ==
  /\ BridgeTypeOK /\ WithinPeak /\ VolumeAccounted
  /\ NothingAhead /\ BeforeReset /\ EndedDays

\* Any set of ticks is finite, and its part of the volume a natural number.
LEMMA TicksFinite ==
  ASSUME BridgeTypeOK, NEW S \in SUBSET (0 .. MaxTime)
  PROVE  IsFiniteSet(S) /\ Moved(S) \in Nat
<1>1. MaxTime \in Int /\ 0 \in Int
  BY JSCBridgeAssumption
<1>2. IsFiniteSet(0 .. MaxTime)
  BY <1>1, FS_Interval
<1>3. IsFiniteSet(S)
  BY <1>2, FS_Subset
<1>4. QED
  BY <1>3, PartFinite DEF BridgeTypeOK, Moved

\* The window argument: what holds of the days before the last reset and of the
\* current window holds of every day.
LEMMA DaysWithinLimit ==
  ASSUME DayInv
  PROVE  AnyDayWithinTwiceLimit
<1> USE DEF DayInv
<1> SUFFICES ASSUME NEW t \in 0 .. now PROVE Moved({s \in t .. now : s < t + Day}) <= 2 * peak
  BY DEF AnyDayWithinTwiceLimit, Moved
<1> DEFINE ticks == {s \in t .. now : s < t + Day}
<1>1. /\ MaxTime \in Nat /\ Day \in Nat /\ now \in 0 .. MaxTime /\ lastResetTime \in 0 .. now
      /\ peak \in Nat /\ dailyVolume \in Nat /\ dailyVolume <= peak /\ t \in Nat
  BY JSCBridgeAssumption DEF BridgeTypeOK, WithinPeak
<1>2. ticks \in SUBSET (0 .. MaxTime) /\ lastResetTime .. now \in SUBSET (0 .. MaxTime)
  BY <1>1
<1>3. IsFiniteSet(lastResetTime .. now) /\ Moved(ticks) \in Nat
  BY <1>2, TicksFinite
<1>4. Moved(lastResetTime .. now) = dailyVolume
  BY DEF VolumeAccounted, Moved
<1>5. volume \in [0 .. MaxTime -> Nat]
  BY DEF BridgeTypeOK
<1>6. CASE t >= lastResetTime
  <2>1. ticks \in SUBSET (lastResetTime .. now)
    BY <1>1, <1>6
  <2>2. Moved(ticks) <= Moved(lastResetTime .. now)
    BY <1>2, <1>3, <1>5, <2>1, PartMonotone DEF Moved
  <2>3. QED
    BY <1>1, <1>3, <1>4, <2>2
<1>7. CASE t < lastResetTime /\ t + Day >= lastResetTime
  <2> DEFINE before == t .. lastResetTime - 1
  <2>1. before \in SUBSET (0 .. MaxTime)
    BY <1>1, <1>7
  <2>2. IsFiniteSet(before) /\ Moved(before) \in Nat
    BY <2>1, TicksFinite
  <2>3. before \cup (lastResetTime .. now) \in SUBSET (0 .. MaxTime)
    BY <1>2, <2>1
  <2>4. ticks \in SUBSET (before \cup (lastResetTime .. now))
    BY <1>1, <1>7
  <2>5. Moved(before) <= peak
    BY <1>1, <1>7 DEF BeforeReset
  <2>6. IsFiniteSet(before \cup (lastResetTime .. now))
    BY <2>3, TicksFinite
  <2> HIDE DEF before, ticks
  <2>7. Moved(ticks) <= Moved(before \cup (lastResetTime .. now))
    BY <1>5, <2>3, <2>4, <2>6, PartMonotone DEF Moved
  <2>8. Moved(before \cup (lastResetTime .. now)) <= Moved(before) + Moved(lastResetTime .. now)
    BY <1>2, <1>3, <1>5, <2>1, <2>2, PartsTogether DEF Moved
  <2>9. Moved(before \cup (lastResetTime .. now)) \in Nat
    BY <2>3, TicksFinite
  <2>10. QED
    BY <1>1, <1>3, <1>4, <2>2, <2>5, <2>7, <2>8, <2>9 DEF ticks
<1>8. CASE t + Day < lastResetTime
  BY <1>1, <1>8 DEF EndedDays
<1>9. QED
  BY <1>1, <1>6, <1>7, <1>8

\* Where nothing has moved the total is zero.
LEMMA NothingMoved ==
  ASSUME NEW S, \A s \in S : volume[s] = 0
  PROVE  Moved(S) = 0
<1>1. Units(volume, S) = {}
  BY DEF Units
<1>2. QED
  BY <1>1, FS_EmptySet DEF Moved, Total

LEMMA DayInit == BridgeInit => DayInv
<1> SUFFICES ASSUME BridgeInit PROVE DayInv
  OBVIOUS
<1> USE JSCBridgeAssumption
<1>a. limits \in [min : Nat, max : Nat, daily : Nat]
  BY DEF BridgeInit
<1>b. now = 0 /\ now \in 0 .. MaxTime /\ lastResetTime = 0 /\ lastResetTime \in 0 .. now
  BY DEF BridgeInit
<1>c. dailyVolume = 0 /\ peak \in Nat /\ peak = limits.daily
  BY <1>a DEF BridgeInit
<1>d. paused \in BOOLEAN
  BY DEF BridgeInit
<1>e. balance \in [User -> Nat] /\ volume \in [0 .. MaxTime -> Nat]
  BY DEF BridgeInit
<1>1. BridgeTypeOK /\ now = 0 /\ lastResetTime = 0
  BY <1>a, <1>b, <1>c, <1>d, <1>e DEF BridgeTypeOK
<1>2. WithinPeak /\ NothingAhead
  BY <1>1, JSCBridgeAssumption DEF BridgeInit, BridgeTypeOK, WithinPeak, NothingAhead
<1>3. \A S \in SUBSET (0 .. MaxTime) : Moved(S) = 0
  BY NothingMoved DEF BridgeInit
<1>4. /\ 0 .. 0 \in SUBSET (0 .. MaxTime) /\ 0 .. 0 - 1 \in SUBSET (0 .. MaxTime)
      /\ dailyVolume = 0 /\ peak \in Nat
  BY <1>1, JSCBridgeAssumption DEF BridgeInit, BridgeTypeOK
<1>5. VolumeAccounted
  BY <1>1, <1>3, <1>4 DEF VolumeAccounted, Moved
<1>6. BeforeReset
  BY <1>1, <1>3, <1>4 DEF BeforeReset
<1>7. EndedDays
  BY <1>1, JSCBridgeAssumption DEF EndedDays
<1>8. QED
  BY <1>1, <1>2, <1>5, <1>6, <1>7 DEF DayInv

\* A day that ended before the last reset is not touched by what moves later.
LEMMA EndedDaysStay ==
  ASSUME DayInv, BridgeTypeOK', peak' >= peak, now' >= now,
         lastResetTime' <= now, \A s \in 0 .. now : s < lastResetTime' => volume'[s] = volume[s]
  PROVE  EndedDays'
<1> SUFFICES ASSUME NEW t \in 0 .. lastResetTime', t + Day < lastResetTime'
             PROVE  Total(volume', {s \in t .. now' : s < t + Day}) <= 2 * peak'
  BY DEF EndedDays, Moved
<1> DEFINE ticks == {s \in t .. now : s < t + Day}
<1>1. /\ MaxTime \in Nat /\ Day \in Nat /\ now \in Nat /\ now \in 0 .. MaxTime /\ now' \in Nat
      /\ lastResetTime' \in Nat /\ peak \in Nat /\ peak' \in Nat /\ t \in 0 .. now
  BY JSCBridgeAssumption DEF DayInv, BridgeTypeOK
<1>2. {s \in t .. now' : s < t + Day} = ticks
  BY <1>1
<1>3. Moved(ticks) <= 2 * peak
  BY <1>1, DaysWithinLimit DEF AnyDayWithinTwiceLimit, Moved
<1>4. \A s \in ticks : volume'[s] = volume[s]
  BY <1>1
<1>5. Total(volume', ticks) = Total(volume, ticks)
  <2> HIDE DEF ticks
  <2> QED
    BY <1>4, PartSame
<1>6. ticks \in SUBSET (0 .. MaxTime)
  BY <1>1
<1>7. Moved(ticks) \in Nat
  BY <1>6, TicksFinite DEF DayInv
<1> HIDE DEF ticks
<1>8. Total(volume', ticks) <= 2 * peak'
  BY <1>1, <1>3, <1>5, <1>7 DEF Moved
<1>9. QED
  BY <1>2, <1>8

\* deposit and withdraw, whatever they do to the balances.
LEMMA CallStep ==
  ASSUME DayInv, NEW a \in Amount, CountVolume(a), balance' \in [User -> Nat]
  PROVE  DayInv'
<1> USE JSCBridgeAssumption DEF DayInv, BridgeTypeOK
<1>1. /\ MaxTime \in Nat /\ Day \in Nat \ {0} /\ a \in Nat /\ now \in 0 .. MaxTime
      /\ lastResetTime \in 0 .. now /\ peak \in Nat /\ dailyVolume \in Nat /\ limits.daily \in Nat
      /\ volume \in [0 .. MaxTime -> Nat]
  OBVIOUS
<1>2. /\ now' = now /\ limits' = limits /\ peak' = peak
      /\ volume' \in [0 .. MaxTime -> Nat] /\ volume'[now] = volume[now] + a
      /\ \A s \in 0 .. MaxTime : s # now => volume'[s] = volume[s]
  BY <1>1 DEF CountVolume
<1>3. /\ VolumeAfterReset + a <= limits.daily /\ dailyVolume' = VolumeAfterReset + a
      /\ lastResetTime' = IF WindowOver THEN now ELSE lastResetTime
  BY DEF CountVolume
<1>4. lastResetTime' \in 0 .. now /\ dailyVolume' \in Nat
  BY <1>1, <1>3 DEF VolumeAfterReset
<1>5. BridgeTypeOK'
  BY <1>2, <1>4 DEF CountVolume
<1>6. WithinPeak'
  BY <1>1, <1>2, <1>3, <1>4 DEF WithinPeak
<1>7. NothingAhead'
  BY <1>1, <1>2, <1>3 DEF NothingAhead, WindowOver
<1>8. EndedDays'
  BY <1>1, <1>2, <1>4, <1>5, EndedDaysStay
<1>9. CASE WindowOver
  <2>1. lastResetTime' = now /\ dailyVolume' = a /\ now >= lastResetTime + Day
    BY <1>1, <1>3, <1>9 DEF VolumeAfterReset, WindowOver
  <2>2. volume[now] = 0
    BY <1>1, <2>1 DEF NothingAhead
  <2>3. VolumeAccounted'
    <3>1. {now} = now .. now /\ volume'[now] = a /\ a \in Nat
      BY <1>1, <1>2, <2>2
    <3>2. Total(volume', {now}) = a
      BY <3>1, PartOne
    <3>3. QED
      BY <1>2, <2>1, <3>1, <3>2 DEF VolumeAccounted
  <2>4. ASSUME NEW t \in 0 .. now, t + Day >= now PROVE Total(volume', t .. now - 1) <= peak
    <3> DEFINE before == t .. now - 1
    <3>1. before \in SUBSET (lastResetTime .. now) /\ \A s \in before : volume'[s] = volume[s]
      BY <1>1, <1>2, <2>1, <2>4
    <3>2. lastResetTime .. now \in SUBSET (0 .. MaxTime)
      BY <1>1
    <3>3. IsFiniteSet(lastResetTime .. now)
      BY <3>2, TicksFinite
    <3> HIDE DEF before
    <3>4. Total(volume', before) = Total(volume, before)
      BY <3>1, PartSame
    <3>5. /\ Total(volume, before) <= Total(volume, lastResetTime .. now)
          /\ Total(volume, before) \in Nat
      BY <1>1, <3>1, <3>2, <3>3, PartMonotone
    <3>6. QED
      BY <1>1, <3>4, <3>5 DEF VolumeAccounted, WithinPeak, before
  <2>5. BeforeReset'
    BY <1>2, <2>1, <2>4 DEF BeforeReset, Moved
  <2>6. QED
    BY <1>5, <1>6, <1>7, <1>8, <2>3, <2>5
<1>10. CASE ~WindowOver
  <2>1. lastResetTime' = lastResetTime /\ dailyVolume' = dailyVolume + a
    BY <1>3, <1>10 DEF VolumeAfterReset
  <2>2. VolumeAccounted'
    <3> DEFINE earlier == lastResetTime .. now - 1
    <3>1. /\ earlier \in SUBSET (0 .. MaxTime) /\ now \notin earlier
          /\ earlier \cup {now} = lastResetTime .. now /\ \A s \in earlier : volume'[s] = volume[s]
      BY <1>1, <1>2
    <3>2. IsFiniteSet(earlier)
      BY <3>1, TicksFinite
    <3> HIDE DEF earlier
    <3>3. Total(volume', earlier) = Total(volume, earlier)
      BY <3>1, PartSame
    <3>4. /\ Total(volume, earlier \cup {now}) = Total(volume, earlier) + volume[now]
          /\ Total(volume, earlier) \in Nat
      BY <1>1, <3>1, <3>2, PartAdd
    <3>5. volume' \in [0 .. MaxTime -> Nat] /\ now \in 0 .. MaxTime
      BY <1>1, <1>2
    <3>6. /\ Total(volume', earlier \cup {now}) = Total(volume', earlier) + volume'[now]
          /\ Total(volume', earlier) \in Nat
      BY <3>1, <3>2, <3>5, PartAdd
    <3>7. volume[now] \in Nat /\ volume'[now] = volume[now] + a /\ a \in Nat
      BY <1>1, <1>2
    <3>8. dailyVolume = Total(volume, earlier \cup {now})
      BY <3>1 DEF VolumeAccounted
    <3>9. dailyVolume + a = Total(volume', earlier \cup {now})
      BY <3>3, <3>4, <3>6, <3>7, <3>8
    <3>10. QED
      BY <1>2, <2>1, <3>1, <3>9 DEF VolumeAccounted
  <2>3. ASSUME NEW t \in 0 .. lastResetTime, t + Day >= lastResetTime
        PROVE  Total(volume', t .. lastResetTime - 1) <= peak
    <3>1. \A s \in t .. lastResetTime - 1 : volume'[s] = volume[s]
      BY <1>1, <1>2
    <3>2. Total(volume', t .. lastResetTime - 1) = Total(volume, t .. lastResetTime - 1)
      BY <3>1, PartSame
    <3>3. QED
      BY <2>3, <3>2 DEF BeforeReset, Moved
  <2>4. BeforeReset'
    BY <1>2, <2>1, <2>3 DEF BeforeReset, Moved
  <2>5. QED
    BY <1>5, <1>6, <1>7, <1>8, <2>2, <2>4
<1>11. QED
  BY <1>9, <1>10

\* A step that leaves the volume alone, the clock included.
LEMMA QuietStep ==
  ASSUME DayInv, BridgeTypeOK', WithinPeak', peak' >= peak,
         UNCHANGED <<now, dailyVolume, lastResetTime, volume>>
  PROVE  DayInv'
<1>1. /\ lastResetTime \in 0 .. now /\ now \in 0 .. MaxTime /\ MaxTime \in Nat
      /\ peak \in Nat /\ peak' \in Nat
  BY JSCBridgeAssumption DEF DayInv, BridgeTypeOK
<1>2. VolumeAccounted' /\ NothingAhead'
  BY DEF DayInv, VolumeAccounted, NothingAhead, Moved
<1>3. BeforeReset'
  <2>1. ASSUME NEW t \in 0 .. lastResetTime, t + Day >= lastResetTime
        PROVE  Moved(t .. lastResetTime - 1) <= peak'
    <3>1. t .. lastResetTime - 1 \in SUBSET (0 .. MaxTime)
      BY <1>1
    <3>2. Moved(t .. lastResetTime - 1) \in Nat
      BY <3>1, TicksFinite DEF DayInv
    <3>3. QED
      BY <1>1, <2>1, <3>2 DEF DayInv, BeforeReset
  <2>2. QED
    BY <2>1 DEF BeforeReset, Moved
<1>4. EndedDays'
  BY <1>1, EndedDaysStay
<1>5. QED
  BY <1>2, <1>3, <1>4 DEF DayInv

LEMMA TickStep ==
  ASSUME DayInv, Tick
  PROVE  DayInv'
<1> USE JSCBridgeAssumption DEF DayInv, BridgeTypeOK
<1>1. /\ MaxTime \in Nat /\ Day \in Nat \ {0} /\ now \in 0 .. MaxTime /\ now + 1 \in 0 .. MaxTime
      /\ lastResetTime \in 0 .. now /\ volume \in [0 .. MaxTime -> Nat]
      /\ now' = now + 1
      /\ UNCHANGED <<limits, dailyVolume, lastResetTime, paused, balance, volume, peak>>
  BY DEF Tick
<1>2. BridgeTypeOK' /\ WithinPeak'
  BY <1>1 DEF WithinPeak
<1>3. NothingAhead'
  BY <1>1 DEF NothingAhead
<1>4. VolumeAccounted'
  <2> DEFINE window == lastResetTime .. now
  <2>1. /\ window \in SUBSET (0 .. MaxTime) /\ now + 1 \notin window
        /\ window \cup {now + 1} = lastResetTime .. now + 1
    BY <1>1
  <2>2. IsFiniteSet(window)
    BY <2>1, TicksFinite
  <2>3. volume[now + 1] = 0
    BY <1>1 DEF NothingAhead
  <2> HIDE DEF window
  <2>4. Total(volume, window \cup {now + 1}) = Total(volume, window) + volume[now + 1]
        /\ Total(volume, window) \in Nat
    BY <1>1, <2>1, <2>2, PartAdd
  <2>5. dailyVolume = Total(volume, window)
    BY DEF VolumeAccounted, window
  <2>6. Total(volume, window \cup {now + 1}) = Total(volume, lastResetTime .. now + 1)
    BY <2>1, Zenon
  <2>7. dailyVolume = Total(volume, lastResetTime .. now + 1)
    BY <2>3, <2>4, <2>5, <2>6
  <2>8. QED
    BY <1>1, <2>7 DEF VolumeAccounted
<1>5. BeforeReset'
  BY <1>1 DEF BeforeReset, Moved
<1>6. EndedDays'
  <2>1. peak' >= peak /\ now' >= now /\ lastResetTime' <= now
    BY <1>1
  <2>2. \A s \in 0 .. now : s < lastResetTime' => volume'[s] = volume[s]
    BY <1>1
  <2>3. QED
    BY <1>2, <2>1, <2>2, EndedDaysStay
<1>7. QED
  BY <1>2, <1>3, <1>4, <1>5, <1>6

LEMMA DayStep == DayInv /\ [BridgeNext]_bridgeVars => DayInv'
<1> SUFFICES ASSUME DayInv, [BridgeNext]_bridgeVars PROVE DayInv'
  OBVIOUS
<1> USE JSCBridgeAssumption DEF DayInv, BridgeTypeOK
<1>1. CASE \E u \in User, a \in Amount : Deposit(u, a) \/ Withdraw(u, a)
  <2>1. PICK u \in User, a \in Amount : Deposit(u, a) \/ Withdraw(u, a)
    BY <1>1
  <2>2. CountVolume(a) /\ (Mint(u, a) \/ BurnFrom(u, a))
    BY <2>1 DEF Deposit, Withdraw
  <2>3. balance' \in [User -> Nat]
    BY <2>2 DEF Mint, BurnFrom
  <2>4. QED
    BY <2>2, <2>3, CallStep
<1>2. CASE \E l \in Limits : UpdateLimits(l)
  <2>1. PICK l \in Limits : UpdateLimits(l)
    BY <1>2
  <2>2. BridgeTypeOK' /\ WithinPeak' /\ peak' >= peak
    BY <2>1 DEF UpdateLimits, WithinPeak
  <2>3. QED
    BY <2>1, <2>2, QuietStep DEF UpdateLimits
<1>3. CASE Pause \/ Unpause \/ UNCHANGED bridgeVars
  <2>1. UNCHANGED <<now, limits, dailyVolume, lastResetTime, balance, volume, peak>>
    BY <1>3 DEF Pause, Unpause, bridgeVars
  <2>2. paused' \in BOOLEAN
    BY <1>3 DEF Pause, Unpause, bridgeVars
  <2>3. BridgeTypeOK' /\ WithinPeak' /\ peak' >= peak
    BY <2>1, <2>2 DEF WithinPeak
  <2>4. QED
    BY <2>1, <2>3, QuietStep
<1>4. CASE Tick
  BY <1>4, TickStep
<1>5. QED
  BY <1>1, <1>2, <1>3, <1>4 DEF BridgeNext, AdminStep

-----------------------------------------------------------------------------
(* Both parts: every step of the system is a step of each, or none of its. *)

LEMMA RelaySteps == [SysNext]_sysVars => [Next]_vars
<1> SUFFICES ASSUME [SysNext]_sysVars PROVE [Next]_vars
  OBVIOUS
<1>1. CASE RelayAlone
  BY <1>1 DEF RelayAlone
<1>2. CASE ContractAlone \/ UNCHANGED sysVars
  BY <1>2 DEF ContractAlone, sysVars
<1>3. CASE Together
  <2>1. CASE \E e \in DepositEvent, u \in User, a \in Amount : DepositTx(e, u, a)
    BY <2>1 DEF DepositTx, Next, Mine
  <2>2. CASE \E u \in User, a \in Amount : WithdrawTx(u, a)
    BY <2>2 DEF WithdrawTx, Next, Mine
  <2>3. CASE AdminTx
    BY <2>3 DEF AdminTx, Next, Mine
  <2>4. CASE JointTick
    BY <2>4 DEF JointTick
  <2>5. CASE RelayStep
    BY <2>5 DEF RelayStep, Next
  <2>6. QED
    BY <1>3, <2>1, <2>2, <2>3, <2>4, <2>5 DEF Together
<1>4. QED
  BY <1>1, <1>2, <1>3 DEF SysNext

LEMMA ContractSteps == [SysNext]_sysVars => [BridgeNext]_bridgeVars
<1> SUFFICES ASSUME [SysNext]_sysVars PROVE [BridgeNext]_bridgeVars
  OBVIOUS
<1>1. CASE ContractAlone
  BY <1>1 DEF ContractAlone
<1>2. CASE RelayAlone \/ UNCHANGED sysVars
  BY <1>2 DEF RelayAlone, sysVars
<1>3. CASE Together
  <2>1. CASE \E e \in DepositEvent, u \in User, a \in Amount : DepositTx(e, u, a)
    BY <2>1 DEF DepositTx, BridgeNext
  <2>2. CASE \E u \in User, a \in Amount : WithdrawTx(u, a)
    BY <2>2 DEF WithdrawTx, BridgeNext
  <2>3. CASE AdminTx
    BY <2>3 DEF AdminTx, BridgeNext
  <2>4. CASE JointTick
    BY <2>4 DEF JointTick, BridgeNext
  <2>5. CASE RelayStep
    BY <2>5 DEF RelayStep
  <2>6. QED
    BY <1>3, <2>1, <2>2, <2>3, <2>4, <2>5 DEF Together
<1>4. QED
  BY <1>1, <1>2, <1>3 DEF SysNext

\* The system behaves towards the relay as its chain does, so that what the
\* theorems above say of the relay alone holds of it beside the contract.
THEOREM RelayInSystem == SysSpec => Spec
BY RelaySteps, PTL DEF SysSpec, SysInit, Spec

\* The contract's counter is what moved since its last reset, and no 24 hours
\* see more than twice the highest limit, for any limits, users and amounts.
THEOREM DailyLimit == SysSpec => []DailyLimitKept
<1>1. SysInit => DayInv
  BY DayInit DEF SysInit
<1>2. DayInv /\ [SysNext]_sysVars => DayInv'
  BY ContractSteps, DayStep
<1>3. DayInv => DailyLimitKept
  BY DaysWithinLimit DEF DailyLimitKept, DayInv
<1>4. QED
  BY <1>1, <1>2, <1>3, PTL DEF SysSpec

(***************************************************************************)
(* What the events say was minted is in circulation or was burned again.   *)
(* Only the two parts together make events that carry an amount.           *)
(***************************************************************************)
EventsBacked ==
  /\ amountOf \in [DepositEvent -> Nat] /\ burned \in Nat
  /\ \A e \in DepositEvent : blockOf[e] = 0 \/ scope # "both" => amountOf[e] = 0
  /\ Total(amountOf, DepositEvent) <= totalSupply + burned

LEMMA BackedInit == SysInit => EventsBacked
<1> SUFFICES ASSUME SysInit PROVE EventsBacked
  OBVIOUS
<1>1. Total(amountOf, DepositEvent) = 0 /\ totalSupply = 0
  BY TotalZero DEF SysInit, BridgeInit, totalSupply
<1>2. QED
  BY <1>1 DEF EventsBacked, SysInit

\* A change of one balance changes the supply by as much.
LEMMA SupplyStep ==
  ASSUME BridgeTypeOK, NEW u \in User, balance' \in [User -> Nat],
         \A v \in User \ {u} : balance'[v] = balance[v]
  PROVE  /\ totalSupply' = totalSupply - balance[u] + balance'[u]
         /\ totalSupply \in Nat
<1>1. balance \in [User -> Nat] /\ IsFiniteSet(User)
  BY JSCBridgeAssumption DEF BridgeTypeOK
<1>2. Total(balance', User) = Total(balance, User) - balance[u] + balance'[u]
  BY <1>1, TotalUpdate
<1>3. Total(balance, User) \in Nat
  BY <1>1, TotalNat
<1>4. QED
  BY <1>2, <1>3 DEF totalSupply

LEMMA BackedStep ==
  EventsBacked /\ BridgeTypeOK /\ TypeOK /\ [SysNext]_sysVars => EventsBacked'
<1> SUFFICES ASSUME EventsBacked, BridgeTypeOK, TypeOK, [SysNext]_sysVars PROVE EventsBacked'
  OBVIOUS
<1>1. /\ amountOf \in [DepositEvent -> Nat] /\ burned \in Nat /\ IsFiniteSet(DepositEvent)
      /\ \A e \in DepositEvent : blockOf[e] = 0 \/ scope # "both" => amountOf[e] = 0
      /\ Total(amountOf, DepositEvent) <= totalSupply + burned
      /\ balance \in [User -> Nat] /\ head \in Nat /\ blockOf \in [DepositEvent -> Nat]
  BY EventsAssumption DEF EventsBacked, BridgeTypeOK, TypeOK
<1>2. totalSupply \in Nat /\ Total(amountOf, DepositEvent) \in Nat
  BY <1>1, JSCBridgeAssumption, TotalNat DEF totalSupply
<1>3. CASE \E e \in DepositEvent, u \in User, a \in Amount : scope = "both" /\ DepositTx(e, u, a)
  <2>1. PICK e \in DepositEvent, u \in User, a \in Amount : scope = "both" /\ DepositTx(e, u, a)
    BY <1>3
  <2>2. a \in Nat /\ balance' \in [User -> Nat] /\ balance'[u] = balance[u] + a
        /\ \A v \in User \ {u} : balance'[v] = balance[v]
    BY <1>1, <2>1, JSCBridgeAssumption DEF DepositTx, Deposit, Mint
  <2>3. totalSupply' = totalSupply + a
    BY <1>1, <1>2, <2>2, SupplyStep
  <2>4. /\ amountOf' \in [DepositEvent -> Nat] /\ amountOf[e] = 0 /\ amountOf'[e] = a
        /\ \A d \in DepositEvent \ {e} : amountOf'[d] = amountOf[d]
    BY <1>1, <2>1, <2>2 DEF DepositTx
  <2>5. Total(amountOf', DepositEvent) = Total(amountOf, DepositEvent) - 0 + a
    BY <1>1, <2>4, TotalUpdate
  <2>6. burned' = burned /\ scope' = scope
    BY <1>3, <2>1 DEF DepositTx, SysNext, sysVars
  <2>7. \A d \in DepositEvent : blockOf'[d] = 0 => amountOf'[d] = 0
    BY <1>1, <2>1, <2>4 DEF DepositTx, MineBlock
  <2>8. QED
    BY <1>1, <1>2, <2>1, <2>2, <2>3, <2>4, <2>5, <2>6, <2>7 DEF EventsBacked
<1>4. CASE \E u \in User, a \in Amount : scope = "both" /\ WithdrawTx(u, a)
  <2>1. PICK u \in User, a \in Amount : scope = "both" /\ WithdrawTx(u, a)
    BY <1>4
  <2>2. a \in Nat /\ balance' \in [User -> Nat] /\ balance'[u] = balance[u] - a
        /\ \A v \in User \ {u} : balance'[v] = balance[v]
    BY <1>1, <2>1, JSCBridgeAssumption DEF WithdrawTx, Withdraw, BurnFrom
  <2>3. totalSupply' = totalSupply - a /\ totalSupply' \in Int
    BY <1>1, <1>2, <2>2, SupplyStep
  <2>4. burned' = burned + a /\ amountOf' = amountOf /\ scope' = scope /\ blockOf' = blockOf
    BY <1>1, <2>1 DEF WithdrawTx, MineBlock, SysNext, sysVars
  <2>5. QED
    BY <1>1, <1>2, <2>2, <2>3, <2>4 DEF EventsBacked
<1>5. CASE ContractAlone
  <2>1. \A e \in DepositEvent : amountOf[e] = 0
    BY <1>1, <1>5 DEF ContractAlone
  <2>2. amountOf = [e \in DepositEvent |-> 0]
    BY <1>1, <2>1
  <2>3. Total(amountOf, DepositEvent) = 0
    BY <2>2, TotalZero
  <2>4. amountOf' = amountOf /\ burned' = burned /\ scope' = scope
    BY <1>5 DEF ContractAlone, SysNext, sysVars
  <2>5. balance' \in [User -> Nat]
    <3>1. CASE \E u \in User, a \in Amount : Deposit(u, a) \/ Withdraw(u, a)
      BY <1>1, <3>1, JSCBridgeAssumption DEF Deposit, Withdraw, Mint, BurnFrom
    <3>2. CASE AdminStep \/ Tick
      BY <1>1, <3>2 DEF AdminStep, Pause, Unpause, UpdateLimits, Tick
    <3>3. QED
      BY <1>5, <3>1, <3>2 DEF ContractAlone, BridgeNext
  <2>6. totalSupply' \in Nat
    BY <2>5, JSCBridgeAssumption, TotalNat DEF totalSupply
  <2>7. \A e \in DepositEvent : amountOf'[e] = 0
    BY <2>1, <2>4
  <2>8. Total(amountOf', DepositEvent) <= totalSupply' + burned'
    <3>1. Total(amountOf', DepositEvent) = 0
      BY <2>3, <2>4, Zenon
    <3>2. burned' \in Nat
      BY <1>1, <2>4
    <3>3. totalSupply' + burned' >= 0
      BY <2>6, <3>2 DEF totalSupply
    <3>4. QED
      BY <3>1, <3>3
  <2>9. QED
    BY <1>1, <2>4, <2>7, <2>8 DEF EventsBacked
<1>6. ASSUME amountOf' = amountOf, burned' = burned, balance' = balance, scope' = scope,
             \A e \in DepositEvent : blockOf'[e] = 0 => blockOf[e] = 0 \/ scope # "both"
      PROVE  EventsBacked'
  <2>1. totalSupply' = totalSupply
    BY <1>6 DEF totalSupply
  <2>2. QED
    BY <1>1, <1>6, <2>1 DEF EventsBacked
<1>7. CASE scope = "both" /\ (AdminTx \/ JointTick \/ RelayStep)
  <2>1. amountOf' = amountOf /\ burned' = burned /\ balance' = balance
    BY <1>7 DEF AdminTx, AdminStep, Pause, Unpause, UpdateLimits, JointTick, Tick, RelayStep, bridgeVars
  <2>2. scope' = scope
    BY DEF SysNext, sysVars
  <2>3. \A e \in DepositEvent : blockOf'[e] = 0 => blockOf[e] = 0
    <3>1. CASE AdminTx
      BY <1>1, <3>1 DEF AdminTx, MineBlock
    <3>2. CASE JointTick
      BY <3>2 DEF JointTick, vars, chainVars
    <3>3. CASE RelayStep
      BY <3>3 DEF RelayStep, ServiceStep, StartFromFile, StartFromHead, Poll, QueryEvents,
           QueryFails, Transfer, TransfersDone, Advance, OpenFile, WriteFile, SaveFails, Wake,
           Crash, chainVars
    <3>4. QED
      BY <1>7, <3>1, <3>2, <3>3
  <2>4. QED
    BY <1>6, <2>1, <2>2, <2>3
<1>8. CASE RelayAlone
  BY <1>6, <1>8 DEF RelayAlone, bridgeVars, SysNext, sysVars
<1>9. CASE UNCHANGED sysVars
  BY <1>6, <1>9 DEF sysVars, bridgeVars, vars, chainVars
<1>10. QED
  BY <1>3, <1>4, <1>5, <1>7, <1>8, <1>9 DEF SysNext, Together

\* JSC leaves the wallet only for JOY minted at the contract, everything at most
\* once more per crash of the relay, for any users, amounts and deposits.
THEOREM PayoutsBacked == SysSpec => []PayoutsMatchMints
<1>1. SysInit => IInv /\ DayInv /\ EventsBacked
  BY InitIInv, DayInit, BackedInit DEF SysInit
<1>2. IInv /\ DayInv /\ EventsBacked /\ [SysNext]_sysVars => (IInv /\ DayInv /\ EventsBacked)'
  BY RelaySteps, InvStep, ContractSteps, DayStep, BackedStep DEF IInv, DayInv
<1>3. IInv /\ DayInv /\ EventsBacked => PayoutsMatchMints
  <2> SUFFICES ASSUME IInv, DayInv, EventsBacked PROVE PayoutsMatchMints
    OBVIOUS
  <2> DEFINE sent == [e \in DepositEvent |-> paid[e] * amountOf[e]]
             k == 1 + crashes
  <2>1. /\ amountOf \in [DepositEvent -> Nat] /\ IsFiniteSet(DepositEvent) /\ k \in Nat
        /\ paid \in [DepositEvent -> Nat] /\ burned \in Nat
    BY EventsAssumption DEF EventsBacked, IInv, TypeOK
  <2>2. totalSupply \in Nat /\ Total(amountOf, DepositEvent) \in Nat
    BY <2>1, JSCBridgeAssumption, TotalNat DEF totalSupply, DayInv, BridgeTypeOK
  <2>3. ASSUME NEW e \in DepositEvent PROVE sent[e] \in Nat /\ sent[e] <= k * amountOf[e]
    <3>1. paid[e] <= k /\ paid[e] \in Nat /\ amountOf[e] \in Nat
      BY <2>1 DEF IInv, Payments
    <3>2. paid[e] * amountOf[e] \in Nat /\ paid[e] * amountOf[e] <= k * amountOf[e]
      <4> HIDE DEF k
      <4> QED
        BY <2>1, <3>1
    <3>3. QED
      BY <3>2
  <2>4. sent \in [DepositEvent -> Nat]
    BY <2>3
  <2>5. Total(sent, DepositEvent) <= k * Total(amountOf, DepositEvent)
        /\ Total(sent, DepositEvent) \in Nat
    <3> HIDE DEF sent, k
    <3> QED
      BY <2>1, <2>3, <2>4, TotalScaled, TotalNat
  <2>6. k * Total(amountOf, DepositEvent) <= k * (totalSupply + burned)
    <3>1. Total(amountOf, DepositEvent) <= totalSupply + burned /\ totalSupply + burned \in Nat
      BY <2>1, <2>2 DEF EventsBacked
    <3> HIDE DEF k
    <3>2. ASSUME NEW a \in Nat, NEW b \in Nat, a <= b PROVE k * a <= k * b
      BY <2>1, <3>2
    <3>3. QED
      BY <2>2, <3>1, <3>2
  <2>7. /\ k * Total(amountOf, DepositEvent) \in Nat /\ k * (totalSupply + burned) \in Nat
    <3> HIDE DEF k
    <3> QED
      BY <2>1, <2>2
  <2>8. Total(sent, DepositEvent) <= k * (totalSupply + burned)
    <3> HIDE DEF sent, k
    <3> QED
      BY <2>5, <2>6, <2>7
  <2>9. QED
    BY <2>8 DEF PayoutsMatchMints, JSCSent
<1>4. QED
  BY <1>1, <1>2, <1>3, PTL DEF SysSpec
=============================================================================
