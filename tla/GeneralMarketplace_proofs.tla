----------------------- MODULE GeneralMarketplace_proofs -----------------------
(***************************************************************************)
(* Proofs about GeneralMarketplace for any sets of users, ids, prices and  *)
(* bounds: types, and that no escrow is paid out twice.                    *)
(***************************************************************************)
EXTENDS GeneralMarketplace, Totals_proofs

\* A rating in force was counted, so that the average never divides by zero.
RatedIsCounted ==
  \A id \in Id, u \in User : userRatings[id][u] > 0 => totalRatings[id] > 0

(***************************************************************************)
(* The inductive invariant of the escrows: a purchase has at most one      *)
(* record, its number has been given out, an open one has not been paid,   *)
(* and a number not given out yet has not been paid either.                *)
(***************************************************************************)
EscrowInv ==
  /\ \A e, f \in escrows : e.purchase = f.purchase => e = f
  /\ \A e \in escrows : e.purchase <= purchases
  /\ \A e \in escrows : e.status = "open" => settled[e.purchase] = 0
  /\ \A p \in 1 .. MaxPurchases : p > purchases => settled[p] = 0

IInv == TypeOK /\ RatedIsCounted /\ EscrowInv /\ SettledOnce

-----------------------------------------------------------------------------
\* The platform's share is a part of the amount.
LEMMA FeeIsPart ==
  ASSUME NEW a \in Nat
  PROVE  PlatformFee(a) \in Nat /\ PlatformFee(a) <= a /\ a - PlatformFee(a) \in Nat
BY DEF PlatformFee

LEMMA ProductNat ==
  ASSUME NEW a \in Nat, NEW b \in Nat
  PROVE  a * b \in Nat
OBVIOUS

LEMMA QuotientNat ==
  ASSUME NEW a \in Nat, NEW b \in Nat, b > 0
  PROVE  a \div b \in Nat
OBVIOUS

LEMMA InitIInv == Init => IInv
<1> SUFFICES ASSUME Init PROVE IInv
  OBVIOUS
<1>1. Unlisted \in Listing
  BY DEF Unlisted, Listing
<1>2. QED
  BY <1>1, GeneralMarketplaceAssumption
     DEF Init, IInv, TypeOK, RatedIsCounted, EscrowInv, SettledOnce

-----------------------------------------------------------------------------
(* What each action does to the invariant.                                 *)

\* Changing a field of a listing gives a listing.
LEMMA FieldTypes ==
  ASSUME NEW l \in Listing, NEW a \in Nat, NEW b \in Nat
  PROVE  /\ [l EXCEPT !.rating = a] \in Listing
         /\ [l EXCEPT !.isActive = FALSE] \in Listing
         /\ [l EXCEPT !.basePrice = a, !.stock = b] \in Listing
         /\ [l EXCEPT !.totalSales = a, !.stock = b] \in Listing
BY DEF Listing

LEMMA CreateStep ==
  ASSUME IInv, NEW u \in User, NEW id \in Id, NEW p \in Price, NEW s \in Stock,
         NEW b \in BOOLEAN, NEW f \in Fee, CreateListing(u, id, p, s, b, f)
  PROVE  IInv'
<1> DEFINE l == [owner |-> u, isActive |-> TRUE, basePrice |-> p, totalSales |-> 0,
                 rating |-> 0, escrowed |-> b, stock |-> s]
<1>1. l \in Listing
  BY GeneralMarketplaceAssumption DEF Listing
<1>2. listing' = [listing EXCEPT ![id] = l]
  BY DEF CreateListing
<1> HIDE DEF l
<1>3. listing' \in [Id -> Listing]
  BY <1>1, <1>2 DEF IInv, TypeOK
<1>4. QED
  BY <1>3, GeneralMarketplaceAssumption
     DEF CreateListing, IInv, TypeOK, RatedIsCounted, EscrowInv, SettledOnce

LEMMA UpdateStep ==
  ASSUME IInv, NEW id \in Id, NEW p \in Price, NEW s \in Stock, UpdateListing(id, p, s)
  PROVE  IInv'
<1> DEFINE l == [listing[id] EXCEPT !.basePrice = p, !.stock = s]
<1>1. p \in Nat /\ s \in Nat /\ listing[id] \in Listing
  BY GeneralMarketplaceAssumption DEF IInv, TypeOK
<1>2. l \in Listing
  BY <1>1, FieldTypes
<1>3. listing' = [listing EXCEPT ![id] = l]
  BY DEF UpdateListing
<1> HIDE DEF l
<1>4. listing' \in [Id -> Listing]
  BY <1>2, <1>3 DEF IInv, TypeOK
<1>5. (IF s = 0 THEN 0 ELSE listing[id].totalSales + s) \in Nat
  BY <1>1 DEF Listing
<1>6. offered' \in [Id -> Nat]
  BY <1>5 DEF UpdateListing, IInv, TypeOK
<1>7. QED
  BY <1>4, <1>6 DEF UpdateListing, IInv, TypeOK, RatedIsCounted, EscrowInv, SettledOnce, joy

LEMMA DeactivateStep ==
  ASSUME IInv, NEW id \in Id, DeactivateListing(id)
  PROVE  IInv'
<1> DEFINE l == [listing[id] EXCEPT !.isActive = FALSE]
<1>1. l \in Listing
  BY FieldTypes DEF IInv, TypeOK
<1>2. listing' = [listing EXCEPT ![id] = l]
  BY DEF DeactivateListing
<1> HIDE DEF l
<1>3. listing' \in [Id -> Listing]
  BY <1>1, <1>2 DEF IInv, TypeOK
<1>4. QED
  BY <1>3
     DEF DeactivateListing, IInv, TypeOK, RatedIsCounted, EscrowInv, SettledOnce, joy, history

\* A sale never takes more than a limited stock holds.
LEMMA SellType ==
  ASSUME IInv, NEW id \in Id, NEW q \in Quantity, InStock(listing[id], q), Sell(id, q)
  PROVE  listing' \in [Id -> Listing]
<1> DEFINE a == listing[id].totalSales + q
           b == IF listing[id].stock > 0 THEN listing[id].stock - q ELSE 0
           l == [listing[id] EXCEPT !.totalSales = a, !.stock = b]
<1>1. listing[id] \in Listing /\ q \in Nat
  BY GeneralMarketplaceAssumption DEF IInv, TypeOK
<1>2. a \in Nat /\ b \in Nat
  BY <1>1 DEF Listing, InStock
<1>3. listing' = [listing EXCEPT ![id] = l]
  BY DEF Sell
<1>4. l \in Listing
  <2> HIDE DEF a, b
  <2> QED BY <1>1, <1>2, FieldTypes
<1> HIDE DEF l
<1>5. QED
  BY <1>3, <1>4 DEF IInv, TypeOK

LEMMA PurchaseEscrowedStep ==
  ASSUME IInv, NEW u \in User, NEW id \in Id, NEW q \in Quantity, NEW f \in Fee,
         PurchaseEscrowed(u, id, q, f)
  PROVE  IInv'
<1> DEFINE price == listing[id].basePrice * q
           order == [id |-> id, orderNum |-> listing[id].totalSales, buyer |-> u,
                     amount |-> price, releaseTime |-> now + escrowPeriod,
                     status |-> "open", purchase |-> purchases + 1]
<1>1. listing[id] \in Listing /\ q \in Nat /\ f \in Nat
  BY GeneralMarketplaceAssumption DEF IInv, TypeOK
<1>2. price \in Nat
  BY <1>1, ProductNat DEF Listing
<1>3. /\ escrows' = (escrows \ Orders(id)) \cup {order}
      /\ stranded' = stranded \cup {e \in Orders(id) : e.status = "open"}
      /\ held' = held + price + f
  BY DEF PurchaseEscrowed
<1>4. /\ earned' = earned + f
      /\ purchases' = purchases + 1 /\ purchases < MaxPurchases
      /\ InStock(listing[id], q) /\ Sell(id, q)
      /\ UNCHANGED <<now, escrowPeriod, userRatings, totalRatings, withdrawn, calls,
                     settled, offered>>
  BY DEF PurchaseEscrowed
<1>5. purchases + 1 \in 1 .. MaxPurchases /\ purchases' \in 0 .. MaxPurchases
  BY <1>4, GeneralMarketplaceAssumption DEF IInv, TypeOK
<1> HIDE DEF price
<1>6. order \in Escrow
  BY <1>1, <1>2, <1>5 DEF Escrow, Listing, IInv, TypeOK
<1>7. /\ order.id = id /\ order.orderNum = listing[id].totalSales
      /\ order.status = "open" /\ order.purchase = purchases + 1
  OBVIOUS
<1> HIDE DEF order
<1>8. held' \in Nat /\ earned' \in Nat
  BY <1>1, <1>2, <1>3, <1>4 DEF IInv, TypeOK
<1>9. listing' \in [Id -> Listing]
  BY <1>4, SellType
<1>10. escrows' \subseteq Escrow /\ stranded' \subseteq Escrow
  BY <1>3, <1>6 DEF Orders, IInv, TypeOK
<1>11. \A e, g \in escrows' : e.id = g.id /\ e.orderNum = g.orderNum => e = g
  BY <1>3, <1>7 DEF Orders, IInv, TypeOK
<1>12. TypeOK'
  BY <1>4, <1>5, <1>8, <1>9, <1>10, <1>11 DEF IInv, TypeOK
<1>13. RatedIsCounted'
  BY <1>4 DEF RatedIsCounted, IInv
<1>14. \A e, g \in escrows' : e.purchase = g.purchase => e = g
  <2>1. \A e \in escrows : e.purchase # order.purchase
    BY <1>5, <1>7 DEF IInv, EscrowInv, TypeOK, Escrow
  <2>2. QED
    BY <1>3, <2>1 DEF IInv, EscrowInv
<1>15. \A e \in escrows' : e.purchase <= purchases'
  BY <1>3, <1>4, <1>5, <1>7 DEF IInv, EscrowInv, TypeOK, Escrow
<1>16. \A e \in escrows' : e.status = "open" => settled'[e.purchase] = 0
  BY <1>3, <1>4, <1>5, <1>7 DEF IInv, EscrowInv, TypeOK
<1>17. /\ \A p \in 1 .. MaxPurchases : p > purchases' => settled'[p] = 0
       /\ SettledOnce'
  BY <1>4 DEF IInv, EscrowInv, SettledOnce, TypeOK
<1>18. QED
  BY <1>12, <1>13, <1>14, <1>15, <1>16, <1>17 DEF IInv, EscrowInv

LEMMA PurchaseDirectStep ==
  ASSUME IInv, NEW id \in Id, NEW q \in Quantity, NEW f \in Fee, PurchaseDirect(id, q, f)
  PROVE  IInv'
<1> DEFINE paid == listing[id].basePrice * q + f
           share == PlatformFee(paid)
<1>1. listing[id] \in Listing /\ q \in Nat /\ f \in Nat
  BY GeneralMarketplaceAssumption DEF IInv, TypeOK
<1>2. listing[id].basePrice * q \in Nat
  BY <1>1, ProductNat DEF Listing
<1>3. paid \in Nat
  BY <1>1, <1>2
<1>4. share \in Nat
  <2> HIDE DEF paid
  <2> QED BY <1>3, FeeIsPart
<1>5. /\ held' = held + share /\ earned' = earned + share
      /\ purchases' = purchases + 1 /\ purchases < MaxPurchases
      /\ InStock(listing[id], q) /\ Sell(id, q)
      /\ UNCHANGED <<now, escrowPeriod, userRatings, totalRatings, escrows, withdrawn,
                    calls, settled, offered, stranded>>
  BY DEF PurchaseDirect
<1> HIDE DEF share
<1>6. listing' \in [Id -> Listing]
  BY <1>5, SellType
<1>7. TypeOK'
  BY <1>4, <1>5, <1>6, GeneralMarketplaceAssumption DEF IInv, TypeOK
<1>8. RatedIsCounted' /\ SettledOnce'
  BY <1>5 DEF IInv, RatedIsCounted, SettledOnce
<1>9. EscrowInv'
  <2>1. \A e \in escrows : e.purchase \in 1 .. MaxPurchases
    BY DEF IInv, TypeOK, Escrow
  <2>2. QED
    BY <1>5, <2>1, GeneralMarketplaceAssumption DEF IInv, TypeOK, EscrowInv
<1>10. QED
  BY <1>7, <1>8, <1>9 DEF IInv

\* Paying out escrow e keeps the invariants of the escrows.
LEMMA SettleStep ==
  ASSUME IInv, NEW e \in escrows, e.status = "open",
         NEW s \in {"released", "refunded"}, Settle(e, s), purchases' = purchases
  PROVE  /\ escrows' \subseteq Escrow
         /\ settled' \in [1 .. MaxPurchases -> Nat]
         /\ \A a, b \in escrows' : a.id = b.id /\ a.orderNum = b.orderNum => a = b
         /\ EscrowInv' /\ SettledOnce'
<1> DEFINE x == [e EXCEPT !.status = s]
<1> USE DEF IInv, TypeOK
<1>1. e \in Escrow /\ x \in Escrow
  BY DEF Escrow
<1>2. /\ x.id = e.id /\ x.orderNum = e.orderNum /\ x.purchase = e.purchase /\ x.status = s
      /\ e.purchase \in 1 .. MaxPurchases
  BY <1>1 DEF Escrow
<1>3. escrows' = (escrows \ {e}) \cup {x} /\ settled' = [settled EXCEPT ![e.purchase] = @ + 1]
  BY DEF Settle
<1> HIDE DEF x
<1>4. escrows' \subseteq Escrow /\ settled' \in [1 .. MaxPurchases -> Nat]
  BY <1>1, <1>2, <1>3
<1>5. \A a, b \in escrows' : a.id = b.id /\ a.orderNum = b.orderNum => a = b
  BY <1>2, <1>3
<1>6. \A a, b \in escrows' : a.purchase = b.purchase => a = b
  BY <1>2, <1>3 DEF EscrowInv
<1>7. \A a \in escrows' : a.purchase <= purchases'
  BY <1>2, <1>3 DEF EscrowInv
<1>8. ASSUME NEW a \in escrows', a.status = "open" PROVE settled'[a.purchase] = 0
  <2>1. a \in escrows /\ a # e
    BY <1>2, <1>3, <1>8
  <2>2. a.purchase # e.purchase /\ a.purchase \in 1 .. MaxPurchases
    BY <2>1 DEF EscrowInv, Escrow
  <2>3. QED
    BY <1>2, <1>3, <1>8, <2>1, <2>2 DEF EscrowInv
<1>9. \A p \in 1 .. MaxPurchases : p > purchases' => settled'[p] = 0
  BY <1>2, <1>3 DEF EscrowInv
<1>10. SettledOnce'
  BY <1>2, <1>3 DEF EscrowInv, SettledOnce
<1>11. QED
  BY <1>4, <1>5, <1>6, <1>7, <1>8, <1>9, <1>10 DEF EscrowInv

LEMMA ReleaseStep ==
  ASSUME IInv, NEW e \in escrows, ReleaseEscrow(e)
  PROVE  IInv'
<1> USE DEF IInv
<1>1. e.amount \in Nat
  BY DEF TypeOK, Escrow
<1>2. PlatformFee(e.amount) \in Nat /\ e.amount - PlatformFee(e.amount) \in Nat
  BY <1>1, FeeIsPart
<1>3. held' \in Nat /\ earned' \in Nat
  BY <1>2 DEF ReleaseEscrow, TypeOK
<1>4. /\ escrows' \subseteq Escrow
      /\ settled' \in [1 .. MaxPurchases -> Nat]
      /\ \A a, b \in escrows' : a.id = b.id /\ a.orderNum = b.orderNum => a = b
      /\ EscrowInv' /\ SettledOnce'
  BY SettleStep DEF ReleaseEscrow
<1>5. QED
  BY <1>3, <1>4 DEF ReleaseEscrow, TypeOK, RatedIsCounted, shop

LEMMA RefundStep ==
  ASSUME IInv, NEW e \in escrows, RefundEscrow(e)
  PROVE  IInv'
<1> USE DEF IInv
<1>1. e.amount \in Nat
  BY DEF TypeOK, Escrow
<1>2. held' \in Nat
  BY <1>1 DEF RefundEscrow, TypeOK
<1>3. /\ escrows' \subseteq Escrow
      /\ settled' \in [1 .. MaxPurchases -> Nat]
      /\ \A a, b \in escrows' : a.id = b.id /\ a.orderNum = b.orderNum => a = b
      /\ EscrowInv' /\ SettledOnce'
  BY SettleStep DEF RefundEscrow
<1>4. QED
  BY <1>2, <1>3 DEF RefundEscrow, TypeOK, RatedIsCounted, shop

LEMMA RateStep ==
  ASSUME IInv, NEW u \in User, NEW id \in Id, NEW r \in Rating, RateListing(u, id, r)
  PROVE  IInv'
<1> DEFINE old   == userRatings[id][u]
           n     == IF old > 0 THEN totalRatings[id] ELSE totalRatings[id] + 1
           total == listing[id].rating * totalRatings[id]
<1>1. old \in Nat /\ n \in Nat /\ n > 0 /\ r \in 1 .. 100
  BY GeneralMarketplaceAssumption DEF IInv, TypeOK, RatedIsCounted
<1>2. listing[id] \in Listing /\ total \in Nat
  BY ProductNat DEF IInv, TypeOK, Listing
<1>3. /\ total >= old
      /\ listing' = [listing EXCEPT ![id].rating = (total - old + r) \div n]
      /\ totalRatings' = [totalRatings EXCEPT ![id] = n]
      /\ userRatings' = [userRatings EXCEPT ![id][u] = r]
      /\ calls' = calls + 1
      /\ UNCHANGED <<now, escrowPeriod, escrows, joy, purchases, settled, offered, earned,
                     stranded>>
  BY DEF RateListing
<1> HIDE DEF old, n, total
<1>4. total - old + r \in Nat
  BY <1>1, <1>2, <1>3
<1>5. (total - old + r) \div n \in Nat
  BY <1>1, <1>4, QuotientNat
<1>6. listing' \in [Id -> Listing]
  <2> DEFINE a == (total - old + r) \div n
             l == [listing[id] EXCEPT !.rating = a]
  <2>1. listing' = [listing EXCEPT ![id] = l]
    BY <1>3
  <2>2. a \in Nat
    BY <1>5
  <2> HIDE DEF a
  <2>3. l \in Listing
    BY <1>2, <2>2, FieldTypes
  <2> HIDE DEF l
  <2>4. QED
    BY <2>1, <2>3 DEF IInv, TypeOK
<1>7. totalRatings' \in [Id -> Nat] /\ userRatings' \in [Id -> [User -> Nat]]
  <2> DEFINE row == [userRatings[id] EXCEPT ![u] = r]
  <2>1. userRatings \in [Id -> [User -> Nat]] /\ totalRatings \in [Id -> Nat] /\ r \in Nat
    BY <1>1 DEF IInv, TypeOK
  <2>2. userRatings' = [userRatings EXCEPT ![id] = row]
    BY <1>3
  <2>3. userRatings[id] \in [User -> Nat]
    BY <2>1
  <2>4. row \in [User -> Nat]
    BY <2>1, <2>3
  <2> HIDE DEF row
  <2>5. userRatings' \in [Id -> [User -> Nat]]
    BY <2>1, <2>2, <2>4
  <2>6. totalRatings' \in [Id -> Nat]
    BY <1>1, <1>3, <2>1
  <2>7. QED
    BY <2>5, <2>6
<1>8. TypeOK'
  BY <1>3, <1>6, <1>7 DEF joy, history, IInv, TypeOK
<1>9. RatedIsCounted'
  BY <1>1, <1>3 DEF RatedIsCounted, IInv, TypeOK
<1>10. EscrowInv' /\ SettledOnce'
  BY <1>3 DEF EscrowInv, SettledOnce, history, IInv
<1>11. QED
  BY <1>8, <1>9, <1>10 DEF IInv

LEMMA OwnerStep ==
  ASSUME IInv,
         (\E p \in Period : UpdateEscrowPeriod(p)) \/ WithdrawPlatformFees \/ Tick
           \/ UNCHANGED vars
  PROVE  IInv'
<1> USE GeneralMarketplaceAssumption
        DEF IInv, TypeOK, RatedIsCounted, EscrowInv, SettledOnce, joy, history, shop
<1>1. ASSUME NEW p \in Period, UpdateEscrowPeriod(p) PROVE IInv'
  BY <1>1 DEF UpdateEscrowPeriod
<1>2. CASE WithdrawPlatformFees
  BY <1>2 DEF WithdrawPlatformFees
<1>3. CASE Tick
  BY <1>3 DEF Tick
<1>4. CASE UNCHANGED vars
  BY <1>4 DEF vars
<1>5. QED
  BY <1>1, <1>2, <1>3, <1>4

LEMMA StepIInv == IInv /\ [Next]_vars => IInv'
BY CreateStep, UpdateStep, DeactivateStep, PurchaseEscrowedStep, PurchaseDirectStep,
   ReleaseStep, RefundStep, RateStep, OwnerStep
   DEF Next, SellerStep, BuyerStep

LEMMA Invariance == Spec => []IInv
BY InitIInv, StepIInv, PTL DEF Spec

-----------------------------------------------------------------------------
\* Every variable keeps its type: no stock, balance or rating goes below zero.
THEOREM TypeCorrect == Spec => []TypeOK
<1>1. IInv => TypeOK
  BY DEF IInv
<1>2. QED
  BY <1>1, Invariance, PTL

\* releaseEscrow and refundEscrow pay out an escrow at most once between them.
THEOREM PaidOutOnce == Spec => []SettledOnce
<1>1. IInv => SettledOnce
  BY DEF IInv
<1>2. QED
  BY <1>1, Invariance, PTL

-----------------------------------------------------------------------------
(* The accounts.                                                           *)

(***************************************************************************)
(* A stranded record was open and is no record any more, so that it counts *)
(* once; then every step moves as much as it books.                        *)
(***************************************************************************)
MoneyInv ==
  /\ IsFiniteSet(escrows) /\ IsFiniteSet(stranded)
  /\ \A f \in stranded : f.purchase <= purchases /\ \A e \in escrows : e.purchase # f.purchase
  /\ Accounted

OpenPart(e) == IF e.status = "open" THEN e.amount ELSE 0

LEMMA OpenNat ==
  ASSUME NEW E, E \subseteq Escrow, IsFiniteSet(E)
  PROVE  OpenAmount(E) \in Nat
<1> DEFINE f == [e \in E |-> IF e.status = "open" THEN e.amount ELSE 0]
<1>1. f \in [E -> Nat]
  BY DEF Escrow
<1>2. OpenAmount(E) = Total(f, E)
  BY DEF OpenAmount
<1> HIDE DEF f
<1>3. QED
  BY <1>1, <1>2, TotalNat

\* What an open record more means.
LEMMA OpenAdd ==
  ASSUME NEW E, E \subseteq Escrow, IsFiniteSet(E), NEW x \in Escrow, x \notin E
  PROVE  /\ OpenAmount(E \cup {x}) = OpenAmount(E) + OpenPart(x)
         /\ OpenPart(x) \in Nat /\ OpenAmount(E) \in Nat
<1> DEFINE X == E \cup {x}
           f == [e \in E |-> IF e.status = "open" THEN e.amount ELSE 0]
           g == [e \in X |-> IF e.status = "open" THEN e.amount ELSE 0]
<1>1. g \in [X -> Nat] /\ g[x] = OpenPart(x) /\ OpenPart(x) \in Nat
  BY DEF Escrow, OpenPart
<1>2. OpenAmount(X) = Total(g, X) /\ OpenAmount(E) = Total(f, E)
  BY DEF OpenAmount
<1>3. IsFiniteSet(X) /\ x \in X /\ X \ {x} = E
  BY FS_AddElement
<1>4. Units(f, E) = Units(g, E)
  BY DEF Units
<1>5. Total(f, E) = Total(g, E)
  BY <1>4 DEF Total
<1> HIDE DEF f, g, X
<1>6. Total(g, X) = Total(g, E) + g[x]
  BY <1>1, <1>3, TotalSplit
<1>7. OpenAmount(E) \in Nat
  BY OpenNat
<1>8. QED
  BY <1>1, <1>2, <1>5, <1>6, <1>7 DEF X

\* What one less means.
LEMMA OpenRemove ==
  ASSUME NEW E, E \subseteq Escrow, IsFiniteSet(E), NEW x \in E
  PROVE  /\ OpenAmount(E) = OpenAmount(E \ {x}) + OpenPart(x)
         /\ OpenPart(x) \in Nat /\ OpenAmount(E \ {x}) \in Nat
<1>1. (E \ {x}) \cup {x} = E /\ E \ {x} \subseteq Escrow /\ x \in Escrow /\ IsFiniteSet(E \ {x})
  BY FS_RemoveElement
<1>2. QED
  BY <1>1, OpenAdd

\* Escrow e is paid out: what was open in it is not open any more.
LEMMA SettleMoney ==
  ASSUME IInv, MoneyInv, NEW e \in escrows, e.status = "open",
         NEW s \in {"released", "refunded"}, Settle(e, s), UNCHANGED <<purchases, stranded>>
  PROVE  /\ IsFiniteSet(escrows')
         /\ \A f \in stranded : \A g \in escrows' : g.purchase # f.purchase
         /\ OpenAmount(escrows) = OpenAmount(escrows') + e.amount
         /\ OpenAmount(escrows') \in Nat /\ e.amount \in Nat
<1> DEFINE x == [e EXCEPT !.status = s]
           E == escrows \ {e}
<1>1. escrows \subseteq Escrow /\ IsFiniteSet(escrows) /\ e \in Escrow
  BY DEF IInv, TypeOK, MoneyInv
<1>2. x \in Escrow /\ x.purchase = e.purchase /\ x.status = s
  BY <1>1 DEF Escrow
<1>3. escrows' = E \cup {x}
  BY DEF Settle
<1> HIDE DEF x
<1>4. x \notin E
  BY <1>2 DEF IInv, EscrowInv
<1>5. IsFiniteSet(E) /\ E \subseteq Escrow
  BY <1>1, FS_RemoveElement
<1>6. /\ OpenAmount(escrows) = OpenAmount(E) + OpenPart(e)
      /\ OpenPart(e) \in Nat /\ OpenAmount(E) \in Nat
  BY <1>1, OpenRemove
<1>7. OpenAmount(E \cup {x}) = OpenAmount(E) + OpenPart(x)
  BY <1>2, <1>4, <1>5, OpenAdd
<1>8. OpenPart(x) = 0 /\ OpenPart(e) = e.amount
  BY <1>2 DEF OpenPart
<1>9. IsFiniteSet(escrows')
  BY <1>3, <1>5, FS_AddElement
<1> HIDE DEF E
<1>10. OpenAmount(escrows') = OpenAmount(E)
  BY <1>3, <1>6, <1>7, <1>8
<1>11. \A f \in stranded : \A g \in escrows' : g.purchase # f.purchase
  BY <1>2, <1>3 DEF E, MoneyInv
<1>12. QED
  BY <1>6, <1>8, <1>9, <1>10, <1>11

LEMMA ReleaseMoney ==
  ASSUME IInv, MoneyInv, NEW e \in escrows, ReleaseEscrow(e)
  PROVE  MoneyInv'
<1> DEFINE part == PlatformFee(e.amount)
<1>1. /\ e.status = "open" /\ Settle(e, "released")
      /\ held' = held - (e.amount - part) /\ earned' = earned + part
      /\ UNCHANGED <<withdrawn, purchases, stranded>>
  BY DEF ReleaseEscrow
<1>2. /\ IsFiniteSet(escrows')
      /\ \A f \in stranded : \A g \in escrows' : g.purchase # f.purchase
      /\ OpenAmount(escrows) = OpenAmount(escrows') + e.amount
      /\ OpenAmount(escrows') \in Nat /\ e.amount \in Nat
  BY <1>1, SettleMoney
<1>3. part \in Nat
  BY <1>2, FeeIsPart
<1> HIDE DEF part
<1>4. OpenAmount(stranded) \in Nat
  BY OpenNat DEF MoneyInv, IInv, TypeOK
<1>5. Accounted'
  <2>1. /\ held + withdrawn = OpenAmount(escrows) + earned + OpenAmount(stranded)
        /\ held \in Nat /\ withdrawn \in Nat /\ earned \in Nat
    BY DEF MoneyInv, Accounted, IInv, TypeOK
  <2>2. OpenAmount(stranded') = OpenAmount(stranded)
    BY <1>1
  <2>3. QED
    BY <1>1, <1>2, <1>3, <1>4, <2>1, <2>2 DEF Accounted
<1>6. QED
  BY <1>1, <1>2, <1>5 DEF MoneyInv

LEMMA RefundMoney ==
  ASSUME IInv, MoneyInv, NEW e \in escrows, RefundEscrow(e)
  PROVE  MoneyInv'
<1>1. /\ e.status = "open" /\ Settle(e, "refunded") /\ held' = held - e.amount
      /\ UNCHANGED <<withdrawn, purchases, stranded, earned>>
  BY DEF RefundEscrow
<1>2. /\ IsFiniteSet(escrows')
      /\ \A f \in stranded : \A g \in escrows' : g.purchase # f.purchase
      /\ OpenAmount(escrows) = OpenAmount(escrows') + e.amount
      /\ OpenAmount(escrows') \in Nat /\ e.amount \in Nat
  BY <1>1, SettleMoney
<1>3. OpenAmount(stranded) \in Nat
  BY OpenNat DEF MoneyInv, IInv, TypeOK
<1>4. Accounted'
  <2>1. /\ held + withdrawn = OpenAmount(escrows) + earned + OpenAmount(stranded)
        /\ held \in Nat /\ withdrawn \in Nat /\ earned \in Nat
    BY DEF MoneyInv, Accounted, IInv, TypeOK
  <2>2. OpenAmount(stranded') = OpenAmount(stranded)
    BY <1>1
  <2>3. QED
    BY <1>1, <1>2, <1>3, <2>1, <2>2 DEF Accounted
<1>5. QED
  BY <1>1, <1>2, <1>4 DEF MoneyInv

\* An order that takes the number of an open one strands it.
LEMMA PurchaseEscrowedMoney ==
  ASSUME IInv, MoneyInv, NEW u \in User, NEW id \in Id, NEW q \in Quantity, NEW f \in Fee,
         PurchaseEscrowed(u, id, q, f)
  PROVE  MoneyInv'
<1> DEFINE price == listing[id].basePrice * q
           order == [id |-> id, orderNum |-> listing[id].totalSales, buyer |-> u,
                     amount |-> price, releaseTime |-> now + escrowPeriod,
                     status |-> "open", purchase |-> purchases + 1]
           lost == {e \in Orders(id) : e.status = "open"}
           E == escrows \ Orders(id)
<1>1. /\ escrows' = E \cup {order} /\ stranded' = stranded \cup lost
      /\ held' = held + price + f /\ earned' = earned + f /\ withdrawn' = withdrawn
      /\ purchases' = purchases + 1 /\ purchases < MaxPurchases
  BY DEF PurchaseEscrowed
<1>2. price \in Nat /\ f \in Nat
  BY ProductNat, GeneralMarketplaceAssumption DEF IInv, TypeOK, Listing
<1> HIDE DEF price
<1>3. purchases + 1 \in 1 .. MaxPurchases /\ purchases \in Nat
  BY <1>1, GeneralMarketplaceAssumption DEF IInv, TypeOK
<1>4. listing[id] \in Listing
  BY DEF IInv, TypeOK
<1>5. order \in Escrow
  BY <1>2, <1>3, <1>4 DEF Escrow, Listing, IInv, TypeOK
<1>6. order.status = "open" /\ order.purchase = purchases + 1 /\ order.amount = price
  OBVIOUS
<1>7. OpenPart(order) = price
  BY <1>6 DEF OpenPart
<1> HIDE DEF order
<1>8. /\ escrows \subseteq Escrow /\ IsFiniteSet(escrows) /\ E \subseteq escrows
      /\ stranded \subseteq Escrow /\ IsFiniteSet(stranded)
      /\ \A e \in Escrow : e.purchase \in Nat
  BY DEF IInv, TypeOK, MoneyInv, Escrow
<1>9. IsFiniteSet(E)
  BY <1>8, FS_Subset
<1>10. \A e \in escrows : e.purchase <= purchases
  BY DEF IInv, EscrowInv
<1>11. order \notin E
  BY <1>3, <1>6, <1>8, <1>10
<1>12. OpenAmount(escrows') = OpenAmount(E) + price /\ OpenAmount(E) \in Nat
  BY <1>1, <1>5, <1>7, <1>8, <1>9, <1>11, OpenAdd
<1>13. /\ OpenAmount(escrows) + OpenAmount(stranded)
            = OpenAmount(E) + OpenAmount(stranded')
       /\ OpenAmount(stranded') \in Nat /\ IsFiniteSet(stranded')
  <2>1. CASE Orders(id) = {}
    <3>1. E = escrows /\ stranded' = stranded
      BY <1>1, <2>1
    <3>2. QED
      BY <1>8, <3>1, OpenNat
  <2>2. CASE Orders(id) # {}
    <3>1. PICK o \in Orders(id) : TRUE
      BY <2>2
    <3>2. Orders(id) = {o} /\ o \in escrows /\ E = escrows \ {o}
      BY <3>1 DEF Orders, IInv, TypeOK
    <3>3. /\ OpenAmount(escrows) = OpenAmount(E) + OpenPart(o)
          /\ OpenPart(o) \in Nat /\ OpenAmount(E) \in Nat
      BY <1>8, <3>2, OpenRemove
    <3>4. o \notin stranded /\ OpenAmount(stranded) \in Nat
      BY <1>8, <3>2, OpenNat DEF MoneyInv
    <3>5. CASE o.status = "open"
      <4>1. stranded' = stranded \cup {o} /\ o \in Escrow
        BY <1>1, <1>8, <3>2, <3>5
      <4>2. OpenAmount(stranded') = OpenAmount(stranded) + OpenPart(o)
        BY <1>8, <3>4, <4>1, OpenAdd
      <4>3. IsFiniteSet(stranded')
        BY <1>8, <4>1, FS_AddElement
      <4>4. QED
        BY <3>3, <3>4, <4>2, <4>3
    <3>6. CASE o.status # "open"
      <4>1. stranded' = stranded /\ OpenPart(o) = 0
        BY <1>1, <3>2, <3>6 DEF OpenPart
      <4>2. QED
        BY <1>8, <3>3, <3>4, <4>1
    <3>7. QED
      BY <3>5, <3>6
  <2>3. QED
    BY <2>1, <2>2
<1>14. IsFiniteSet(escrows')
  BY <1>1, <1>9, FS_AddElement
<1>15. ASSUME NEW g \in stranded'
       PROVE  g.purchase <= purchases' /\ \A e \in escrows' : e.purchase # g.purchase
  <2>1. CASE g \in stranded
    BY <1>1, <1>3, <1>6, <1>8, <2>1 DEF MoneyInv
  <2>2. CASE g \in lost
    <3>1. g \in escrows /\ g \notin E
      BY <2>2 DEF Orders
    <3>2. \A e \in E : e.purchase # g.purchase
      BY <3>1 DEF IInv, EscrowInv
    <3>3. g.purchase \in Nat /\ g.purchase <= purchases
      BY <1>8, <1>10, <3>1
    <3> HIDE DEF E, lost
    <3>4. QED
      BY <1>1, <1>3, <1>6, <3>2, <3>3
  <2>3. QED
    BY <1>1, <2>1, <2>2
<1> HIDE DEF E, lost
<1>16. Accounted'
  <2>1. OpenAmount(escrows) \in Nat /\ OpenAmount(stranded) \in Nat
    BY <1>8, OpenNat
  <2>2. /\ held + withdrawn = OpenAmount(escrows) + earned + OpenAmount(stranded)
        /\ held \in Nat /\ withdrawn \in Nat /\ earned \in Nat
    BY DEF MoneyInv, Accounted, IInv, TypeOK
  <2>3. QED
    BY <1>1, <1>2, <1>12, <1>13, <2>1, <2>2 DEF Accounted
<1>17. QED
  BY <1>13, <1>14, <1>15, <1>16 DEF MoneyInv

LEMMA MoneyNext ==
  ASSUME IInv, MoneyInv, [Next]_vars
  PROVE  MoneyInv'
<1>1. /\ OpenAmount(escrows) \in Nat /\ OpenAmount(stranded) \in Nat
      /\ held \in Nat /\ withdrawn \in Nat /\ earned \in Nat
      /\ held + withdrawn = OpenAmount(escrows) + earned + OpenAmount(stranded)
  BY OpenNat DEF IInv, TypeOK, MoneyInv, Accounted
<1>2. ASSUME NEW fee \in Nat, held' = held + fee, earned' = earned + fee,
             UNCHANGED <<escrows, stranded, withdrawn>>, purchases' \in {purchases, purchases + 1}
      PROVE  MoneyInv'
  <2>1. Accounted'
    BY <1>1, <1>2 DEF Accounted
  <2>2. \A f \in stranded : f.purchase \in Nat /\ f.purchase <= purchases /\ purchases \in Nat
    BY DEF IInv, TypeOK, Escrow, MoneyInv
  <2>3. \A f \in stranded : f.purchase <= purchases'
    BY <1>2, <2>2
  <2>4. QED
    BY <1>2, <2>1, <2>3 DEF MoneyInv
<1>3. ASSUME UNCHANGED <<escrows, stranded, purchases, earned>>, held' + withdrawn' = held + withdrawn
      PROVE  MoneyInv'
  BY <1>3 DEF MoneyInv, Accounted
<1>4. ASSUME NEW u \in User, NEW id \in Id, NEW p \in Price, NEW s \in Stock,
             NEW b \in BOOLEAN, NEW f \in Fee, CreateListing(u, id, p, s, b, f)
      PROVE  MoneyInv'
  <2>1. f \in Nat
    BY GeneralMarketplaceAssumption
  <2>2. QED
    BY <1>2, <1>4, <2>1 DEF CreateListing
<1>5. ASSUME NEW id \in Id, NEW q \in Quantity, NEW f \in Fee, PurchaseDirect(id, q, f)
      PROVE  MoneyInv'
  <2> DEFINE paid == listing[id].basePrice * q + f
             share == PlatformFee(paid)
  <2>1. listing[id].basePrice * q \in Nat /\ f \in Nat
    BY ProductNat, GeneralMarketplaceAssumption DEF IInv, TypeOK, Listing
  <2>2. paid \in Nat
    BY <2>1
  <2>3. share \in Nat
    <3> HIDE DEF paid
    <3> QED BY <2>2, FeeIsPart
  <2>4. /\ held' = held + share /\ earned' = earned + share /\ purchases' = purchases + 1
        /\ UNCHANGED <<escrows, stranded, withdrawn>>
    BY <1>5 DEF PurchaseDirect
  <2> HIDE DEF share
  <2>5. QED
    BY <1>2, <2>3, <2>4
<1>6. ASSUME NEW id \in Id,
             \/ \E p \in Price, s \in Stock : UpdateListing(id, p, s)
             \/ DeactivateListing(id)
             \/ \E u \in User, r \in Rating : RateListing(u, id, r)
      PROVE  MoneyInv'
  BY <1>3, <1>6 DEF UpdateListing, DeactivateListing, RateListing, joy, history
<1>7. CASE WithdrawPlatformFees
  <2>1. held' + withdrawn' = held + withdrawn
    BY <1>1, <1>7 DEF WithdrawPlatformFees
  <2>2. QED
    BY <1>3, <1>7, <2>1 DEF WithdrawPlatformFees, history
<1>8. CASE Tick \/ (\E p \in Period : UpdateEscrowPeriod(p)) \/ UNCHANGED vars
  BY <1>3, <1>8 DEF Tick, UpdateEscrowPeriod, vars, joy, history
<1>9. QED
  BY <1>4, <1>5, <1>6, <1>7, <1>8, PurchaseEscrowedMoney, ReleaseMoney, RefundMoney
     DEF Next, SellerStep, BuyerStep

\* Every JOY that came in is in an open escrow, was a fee or is stranded: no payout
\* takes more than its own escrow put in (Accounted).
THEOREM EveryJoyAccounted == Spec => []Accounted
<1>1. Init => MoneyInv
  <2> SUFFICES ASSUME Init PROVE MoneyInv
    OBVIOUS
  <2>1. OpenAmount({}) = 0
    <3>1. Units([e \in {} |-> IF e.status = "open" THEN e.amount ELSE 0], {}) = {}
      BY DEF Units
    <3>2. QED
      BY <3>1, FS_EmptySet DEF OpenAmount, Total
  <2>2. QED
    BY <2>1, FS_EmptySet DEF Init, MoneyInv, Accounted
<1>2. MoneyInv => Accounted
  BY DEF MoneyInv
<1>3. QED
  BY <1>1, <1>2, MoneyNext, Invariance, PTL DEF Spec


-----------------------------------------------------------------------------
(* Ratings.                                                                *)

\* A quotient that is multiplied again is no more than it was taken of.
LEMMA RoundedDown ==
  ASSUME NEW a \in Nat, NEW n \in Nat, n > 0
  PROVE  (a \div n) * n <= a
OBVIOUS

\* A rating of u more, or another one, on listing id.
LEMMA RateCounts ==
  ASSUME IInv, RatingsCounted, NEW u \in User, NEW id \in Id, NEW r \in Rating,
         RateListing(u, id, r)
  PROVE  RatingsCounted'
<1> DEFINE old   == userRatings[id][u]
           n     == IF old > 0 THEN totalRatings[id] ELSE totalRatings[id] + 1
           total == listing[id].rating * totalRatings[id]
           row   == [userRatings[id] EXCEPT ![u] = r]
           a     == (total - old + r) \div n
<1>1. /\ userRatings[id] \in [User -> Nat] /\ old \in Nat /\ r \in Nat /\ r > 0
      /\ n \in Nat /\ n > 0 /\ totalRatings[id] \in Nat
  BY GeneralMarketplaceAssumption DEF IInv, TypeOK, RatedIsCounted
<1>2. total \in Nat
  BY ProductNat DEF IInv, TypeOK, Listing
<1>3. /\ total >= old
      /\ listing' = [listing EXCEPT ![id].rating = a]
      /\ totalRatings' = [totalRatings EXCEPT ![id] = n]
      /\ userRatings' = [userRatings EXCEPT ![id] = row]
  BY DEF RateListing
<1>4. row \in [User -> Nat] /\ row[u] = r /\ \A v \in User \ {u} : row[v] = userRatings[id][v]
  BY <1>1
<1>5. total <= Total(userRatings[id], User)
  BY DEF RatingsCounted, RatingNotInflated
<1>6. totalRatings[id] = Cardinality({v \in User : userRatings[id][v] > 0})
  BY DEF RatingsCounted, RatersCounted
<1>7. Total(row, User) = Total(userRatings[id], User) - old + r
      /\ Total(userRatings[id], User) \in Nat
  <2>1. IsFiniteSet(User)
    BY GeneralMarketplaceAssumption
  <2> DEFINE f == userRatings[id]
  <2> HIDE DEF row, f
  <2>2. /\ Total(f, User) = Total(f, User \ {u}) + f[u] /\ Total(f, User \ {u}) \in Nat
    BY <1>1, <2>1, TotalSplit DEF f
  <2>3. Total(row, User) = Total(row, User \ {u}) + row[u]
    BY <1>4, <2>1, TotalSplit
  <2>4. Units(f, User \ {u}) = Units(row, User \ {u})
    BY <1>4 DEF Units, f
  <2>5. Total(f, User \ {u}) = Total(row, User \ {u})
    BY <2>4 DEF Total
  <2>6. QED
    BY <1>1, <1>4, <2>2, <2>3, <2>5 DEF f
<1>8. n = Cardinality({v \in User : row[v] > 0})
  <2> DEFINE raters == {v \in User : userRatings[id][v] > 0}
  <2>1. IsFiniteSet(raters)
    BY GeneralMarketplaceAssumption, FS_Subset
  <2>2. {v \in User : row[v] > 0} = raters \cup {u}
    BY <1>1, <1>4
  <2>3. CASE old > 0
    <3>1. raters \cup {u} = raters
      BY <2>3
    <3>2. QED
      BY <1>6, <2>2, <2>3, <3>1
  <2>4. CASE ~(old > 0)
    <3>1. u \notin raters
      BY <2>4
    <3>2. Cardinality(raters \cup {u}) = Cardinality(raters) + 1
      BY <2>1, <3>1, FS_AddElement
    <3>3. QED
      BY <1>6, <2>2, <2>4, <3>2
  <2>5. QED
    BY <2>3, <2>4
<1> HIDE DEF old, n, total, row
<1>9. total - old + r \in Nat
  BY <1>1, <1>2, <1>3
<1>10. a * n <= total - old + r
  BY <1>1, <1>9, RoundedDown
<1> HIDE DEF a
<1>11. ASSUME NEW k \in Id
       PROVE  /\ listing'[k].rating = IF k = id THEN a ELSE listing[k].rating
              /\ totalRatings'[k] = IF k = id THEN n ELSE totalRatings[k]
              /\ userRatings'[k] = IF k = id THEN row ELSE userRatings[k]
  <2>1. "rating" \in DOMAIN listing[id]
    BY DEF IInv, TypeOK, Listing
  <2>2. QED
    BY <1>3, <2>1 DEF IInv, TypeOK
<1>12. a \in Int
  BY <1>1, <1>9 DEF a
<1>13. a * n <= Total(row, User)
  <2>1. a * n \in Int
    BY <1>1, <1>12
  <2> DEFINE product == a * n
  <2> HIDE DEF product
  <2>2. product \in Int /\ product <= total - old + r
    BY <1>10, <2>1 DEF product
  <2>3. product <= Total(row, User)
    BY <1>1, <1>2, <1>3, <1>5, <1>7, <2>2 DEF old
  <2>4. QED
    BY <2>3 DEF product
<1>14. RatingNotInflated'
  BY <1>11, <1>13 DEF RatingsCounted, RatingNotInflated
<1>15. RatersCounted'
  BY <1>8, <1>11 DEF RatingsCounted, RatersCounted
<1>16. QED
  BY <1>14, <1>15 DEF RatingsCounted

\* Steps that leave the ratings alone: a listing keeps its average or starts anew.
LEMMA RatingsStay ==
  ASSUME IInv, RatingsCounted, UNCHANGED <<userRatings, totalRatings>>,
         \A id \in Id : listing'[id].rating \in {0, listing[id].rating}
  PROVE  RatingsCounted'
<1>1. ASSUME NEW id \in Id PROVE listing'[id].rating * totalRatings[id] <= Total(userRatings[id], User)
  <2>1. userRatings[id] \in [User -> Nat] /\ totalRatings[id] \in Nat
    BY DEF IInv, TypeOK
  <2>2. Total(userRatings[id], User) \in Nat
    BY <2>1, GeneralMarketplaceAssumption, TotalNat
  <2>3. CASE listing'[id].rating = listing[id].rating
    BY <2>3 DEF RatingsCounted, RatingNotInflated
  <2>4. CASE listing'[id].rating = 0
    <3>1. 0 * totalRatings[id] = 0
      BY <2>1
    <3>2. QED
      BY <2>2, <2>4, <3>1
  <2>5. QED
    BY <2>3, <2>4
<1>2. QED
  BY <1>1 DEF RatingsCounted, RatingNotInflated, RatersCounted

LEMMA RatingsNext ==
  ASSUME IInv, RatingsCounted, [Next]_vars
  PROVE  RatingsCounted'
<1>1. ASSUME NEW id \in Id, NEW l, listing' = [listing EXCEPT ![id] = l],
             l.rating \in {0, listing[id].rating}, UNCHANGED <<userRatings, totalRatings>>
      PROVE  RatingsCounted'
  <2>1. \A k \in Id : listing'[k] = IF k = id THEN l ELSE listing[k]
    BY <1>1 DEF IInv, TypeOK
  <2>2. QED
    BY <1>1, <2>1, RatingsStay
<1>2. \A id \in Id : DOMAIN listing[id] = {"owner", "isActive", "basePrice", "totalSales",
                                           "rating", "escrowed", "stock"}
  BY DEF IInv, TypeOK, Listing
<1>3. ASSUME NEW u \in User, NEW id \in Id, NEW p \in Price, NEW s \in Stock,
             NEW b \in BOOLEAN, NEW f \in Fee, CreateListing(u, id, p, s, b, f)
      PROVE  RatingsCounted'
  <2> DEFINE l == [owner |-> u, isActive |-> TRUE, basePrice |-> p, totalSales |-> 0,
                   rating |-> 0, escrowed |-> b, stock |-> s]
  <2>1. listing' = [listing EXCEPT ![id] = l] /\ l.rating = 0
        /\ UNCHANGED <<userRatings, totalRatings>>
    BY <1>3 DEF CreateListing
  <2> HIDE DEF l
  <2>2. QED
    BY <1>1, <2>1
<1>4. ASSUME NEW id \in Id, NEW p \in Price, NEW s \in Stock, UpdateListing(id, p, s)
      PROVE  RatingsCounted'
  <2> DEFINE l == [listing[id] EXCEPT !.basePrice = p, !.stock = s]
  <2>1. listing' = [listing EXCEPT ![id] = l] /\ UNCHANGED <<userRatings, totalRatings>>
    BY <1>4 DEF UpdateListing
  <2>2. l.rating = listing[id].rating
    BY <1>2
  <2> HIDE DEF l
  <2>3. QED
    BY <1>1, <2>1, <2>2
<1>5. ASSUME NEW id \in Id, DeactivateListing(id) PROVE RatingsCounted'
  <2> DEFINE l == [listing[id] EXCEPT !.isActive = FALSE]
  <2>1. listing' = [listing EXCEPT ![id] = l] /\ UNCHANGED <<userRatings, totalRatings>>
    BY <1>5 DEF DeactivateListing
  <2>2. l.rating = listing[id].rating
    BY <1>2
  <2> HIDE DEF l
  <2>3. QED
    BY <1>1, <2>1, <2>2
<1>6. ASSUME NEW id \in Id, NEW q \in Quantity, Sell(id, q), UNCHANGED <<userRatings, totalRatings>>
      PROVE  RatingsCounted'
  <2> DEFINE sales == listing[id].totalSales + q
             left == IF listing[id].stock > 0 THEN listing[id].stock - q ELSE 0
             l == [listing[id] EXCEPT !.totalSales = sales, !.stock = left]
  <2>1. listing' = [listing EXCEPT ![id] = l]
    BY <1>6 DEF Sell
  <2>2. l.rating = listing[id].rating
    <3> HIDE DEF sales, left
    <3> QED BY <1>2
  <2> HIDE DEF l
  <2>3. QED
    BY <1>1, <1>6, <2>1, <2>2
<1>7. CASE UNCHANGED shop
  BY <1>7, RatingsStay DEF shop
<1>8. CASE Next
  <2>1. ASSUME NEW e \in escrows, ReleaseEscrow(e) \/ RefundEscrow(e) PROVE UNCHANGED shop
    BY <2>1 DEF ReleaseEscrow, RefundEscrow
  <2>2. ASSUME (\E p \in Period : UpdateEscrowPeriod(p)) \/ WithdrawPlatformFees \/ Tick
        PROVE  UNCHANGED shop
    BY <2>2 DEF UpdateEscrowPeriod, WithdrawPlatformFees, Tick
  <2>3. ASSUME NEW id \in Id, NEW q \in Quantity,
               \/ \E u \in User, f \in Fee : PurchaseEscrowed(u, id, q, f)
               \/ \E f \in Fee : PurchaseDirect(id, q, f)
        PROVE  RatingsCounted'
    BY <1>6, <2>3 DEF PurchaseEscrowed, PurchaseDirect
  <2>4. QED
    BY <1>3, <1>4, <1>5, <1>7, <1>8, <2>1, <2>2, <2>3, RateCounts DEF Next, SellerStep, BuyerStep
<1>9. QED
  BY <1>7, <1>8 DEF vars

\* rateListing neither inflates an average nor counts anybody twice, over ratings that
\* change and listings that are created again (RatingsCounted).
THEOREM RatingsAreFair == Spec => []RatingsCounted
<1>1. Init => RatingsCounted
  <2> SUFFICES ASSUME Init, NEW id \in Id
               PROVE  /\ listing[id].rating * totalRatings[id] <= Total(userRatings[id], User)
                      /\ totalRatings[id] = Cardinality({u \in User : userRatings[id][u] > 0})
    BY DEF RatingsCounted, RatingNotInflated, RatersCounted
  <2>1. /\ listing[id].rating = 0 /\ totalRatings[id] = 0
        /\ userRatings[id] = [u \in User |-> 0]
    BY DEF Init, Unlisted
  <2>2. userRatings[id] \in [User -> Nat]
    BY <2>1
  <2>3. Total(userRatings[id], User) \in Nat
    BY <2>2, GeneralMarketplaceAssumption, TotalNat
  <2>4. {u \in User : userRatings[id][u] > 0} = {}
    BY <2>1
  <2>5. QED
    BY <2>1, <2>3, <2>4, FS_EmptySet
<1>2. QED
  BY <1>1, RatingsNext, Invariance, PTL DEF Spec

=============================================================================
