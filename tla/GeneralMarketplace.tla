-------------------------- MODULE GeneralMarketplace --------------------------
(***************************************************************************)
(* The contract contracts/GeneralMarketplace.sol: listings of goods, their *)
(* stock and ratings, and the escrow that holds the price of a physical    *)
(* good until the buyer releases it or the period ends.  Calls that revert *)
(* change nothing and are not actions; buyers have the JOY they spend.     *)
(***************************************************************************)
EXTENDS Integers, FiniteSets, Totals

CONSTANTS
  User,           \* accounts that sell, buy and rate
  Id,             \* listing ids
  Price, Quantity, Stock, Period, Rating,   \* arguments calls are made with
  Fee,            \* what the fee contract may answer
  MaxTime, MaxCalls, MaxPurchases        \* bounds on the clock and on calls

ASSUME GeneralMarketplaceAssumption ==
  /\ Price \subseteq Nat /\ Quantity \subseteq Nat /\ Stock \subseteq Nat
  /\ Period \subseteq Nat /\ Fee \subseteq Nat
  /\ Rating \subseteq 1 .. 100
  /\ IsFiniteSet(User)
  /\ MaxTime \in Nat /\ MaxCalls \in Nat /\ MaxPurchases \in Nat

VARIABLES
  now, escrowPeriod,
  listing,        \* listings: owner, basePrice, isActive, totalSales, rating, stock, and
                  \* whether a sale is escrowed (escrowEnabled on a physical good)
  userRatings, totalRatings,
  escrows,        \* set of escrow records, at most one per listing and order number
  held,           \* JOY of the contract
  withdrawn,      \* JOY the platform owner has taken out
  calls,          \* history: number of createListing and rateListing calls
  purchases,      \* history: number of purchases
  settled,        \* history: times each purchase was paid out of escrow
  offered,        \* history: sales the stock of a listing allows, 0 for no limit
  earned,         \* history: fees charged
  stranded        \* history: open escrow records overwritten by a later order

shop    == <<listing, userRatings, totalRatings>>
joy     == <<held, withdrawn>>
history == <<calls, purchases, settled, offered, earned, stranded>>
vars    == <<now, escrowPeriod, shop, escrows, joy, history>>

Nobody == "nobody"

Unlisted == [owner |-> Nobody, isActive |-> FALSE, basePrice |-> 0, totalSales |-> 0,
             rating |-> 0, escrowed |-> FALSE, stock |-> 0]

Listing == [owner: User \cup {Nobody}, isActive: BOOLEAN, basePrice: Nat, totalSales: Nat,
            rating: Nat, escrowed: BOOLEAN, stock: Nat]

Escrow == [id: Id, orderNum: Nat, buyer: User, amount: Nat, releaseTime: Nat,
           status: {"open", "released", "refunded"},
           purchase: 1 .. MaxPurchases]

TypeOK ==
  /\ now \in Nat /\ escrowPeriod \in Nat
  /\ listing \in [Id -> Listing]
  /\ userRatings \in [Id -> [User -> Nat]]
  /\ totalRatings \in [Id -> Nat]
  /\ escrows \subseteq Escrow /\ stranded \subseteq Escrow
  /\ \A e, f \in escrows : e.id = f.id /\ e.orderNum = f.orderNum => e = f
  /\ held \in Nat /\ withdrawn \in Nat /\ calls \in Nat /\ earned \in Nat
  /\ purchases \in 0 .. MaxPurchases
  /\ settled \in [1 .. MaxPurchases -> Nat]
  /\ offered \in [Id -> Nat]

Init ==
  /\ now = 1 /\ escrowPeriod \in Period
  /\ listing = [id \in Id |-> Unlisted]
  /\ userRatings = [id \in Id |-> [u \in User |-> 0]]
  /\ totalRatings = [id \in Id |-> 0]
  /\ escrows = {}
  /\ held = 0 /\ withdrawn = 0
  /\ calls = 0 /\ purchases = 0 /\ earned = 0 /\ stranded = {}
  /\ settled = [p \in 1 .. MaxPurchases |-> 0]
  /\ offered = [id \in Id |-> 0]

-----------------------------------------------------------------------------
(* Listings.                                                               *)

\* An id is free again once its listing is inactive; ratings and escrows of the
\* id stay.
CreateListing(u, id, price, stock, escrowed, fee) ==
  /\ calls < MaxCalls
  /\ ~listing[id].isActive
  /\ listing' = [listing EXCEPT ![id] =
       [owner |-> u, isActive |-> TRUE, basePrice |-> price, totalSales |-> 0,
        rating |-> 0, escrowed |-> escrowed, stock |-> stock]]
  /\ held' = held + fee
  /\ calls' = calls + 1
  /\ earned' = earned + fee
  /\ offered' = [offered EXCEPT ![id] = stock]
  /\ UNCHANGED <<now, escrowPeriod, userRatings, totalRatings, escrows, withdrawn,
                 purchases, settled, stranded>>

UpdateListing(id, price, stock) ==
  /\ listing[id].owner # Nobody
  /\ listing' = [listing EXCEPT ![id].basePrice = price, ![id].stock = stock]
  /\ offered' = [offered EXCEPT ![id] =
                   IF stock = 0 THEN 0 ELSE listing[id].totalSales + stock]
  /\ UNCHANGED <<now, escrowPeriod, userRatings, totalRatings, escrows, joy, calls,
                 purchases, settled, earned, stranded>>

DeactivateListing(id) ==
  /\ listing' = [listing EXCEPT ![id].isActive = FALSE]
  /\ UNCHANGED <<now, escrowPeriod, userRatings, totalRatings, escrows, joy, history>>

-----------------------------------------------------------------------------
(* Sales.                                                                  *)

PlatformFee(amount) == (amount * 5) \div 100

InStock(l, quantity) == l.stock = 0 \/ l.stock >= quantity

\* Effect of a sale on the listing.
Sell(id, quantity) ==
  listing' = [listing EXCEPT
    ![id].totalSales = @ + quantity,
    ![id].stock = IF @ > 0 THEN @ - quantity ELSE 0]

\* The order number of a sale is the number of pieces sold before it.
Orders(id) == {e \in escrows : e.id = id /\ e.orderNum = listing[id].totalSales}

PurchaseEscrowed(u, id, quantity, fee) ==
  LET l     == listing[id]
      price == l.basePrice * quantity
      order == [id |-> id, orderNum |-> l.totalSales, buyer |-> u, amount |-> price,
                releaseTime |-> now + escrowPeriod, status |-> "open",
                purchase |-> purchases + 1]
  IN /\ purchases < MaxPurchases
     /\ l.isActive /\ l.escrowed /\ InStock(l, quantity)
     /\ escrows' = (escrows \ Orders(id)) \cup {order}
     /\ held' = held + price + fee
     /\ earned' = earned + fee
     /\ stranded' = stranded \cup {e \in Orders(id) : e.status = "open"}
     /\ Sell(id, quantity)
     /\ purchases' = purchases + 1
     /\ UNCHANGED <<now, escrowPeriod, userRatings, totalRatings, withdrawn, calls,
                    settled, offered>>

\* All but the platform's share goes to the owner of the listing at once.
PurchaseDirect(id, quantity, fee) ==
  LET l     == listing[id]
      share == PlatformFee(l.basePrice * quantity + fee)
  IN /\ purchases < MaxPurchases
     /\ l.isActive /\ ~l.escrowed /\ InStock(l, quantity)
     /\ held' = held + share
     /\ earned' = earned + share
     /\ Sell(id, quantity)
     /\ purchases' = purchases + 1
     /\ UNCHANGED <<now, escrowPeriod, userRatings, totalRatings, escrows, withdrawn,
                    calls, settled, offered, stranded>>

Settle(e, status) ==
  /\ escrows' = (escrows \ {e}) \cup {[e EXCEPT !.status = status]}
  /\ settled' = [settled EXCEPT ![e.purchase] = @ + 1]

\* Mutant of ReleaseEscrow: only an earlier release is looked at.
ReleaseEscrow_Refunded(e) ==
  LET revenue == e.amount - PlatformFee(e.amount)
  IN /\ e.status # "released"
     /\ held >= revenue
     /\ Settle(e, "released")
     /\ held' = held - revenue
     /\ earned' = earned + PlatformFee(e.amount)
     /\ UNCHANGED <<now, escrowPeriod, shop, withdrawn, calls, purchases, offered,
                    stranded>>

\* Mutant of ReleaseEscrow: the fee is computed and the whole amount paid.
ReleaseEscrow_PaysAll(e) ==
  /\ e.status = "open"
  /\ held >= e.amount
  /\ Settle(e, "released")
  /\ held' = held - e.amount
  /\ earned' = earned + PlatformFee(e.amount)
  /\ UNCHANGED <<now, escrowPeriod, shop, withdrawn, calls, purchases, offered, stranded>>

\* The buyer lets the price go to the owner the listing has now.
ReleaseEscrow(e) ==
  LET revenue == e.amount - PlatformFee(e.amount)
  IN /\ e.status = "open"
     /\ held >= revenue
     /\ Settle(e, "released")
     /\ held' = held - revenue
     /\ earned' = earned + PlatformFee(e.amount)
     /\ UNCHANGED <<now, escrowPeriod, shop, withdrawn, calls, purchases, offered,
                    stranded>>

\* Anyone may call it.
RefundEscrow(e) ==
  /\ now > e.releaseTime
  /\ e.status = "open"
  /\ held >= e.amount
  /\ Settle(e, "refunded")
  /\ held' = held - e.amount
  /\ UNCHANGED <<now, escrowPeriod, shop, withdrawn, calls, purchases, offered, earned,
                 stranded>>

-----------------------------------------------------------------------------
(* Ratings.                                                                *)

\* Mutant of RateListing: a changed rating is added to the old one.
RateListing_KeepsOld(u, id, rating) ==
  LET old   == userRatings[id][u]
      n     == IF old > 0 THEN totalRatings[id] ELSE totalRatings[id] + 1
      total == listing[id].rating * totalRatings[id]
  IN /\ calls < MaxCalls
     /\ listing[id].isActive
     /\ total >= old
     /\ listing' = [listing EXCEPT ![id].rating = (total + rating) \div n]
     /\ totalRatings' = [totalRatings EXCEPT ![id] = n]
     /\ userRatings' = [userRatings EXCEPT ![id][u] = rating]
     /\ calls' = calls + 1
     /\ UNCHANGED <<now, escrowPeriod, escrows, joy, purchases, settled, offered, earned,
                    stranded>>

\* A running average in integers; a subtraction below zero reverts.
RateListing(u, id, rating) ==
  LET old   == userRatings[id][u]
      n     == IF old > 0 THEN totalRatings[id] ELSE totalRatings[id] + 1
      total == listing[id].rating * totalRatings[id]
  IN /\ calls < MaxCalls
     /\ listing[id].isActive
     /\ total >= old
     /\ listing' = [listing EXCEPT ![id].rating = (total - old + rating) \div n]
     /\ totalRatings' = [totalRatings EXCEPT ![id] = n]
     /\ userRatings' = [userRatings EXCEPT ![id][u] = rating]
     /\ calls' = calls + 1
     /\ UNCHANGED <<now, escrowPeriod, escrows, joy, purchases, settled, offered, earned,
                    stranded>>

-----------------------------------------------------------------------------
(* The platform owner.                                                     *)
UpdateEscrowPeriod(period) ==
  /\ escrowPeriod' = period
  /\ UNCHANGED <<now, shop, escrows, joy, history>>

WithdrawPlatformFees ==
  /\ held > 0
  /\ held' = 0
  /\ withdrawn' = withdrawn + held
  /\ UNCHANGED <<now, escrowPeriod, shop, escrows, history>>

Tick ==
  /\ now < MaxTime
  /\ now' = now + 1
  /\ UNCHANGED <<escrowPeriod, shop, escrows, joy, history>>

SellerStep ==
  \E id \in Id :
    \/ \E u \in User, p \in Price, s \in Stock, b \in BOOLEAN, f \in Fee :
         CreateListing(u, id, p, s, b, f)
    \/ \E p \in Price, s \in Stock : UpdateListing(id, p, s)
    \/ DeactivateListing(id)

BuyerStep ==
  \E id \in Id :
    \/ \E u \in User, q \in Quantity, f \in Fee : PurchaseEscrowed(u, id, q, f)
    \/ \E q \in Quantity, f \in Fee : PurchaseDirect(id, q, f)
    \/ \E u \in User, r \in Rating : RateListing(u, id, r)

Next ==
  \/ SellerStep
  \/ BuyerStep
  \/ \E e \in escrows : ReleaseEscrow(e) \/ RefundEscrow(e)
  \/ \E p \in Period : UpdateEscrowPeriod(p)
  \/ WithdrawPlatformFees
  \/ Tick

Spec == Init /\ [][Next]_vars

-----------------------------------------------------------------------------
(* Properties.                                                             *)

OpenAmount(E) == Total([e \in E |-> IF e.status = "open" THEN e.amount ELSE 0], E)

\* An escrowed purchase is paid out at most once, to the seller or to the buyer,
\* however release, refund, withdrawal of the fees and re-creation of the listing
\* are interleaved.
SettledOnce == \A p \in 1 .. MaxPurchases : settled[p] <= 1

\* Every JOY that came in is in an open escrow, was a fee, or is stranded by an
\* overwritten escrow: no payout takes more than its own escrow put in.
Accounted == held + withdrawn = OpenAmount(escrows) + earned + OpenAmount(stranded)

\* The average in integers, rounded down on every rating, changed rating or
\* re-creation of the listing, never exceeds the true average of the ratings the
\* users have in force.
RatingNotInflated ==
  \A id \in Id :
    listing[id].rating * totalRatings[id]
      <= Total(userRatings[id], User)

\* The number of ratings is the number of users with a rating in force.
RatersCounted ==
  \A id \in Id : totalRatings[id] = Cardinality({u \in User : userRatings[id][u] > 0})

\* Both: rateListing neither inflates an average nor counts anybody twice.
RatingsCounted == RatingNotInflated /\ RatersCounted

\* withdrawPlatformFees is documented to take the fees: what is in escrow stays.
EscrowSolvent == held >= OpenAmount(escrows)

\* A finite stock is documented as the available inventory: no more is sold.
NoOversell == \A id \in Id : offered[id] > 0 => listing[id].totalSales <= offered[id]
=============================================================================
