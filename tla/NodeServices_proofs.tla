-------------------------- MODULE NodeServices_proofs --------------------------
(***************************************************************************)
(* Proofs about the services of a node.  Every service has an inductive    *)
(* invariant of its own; a step of the composition is a step of one        *)
(* service and leaves the variables of the others alone, so that each      *)
(* invariant is one of the composition.                                    *)
(***************************************************************************)
EXTENDS NodeServices, Totals_proofs, SequenceTheorems

-----------------------------------------------------------------------------
(* The registry: any nodes, entities and registrations, over a bus.        *)

(***************************************************************************)
(* What the cache holds was seen, and what waits for its upload is newer   *)
(* than every other entry of its entity: this is what lets a registration  *)
(* overwrite the cache without looking at it.                              *)
(***************************************************************************)
Stamped ==
  /\ regNow > 0
  /\ \A x \in Registration : Begun(x) =>
       entry[x] \in Written /\ entry[x].timestamp \in 1 .. regNow

OnlyBegun ==
  /\ \A x \in registering \cup published : Begun(x)
  /\ \A n \in RegNode : \A x \in seen[n] : Begun(x)
  /\ \A n \in RegNode : \A i \in 1 .. Len(registry_updates[n]) : Begun(registry_updates[n][i])

UploadingIsNewest ==
  \A x \in registering : entry[x].entity \notin overlapped =>
    \A y \in Registration \ {x} :
      About(y, entry[x].entity) => entry[y].timestamp < entry[x].timestamp

CachedIsSeen ==
  \A n \in RegNode, e \in Entity : local_cache[n][e] # NoEntry =>
    local_cache[n][e] \in seen[n] /\ About(local_cache[n][e], e)

RegInv ==
  RegTypeOK /\ Stamped /\ OnlyBegun /\ UploadingIsNewest /\ CachedIsSeen /\ HoldsNewest

LEMMA RegInitInv == RegInit => RegInv
BY RegistryAssumption
   DEF RegInit, RegInv, RegTypeOK, Stamped, OnlyBegun, UploadingIsNewest, CachedIsSeen, HoldsNewest,
       Begun, About

\* register_entity: an entry that overlaps no other is newer than all of them.
LEMMA RegisterStep ==
  ASSUME RegInv, NEW n \in RegNode, NEW e \in Entity, NEW x \in Registration,
         RegisterEntity(n, e, x)
  PROVE  RegInv'
<1> DEFINE new == [entity |-> e, publisher |-> n, timestamp |-> regNow]
<1> USE DEF RegInv, RegTypeOK
<1>1. new \in Written /\ new.timestamp = regNow /\ new.entity = e
  BY DEF Written
<1>time. regNow \in Nat /\ regNow >= 1
  BY DEF Stamped
<1>2. new # Unused
  BY <1>1, <1>time DEF Unused
<1>3. ~Begun(x) /\ entry'[x] = new /\ \A y \in Registration \ {x} : entry'[y] = entry[y]
  BY DEF RegisterEntity
<1>4. Begun(x)' /\ \A y \in Registration \ {x} : Begun(y)' = Begun(y)
  BY <1>2, <1>3 DEF Begun
<1> HIDE DEF new
<1>5. \A y \in Registration, f \in Entity :
        /\ y # x => About(y, f)' = About(y, f)
        /\ About(x, f)' <=> f = e
  BY <1>1, <1>3, <1>4 DEF About
<1>6. RegTypeOK'
  BY <1>1 DEF RegisterEntity, new
<1>7. Stamped'
  BY <1>1, <1>3, <1>4, <1>time DEF Stamped, RegisterEntity
<1>8. OnlyBegun'
  <2>1. \A y \in Registration : Begun(y) => Begun(y)'
    BY <1>4
  <2>2. \A y \in registering' \cup published' : Begun(y)'
    BY <1>4, <2>1 DEF OnlyBegun, RegisterEntity
  <2>3. \A m \in RegNode : \A y \in seen'[m] : Begun(y)'
    BY <2>1 DEF OnlyBegun, RegisterEntity
  <2>4. \A m \in RegNode : \A i \in 1 .. Len(registry_updates[m]) :
          registry_updates[m][i] \in Registration /\ Begun(registry_updates[m][i])
    BY DEF OnlyBegun
  <2>5. registry_updates' = registry_updates
    BY DEF RegisterEntity
  <2>6. QED
    BY <2>1, <2>2, <2>3, <2>4, <2>5 DEF OnlyBegun, Begun
<1>9. UploadingIsNewest'
  <2> SUFFICES ASSUME NEW z \in registering', (entry[z].entity \notin overlapped)',
                      NEW y \in Registration \ {z}, About(y, entry[z].entity)'
               PROVE  (entry[y].timestamp < entry[z].timestamp)'
    BY DEF UploadingIsNewest
  <2>1. overlapped \subseteq overlapped' /\ registering' = registering \cup {x}
    BY DEF RegisterEntity
  <2>2. CASE z = x
    <3>1. About(y, e) /\ entry'[y] = entry[y] /\ Begun(y)
      BY <1>1, <1>3, <1>5, <2>2 DEF About
    <3>2. entry[y].timestamp # regNow
      BY <1>1, <1>3, <2>2, <3>1 DEF RegisterEntity
    <3>3. QED
      BY <1>1, <1>3, <2>2, <3>1, <3>2 DEF Stamped
  <2>3. CASE z # x /\ y = x
    <3>1. z \in registering /\ entry'[z] = entry[z] /\ Begun(z)
      BY <1>3, <2>1, <2>3 DEF OnlyBegun
    <3>2. entry[z].entity = e
      BY <1>1, <1>3, <2>3, <3>1 DEF About
    <3>3. About(z, e)
      BY <3>1, <3>2 DEF About
    <3>4. e \in overlapped'
      BY <3>1, <3>3 DEF RegisterEntity
    <3>5. QED
      BY <3>1, <3>2, <3>4
  <2>4. CASE z # x /\ y # x
    <3>1. z \in registering /\ entry'[z] = entry[z] /\ entry'[y] = entry[y]
      BY <1>3, <2>1, <2>4
    <3>2. Begun(z) /\ entry[z].entity \in Entity
      BY <3>1 DEF OnlyBegun, Stamped, Written
    <3>3. About(y, entry[z].entity)
      BY <1>5, <2>4, <3>1, <3>2
    <3>4. QED
      BY <2>1, <3>1, <3>3 DEF UploadingIsNewest
  <2>5. QED
    BY <2>2, <2>3, <2>4
<1>10. CachedIsSeen'
  BY <1>4, <1>5 DEF CachedIsSeen, OnlyBegun, About, RegisterEntity
<1>11. HoldsNewest'
  <2> SUFFICES ASSUME NEW m \in RegNode, NEW f \in Entity, (f \notin overlapped)',
                      NEW y \in seen'[m], About(y, f)'
               PROVE  /\ GetEntity(m, f)' \in seen'[m]
                      /\ entry'[GetEntity(m, f)'].entity = f
                      /\ entry'[y].timestamp <= entry'[GetEntity(m, f)'].timestamp
    BY DEF HoldsNewest
  <2>1. /\ overlapped \subseteq overlapped' /\ seen' = seen
        /\ GetEntity(m, f)' = GetEntity(m, f)
    BY DEF RegisterEntity, GetEntity
  <2>2. Begun(y) /\ y # x /\ y \in Registration
    BY <1>3, <2>1 DEF OnlyBegun
  <2>3. About(y, f)
    BY <1>5, <2>2
  <2>4. /\ GetEntity(m, f) \in seen[m] /\ entry[GetEntity(m, f)].entity = f
        /\ entry[y].timestamp <= entry[GetEntity(m, f)].timestamp
    BY <2>1, <2>3 DEF HoldsNewest
  <2>5. GetEntity(m, f) # x /\ GetEntity(m, f) \in Registration
    BY <1>3, <2>4 DEF OnlyBegun
  <2>6. QED
    BY <1>3, <2>1, <2>2, <2>4, <2>5
<1>12. QED
  BY <1>6, <1>7, <1>8, <1>9, <1>10, <1>11

\* What has begun stays as it was written when no registration begins.
LEMMA SameEntries ==
  ASSUME RegInv, entry' = entry, regNow' \in Nat, regNow' >= regNow, overlapped' = overlapped,
         registering' \subseteq registering
  PROVE  Stamped' /\ UploadingIsNewest'
BY DEF RegInv, RegTypeOK, Stamped, UploadingIsNewest, About, Begun

\* The upload returns: what it overwrites is older, unless the entity is overlapped.
LEMMA UploadedStep ==
  ASSUME RegInv, NEW x \in Registration, Uploaded(x)
  PROVE  RegInv'
<1> USE DEF RegInv, RegTypeOK
<1> DEFINE n == entry[x].publisher
           e == entry[x].entity
<1>1. x \in registering /\ Begun(x) /\ n \in RegNode /\ e \in Entity
  BY DEF Uploaded, OnlyBegun, Stamped, Written
<1>2. About(x, e)
  BY <1>1 DEF About
<1>3. /\ seen' = [seen EXCEPT ![n] = @ \cup {x}]
      /\ local_cache' = [local_cache EXCEPT ![n][e] = x]
      /\ entry' = entry /\ overlapped' = overlapped /\ regNow' = regNow
      /\ registering' = registering \ {x} /\ registry_updates' = registry_updates
      /\ published' \in {published, published \cup {x}}
  BY DEF Uploaded
<1>4. \A y \in Registration : e \notin overlapped /\ y # x /\ About(y, e)
        => entry[y].timestamp < entry[x].timestamp
  BY <1>1 DEF UploadingIsNewest
<1>5. \A y \in Registration, f \in Entity :
        Begun(y)' = Begun(y) /\ About(y, f)' = About(y, f)
  BY <1>3 DEF About, Begun
<1> HIDE DEF n, e
<1>6. RegTypeOK'
  BY <1>1, <1>3
<1>7. Stamped' /\ UploadingIsNewest'
  BY <1>3, SameEntries
<1>8. OnlyBegun'
  BY <1>1, <1>3 DEF OnlyBegun, Begun
<1>9. CachedIsSeen'
  <2> SUFFICES ASSUME NEW m \in RegNode, NEW f \in Entity, local_cache'[m][f] # NoEntry
               PROVE  local_cache'[m][f] \in seen'[m] /\ About(local_cache[m][f], f)'
    BY DEF CachedIsSeen
  <2>1. CASE m = n /\ f = e
    BY <1>1, <1>2, <1>3, <2>1 DEF About, Begun
  <2>2. CASE ~(m = n /\ f = e)
    <3>1. local_cache'[m][f] = local_cache[m][f]
      BY <1>1, <1>3, <2>2
    <3>2. QED
      BY <1>1, <1>3, <3>1 DEF CachedIsSeen, About, Begun
  <2>3. QED
    BY <2>1, <2>2
<1>10. HoldsNewest'
  <2> SUFFICES ASSUME NEW m \in RegNode, NEW f \in Entity, f \notin overlapped,
                      NEW y \in seen'[m], About(y, f)
               PROVE  /\ local_cache'[m][f] \in seen'[m]
                      /\ entry[local_cache'[m][f]].entity = f
                      /\ entry[y].timestamp <= entry[local_cache'[m][f]].timestamp
    BY <1>3, <1>5 DEF HoldsNewest, GetEntity, About, Begun
  <2>1. y \in Registration /\ y \in seen[m] \cup {x} /\ seen[m] \subseteq seen'[m]
    BY <1>1, <1>3
  <2>2. CASE m = n /\ f = e
    <3>1. local_cache'[m][f] = x /\ x \in seen'[m] /\ entry[x].entity = f
      BY <1>1, <1>2, <1>3, <2>2 DEF About
    <3>2. entry[x].timestamp \in Nat /\ entry[y].timestamp \in Nat
      BY <1>1, <2>1 DEF Stamped, About
    <3>3. entry[y].timestamp <= entry[x].timestamp
      BY <1>4, <2>1, <2>2, <3>2
    <3>4. QED
      BY <3>1, <3>3
  <2>3. CASE ~(m = n /\ f = e)
    <3>1. local_cache'[m][f] = local_cache[m][f]
      BY <1>1, <1>3, <2>3
    <3>2. y \in seen[m]
      BY <1>1, <1>2, <1>3, <2>1, <2>3 DEF About
    <3>3. QED
      BY <2>1, <3>1, <3>2 DEF HoldsNewest, GetEntity
  <2>4. QED
    BY <2>2, <2>3
<1>11. QED
  BY <1>6, <1>7, <1>8, <1>9, <1>10

\* _apply_update: the newer of what is cached and what comes is cached afterwards.
LEMMA ProcessStep ==
  ASSUME RegInv, NEW n \in RegNode, ProcessUpdate(n)
  PROVE  RegInv'
<1> USE RegistryAssumption DEF RegInv, RegTypeOK
<1> DEFINE x == Head(registry_updates[n])
           e == entry[x].entity
           known == local_cache[n][e]
<1>1. registry_updates[n] # <<>> /\ x \in Registration /\ Begun(x)
  BY DEF ProcessUpdate, OnlyBegun
<1>2. e \in Entity /\ About(x, e)
  BY <1>1 DEF Stamped, Written, About
<1>3. /\ seen' = [seen EXCEPT ![n] = @ \cup {x}]
      /\ local_cache' = [local_cache EXCEPT ![n][e] = IF Newer(n, x) THEN x ELSE @]
      /\ entry' = entry /\ overlapped' = overlapped /\ regNow' = regNow
      /\ registering' = registering /\ published' = published
      /\ registry_updates' = [registry_updates EXCEPT ![n] = Tail(@)]
  BY DEF ProcessUpdate
<1>4. known # NoEntry => known \in seen[n] /\ About(known, e)
  BY <1>2 DEF CachedIsSeen
<1>5. Newer(n, x) <=> known = NoEntry \/ entry[known].timestamp < entry[x].timestamp
  BY DEF Newer
<1> HIDE DEF x, e
<1>6. known \in Registration \cup {NoEntry}
  BY <1>2
<1> HIDE DEF known
<1>7. RegTypeOK'
  BY <1>1, <1>2, <1>3
<1>8. Stamped' /\ UploadingIsNewest'
  BY <1>3, SameEntries
<1>9. OnlyBegun'
  <2>1. \A m \in RegNode : \A i \in 1 .. Len(registry_updates'[m]) :
          \E j \in 1 .. Len(registry_updates[m]) : registry_updates'[m][i] = registry_updates[m][j]
    <3> SUFFICES ASSUME NEW m \in RegNode, NEW i \in 1 .. Len(registry_updates'[m])
                 PROVE  \E j \in 1 .. Len(registry_updates[m]) :
                          registry_updates'[m][i] = registry_updates[m][j]
      OBVIOUS
    <3>1. CASE m = n
      <4>1. registry_updates'[m] = Tail(registry_updates[m])
        BY <1>3, <3>1
      <4>2. i + 1 \in 1 .. Len(registry_updates[m])
        BY <1>1, <3>1, <4>1
      <4>3. registry_updates'[m][i] = registry_updates[m][i + 1]
        BY <1>1, <3>1, <4>1
      <4>4. QED
        BY <4>2, <4>3
    <3>2. CASE m # n
      BY <1>3, <3>2
    <3>3. QED
      BY <3>1, <3>2
  <2>2. \A m \in RegNode : \A y \in seen'[m] : Begun(y)
    BY <1>1, <1>3 DEF OnlyBegun
  <2>3. QED
    BY <1>3, <2>1, <2>2 DEF OnlyBegun, Begun
<1>10. CachedIsSeen'
  <2> SUFFICES ASSUME NEW m \in RegNode, NEW f \in Entity, local_cache'[m][f] # NoEntry
               PROVE  local_cache'[m][f] \in seen'[m] /\ About(local_cache[m][f], f)'
    BY DEF CachedIsSeen
  <2>1. CASE m = n /\ f = e
    BY <1>1, <1>2, <1>3, <1>4, <2>1 DEF About, Begun, known
  <2>2. CASE ~(m = n /\ f = e)
    <3>1. local_cache'[m][f] = local_cache[m][f]
      BY <1>2, <1>3, <2>2
    <3>2. local_cache[m][f] \in seen[m] /\ About(local_cache[m][f], f)
      BY <3>1 DEF CachedIsSeen
    <3>3. seen[m] \subseteq seen'[m]
      BY <1>3
    <3>4. About(local_cache[m][f], f)'
      BY <1>3, <3>1, <3>2 DEF About, Begun
    <3>5. QED
      BY <3>1, <3>2, <3>3, <3>4
  <2>3. QED
    BY <2>1, <2>2
<1>11. HoldsNewest'
  <2> SUFFICES ASSUME NEW m \in RegNode, NEW f \in Entity, f \notin overlapped,
                      NEW y \in seen'[m], About(y, f)
               PROVE  /\ local_cache'[m][f] \in seen'[m]
                      /\ entry[local_cache'[m][f]].entity = f
                      /\ entry[y].timestamp <= entry[local_cache'[m][f]].timestamp
    BY <1>3 DEF HoldsNewest, GetEntity, About, Begun
  <2>1. y \in Registration /\ y \in seen[m] \cup {x} /\ seen[m] \subseteq seen'[m]
    BY <1>1, <1>3
  <2>2. CASE m = n /\ f = e
    <3>1. entry[x].timestamp \in Nat /\ entry[y].timestamp \in Nat
      BY <1>1, <2>1 DEF Stamped, About
    <3>2. x \in seen'[m] /\ entry[x].entity = f
      BY <1>1, <1>2, <1>3, <2>2 DEF About
    <3>3. CASE known = NoEntry
      <4>1. local_cache'[m][f] = x
        BY <1>2, <1>3, <1>5, <2>2, <3>3
      <4>2. y \notin seen[m]
        BY <1>6, <2>1, <2>2, <3>3 DEF HoldsNewest, GetEntity, known
      <4>3. QED
        BY <2>1, <3>1, <3>2, <4>1, <4>2
    <3>4. CASE known # NoEntry
      <4>1. known \in Registration /\ known \in seen'[m] /\ entry[known].entity = f
        BY <1>3, <1>4, <1>6, <2>2, <3>4 DEF About
      <4>2. entry[known].timestamp \in Nat
        BY <1>4, <3>4, <4>1 DEF Stamped, About
      <4>3. y \in seen[m] => entry[y].timestamp <= entry[known].timestamp
        BY <2>2 DEF HoldsNewest, GetEntity, known
      <4>4. local_cache'[m][f] = IF entry[known].timestamp < entry[x].timestamp THEN x ELSE known
        BY <1>2, <1>3, <1>5, <2>2, <3>4 DEF known
      <4>5. QED
        BY <2>1, <3>1, <3>2, <4>1, <4>2, <4>3, <4>4
    <3>5. QED
      BY <3>3, <3>4
  <2>3. CASE ~(m = n /\ f = e)
    <3>1. local_cache'[m][f] = local_cache[m][f]
      BY <1>2, <1>3, <2>3
    <3>2. y \in seen[m]
      BY <1>2, <1>3, <2>1, <2>3 DEF About
    <3>3. QED
      BY <2>1, <3>1, <3>2 DEF HoldsNewest, GetEntity
  <2>4. QED
    BY <2>2, <2>3
<1>12. QED
  BY <1>7, <1>8, <1>9, <1>10, <1>11

\* What arrives is queued; a failed upload and time leave all caches as they are.
LEMMA OtherStep ==
  ASSUME RegInv,
         \/ \E n \in RegNode, x \in Registration : HandleRegistryUpdate(n, x)
         \/ \E x \in Registration : UploadRaises(x)
         \/ RegTick
         \/ UNCHANGED regVars
  PROVE  RegInv'
<1> USE DEF RegInv, RegTypeOK
<1>1. /\ entry' = entry /\ overlapped' = overlapped /\ regNow' \in Nat /\ regNow' >= regNow
      /\ registering' \subseteq registering /\ published' = published
      /\ local_cache' = local_cache /\ seen' = seen
  BY RegistryAssumption DEF HandleRegistryUpdate, UploadRaises, RegTick, regVars
<1>2. Stamped' /\ UploadingIsNewest'
  BY <1>1, SameEntries
<1>3. CachedIsSeen' /\ HoldsNewest'
  BY <1>1 DEF CachedIsSeen, HoldsNewest, GetEntity, About, Begun
<1>4. CASE \E n \in RegNode, x \in Registration : HandleRegistryUpdate(n, x)
  <2>1. PICK n \in RegNode, x \in Registration : HandleRegistryUpdate(n, x)
    BY <1>4
  <2>2. /\ Begun(x)
        /\ registry_updates' = [registry_updates EXCEPT ![n] = Append(@, x)]
    BY <2>1 DEF HandleRegistryUpdate, OnlyBegun
  <2>3. RegTypeOK'
    BY <1>1, <2>2
  <2>4. \A m \in RegNode : \A i \in 1 .. Len(registry_updates'[m]) : Begun(registry_updates'[m][i])
    BY <2>2 DEF OnlyBegun
  <2>5. OnlyBegun'
    BY <1>1, <2>4 DEF OnlyBegun, Begun
  <2>6. QED
    BY <1>2, <1>3, <2>3, <2>5
<1>5. CASE registry_updates' = registry_updates
  <2>1. RegTypeOK'
    BY <1>1, <1>5
  <2>2. OnlyBegun'
    BY <1>1, <1>5 DEF OnlyBegun, Begun
  <2>3. QED
    BY <1>2, <1>3, <2>1, <2>2
<1>6. QED
  BY <1>4, <1>5 DEF UploadRaises, RegTick, regVars

LEMMA RegNextInv == RegInv /\ [RegNext]_regVars => RegInv'
BY RegisterStep, UploadedStep, ProcessStep, OtherStep DEF RegNext

\* In whatever order, how often and how late updates reach a node, get_entity finds
\* the newest entry it has seen of an entity whose registrations do not overlap.
THEOREM NewestHeld == ServicesSpec => []HoldsNewest
<1>1. ServicesInit => RegInv
  BY RegInitInv DEF ServicesInit
<1>2. [ServicesNext]_serviceVars => [RegNext]_regVars
  BY DEF ServicesNext, OthersIdle, serviceVars
<1>3. ServicesSpec => []RegInv
  BY <1>1, <1>2, RegNextInv, PTL DEF ServicesSpec
<1>4. RegInv => HoldsNewest
  BY DEF RegInv
<1>5. QED
  BY <1>3, <1>4, PTL

-----------------------------------------------------------------------------
(* The economics of the token: any supply, ratios and threshold.           *)

(***************************************************************************)
(* Before the genesis nothing was handed out, and the treasury holds fees  *)
(* alone: this is what makes the genesis lose exactly what it overwrites.  *)
(***************************************************************************)
NothingBefore == ~genesis_complete => sweptEarly = 0 /\ treasuryShare = 0

EcoInv == EcoTypeOK /\ FeesAccounted /\ NothingBefore

\* The unit divides the supply: the parts of a whole make the supply.
LEMMA WholeSupply == Unit \in Nat /\ Unit * Whole = TotalSupply
BY EconomicsAssumption DEF Unit

LEMMA EcoInitInv == EcoInit => EcoInv
<1>1. PoolThreshold \in Nat /\ PoolThreshold > 0
  BY EconomicsAssumption
<1> SUFFICES ASSUME EcoInit PROVE EcoInv
  OBVIOUS
<1>2. ~genesis_complete /\ genesis_complete \in BOOLEAN
  BY DEF EcoInit
<1>3. EcoTypeOK
  BY <1>2 DEF EcoInit, EcoTypeOK
<1>4. circulating_supply = IF genesis_complete THEN TotalSupply ELSE 0
  BY <1>2 DEF EcoInit
<1>5. FeesAccounted
  BY <1>1, <1>4 DEF EcoInit, FeesAccounted
<1>6. QED
  BY <1>3, <1>5 DEF EcoInit, EcoInv, NothingBefore

\* initialize_genesis hands out the whole supply, and what it takes from the
\* treasury is booked.
LEMMA GenesisStep ==
  ASSUME EcoInv, NEW alloc \in CustomRatios \cup {DefaultRatios}, InitializeGenesis(alloc)
  PROVE  EcoInv'
<1> USE DEF EcoInv, EcoTypeOK, NothingBefore
<1>1. ~genesis_complete /\ genesis_complete' = TRUE
  BY DEF InitializeGenesis
<1>2. circulating_supply' = TotalSupply
  <2>1. circulating_supply' = circulating_supply + Unit * Whole
    BY DEF InitializeGenesis, ValidRatios
  <2>2. QED
    BY <1>1, <2>1, WholeSupply DEF FeesAccounted
<1>3. treasury_balance + fee_pool = feesPaid /\ fee_pool < PoolThreshold
  BY <1>1 DEF FeesAccounted
<1>4. fee_pool' = fee_pool /\ feesPaid' = feesPaid
  BY DEF InitializeGenesis
<1>5. CASE "treasury" \in DOMAIN alloc
  <2> DEFINE share == Unit * alloc["treasury"]
  <2>1. alloc["treasury"] \in Nat
    BY <1>5, EconomicsAssumption
  <2>2. share \in Nat
    BY <2>1, WholeSupply
  <2>3. treasury_balance' = share /\ treasuryShare' = share /\ sweptEarly' = treasury_balance
    BY <1>5 DEF InitializeGenesis
  <2> HIDE DEF share
  <2>4. QED
    BY <1>1, <1>2, <1>3, <1>4, <2>2, <2>3, EconomicsAssumption DEF FeesAccounted
<1>6. CASE "treasury" \notin DOMAIN alloc
  <2>1. UNCHANGED <<treasury_balance, treasuryShare, sweptEarly>>
    BY <1>6 DEF InitializeGenesis
  <2>2. QED
    BY <1>1, <1>2, <1>3, <1>4, <2>1, EconomicsAssumption DEF FeesAccounted
<1>7. QED
  BY <1>5, <1>6

\* process_transaction_fee adds the fee before it looks at the threshold.
LEMMA FeeStep == EcoInv /\ ProcessTransactionFee => EcoInv'
BY EconomicsAssumption DEF EcoInv, EcoTypeOK, FeesAccounted, NothingBefore, ProcessTransactionFee

LEMMA EcoNextInv == EcoInv /\ [EcoNext]_ecoVars => EcoInv'
<1> SUFFICES ASSUME EcoInv, [EcoNext]_ecoVars PROVE EcoInv'
  OBVIOUS
<1>1. CASE \E alloc \in CustomRatios \cup {DefaultRatios} : InitializeGenesis(alloc)
  BY <1>1, GenesisStep
<1>2. CASE ProcessTransactionFee
  BY <1>2, FeeStep
<1>3. CASE UNCHANGED ecoVars
  BY <1>3 DEF ecoVars, EcoInv, EcoTypeOK, FeesAccounted, NothingBefore
<1>4. QED
  BY <1>1, <1>2, <1>3 DEF EcoNext

\* Whatever the ratios and whenever the genesis comes, initialize_genesis and
\* process_transaction_fee account for every fee and hand out all or nothing.
THEOREM FeesKept == ServicesSpec => []FeesAccounted
<1>1. ServicesInit => EcoInv
  BY EcoInitInv DEF ServicesInit
<1>2. [ServicesNext]_serviceVars => [EcoNext]_ecoVars
  BY DEF ServicesNext, OthersIdle, serviceVars
<1>3. ServicesSpec => []EcoInv
  BY <1>1, <1>2, EcoNextInv, PTL DEF ServicesSpec
<1>4. EcoInv => FeesAccounted
  BY DEF EcoInv
<1>5. QED
  BY <1>3, <1>4, PTL

-----------------------------------------------------------------------------
(* Licences: any validators, licences and applications.                    *)

\* What is revoked was issued, and what was issued has a holder: without one a
\* revocation would remove nobody from the active validators.
LicInv ==
  LicTypeOK /\ ValidatorsHoldLicence
  /\ \A l \in License : /\ revoking[l] > 0 => licenses[l] # "none"
                        /\ licenses[l] # "none" => applied[l] # NoHolder

LEMMA LicInitInv == LicInit => LicInv
BY LicenseAssumption DEF LicInit, LicInv, LicTypeOK, ValidatorsHoldLicence, IsValidValidator

\* A revocation takes the licence and its holder together.
LEMMA RevocationStep ==
  ASSUME LicInv, NEW l \in License, RevocationDecided(l)
  PROVE  LicInv'
<1> USE DEF LicInv, LicTypeOK, RevocationDecided
<1>1. revoking[l] - 1 \in 0 .. MaxRevocations
  BY LicenseAssumption
<1>2. LicTypeOK'
  BY <1>1
<1>3. ValidatorsHoldLicence'
  BY DEF ValidatorsHoldLicence, IsValidValidator
<1>4. \A k \in License : /\ revoking'[k] > 0 => licenses'[k] # "none"
                         /\ licenses'[k] # "none" => applied'[k] # NoHolder
  OBVIOUS
<1>5. QED
  BY <1>2, <1>3, <1>4

LEMMA LicNextInv == LicInv /\ [LicNext]_licVars => LicInv'
<1> SUFFICES ASSUME LicInv, [LicNext]_licVars PROVE LicInv'
  OBVIOUS
<1> USE LicenseAssumption DEF LicInv, LicTypeOK
<1>1. ASSUME NEW l \in License, NEW v \in Validator, NEW a \in Application, IssueLicense(v, l, a)
      PROVE  LicInv'
  BY <1>1 DEF IssueLicense, ValidatorsHoldLicence, IsValidValidator
<1>2. ASSUME NEW l \in License, LicenseApproved(l) PROVE LicInv'
  BY <1>2 DEF LicenseApproved, ValidatorsHoldLicence, IsValidValidator
<1>3. ASSUME NEW l \in License, RevokeLicense(l) PROVE LicInv'
  BY <1>3 DEF RevokeLicense, ValidatorsHoldLicence, IsValidValidator
<1>4. ASSUME NEW l \in License, RevocationFails(l) PROVE LicInv'
  BY <1>4 DEF RevocationFails, ValidatorsHoldLicence, IsValidValidator
<1>5. CASE UNCHANGED licVars
  BY <1>5 DEF licVars, ValidatorsHoldLicence, IsValidValidator
<1>6. QED
  BY <1>1, <1>2, <1>3, <1>4, <1>5, RevocationStep DEF LicNext

-----------------------------------------------------------------------------
(* Integrity proofs: any nodes, requests and orders of delivery.           *)

\* A queue holds requests that somebody made, and a proof has its result.
IntInv ==
  /\ IntTypeOK /\ ProofsAreBacked
  /\ \A n \in IntNode : \A i \in 1 .. Len(validation_queue[n]) :
       \E q \in requested : q.id = validation_queue[n][i]

LEMMA IntInitInv == IntInit => IntInv
BY DEF IntInit, IntInv, IntTypeOK, ProofsAreBacked

LEMMA ValidationStep ==
  ASSUME IntInv, NEW n \in IntNode, ProcessValidation(n)
  PROVE  IntInv'
<1> DEFINE s == validation_queue[n]
           r == Head(s)
           p == [request_id |-> r, validator |-> n]
<1>1. s \in Seq(Request) /\ s # << >> /\ r = s[1] /\ 1 \in 1 .. Len(s)
  BY DEF IntInv, IntTypeOK, ProcessValidation
<1>2. /\ r \in Request
      /\ \E q \in requested : q.id = r
  BY <1>1 DEF IntInv
<1>3. /\ Tail(s) \in Seq(Request) /\ Len(Tail(s)) = Len(s) - 1
      /\ \A i \in 1 .. Len(Tail(s)) : Tail(s)[i] = s[i + 1] /\ i + 1 \in 1 .. Len(s)
  BY <1>1
<1>4. /\ validation_results' = [validation_results EXCEPT ![n] = @ \cup {r}]
      /\ proofs' \in {proofs, proofs \cup {p}}
      /\ validation_queue' = [validation_queue EXCEPT ![n] = Tail(s)]
      /\ requested' = requested
  BY DEF ProcessValidation
<1> HIDE DEF r, s
<1>5. IntTypeOK'
  BY <1>2, <1>3, <1>4 DEF IntInv, IntTypeOK
<1>6. ProofsAreBacked'
  BY <1>2, <1>4 DEF IntInv, IntTypeOK, ProofsAreBacked, GetValidationResult
<1>7. ASSUME NEW m \in IntNode, NEW i \in 1 .. Len(validation_queue'[m])
      PROVE  \E q \in requested : q.id = validation_queue'[m][i]
  <2>1. CASE m = n
    BY <1>3, <1>4, <2>1 DEF IntInv, IntTypeOK, s
  <2>2. CASE m # n
    BY <1>4, <2>2 DEF IntInv, IntTypeOK
  <2>3. QED
    BY <2>1, <2>2
<1>8. QED
  BY <1>4, <1>5, <1>6, <1>7 DEF IntInv

LEMMA IntNextInv == IntInv /\ [IntNext]_intVars => IntInv'
<1> SUFFICES ASSUME IntInv, [IntNext]_intVars PROVE IntInv'
  OBVIOUS
<1>1. ASSUME NEW n \in IntNode, NEW r \in Request, SubmitForValidation(n, r) PROVE IntInv'
  BY <1>1 DEF SubmitForValidation, IntInv, IntTypeOK, ProofsAreBacked, GetValidationResult
<1>2. ASSUME NEW n \in IntNode, NEW q \in requested, ValidateRequest(n, q) PROVE IntInv'
  <2>1. q.id \in Request
    BY DEF IntInv, IntTypeOK
  <2>2. /\ validation_queue' = [validation_queue EXCEPT ![n] = Append(@, q.id)]
        /\ UNCHANGED <<requested, validation_results, proofs>>
    BY <1>2 DEF ValidateRequest
  <2>3. \A m \in IntNode : \A i \in 1 .. Len(validation_queue'[m]) :
          \E w \in requested : w.id = validation_queue'[m][i]
    BY <2>1, <2>2 DEF IntInv, IntTypeOK
  <2>4. IntTypeOK'
    BY <2>1, <2>2 DEF IntInv, IntTypeOK
  <2>5. QED
    BY <2>2, <2>3, <2>4 DEF IntInv, ProofsAreBacked, GetValidationResult
<1>3. CASE UNCHANGED intVars
  BY <1>3 DEF intVars, IntInv, IntTypeOK, ProofsAreBacked, GetValidationResult
<1>4. QED
  BY <1>1, <1>2, <1>3, ValidationStep DEF IntNext

-----------------------------------------------------------------------------
(* Proof of use: any nodes, stakes and transactions.                       *)

UseInv == UseTypeOK /\ ProducersAreListed

\* How often a node has validated one transaction is part of its activity.
LEMMA ActivityCounts ==
  ASSUME UseTypeOK, NEW n \in UseNode, NEW t \in Tx
  PROVE  Activity(n) \in Nat /\ transaction_history[n][t] <= Activity(n)
<1> DEFINE h == transaction_history[n]
           all == (1 .. MaxActivity) \X Tx
           counted == {p \in all : h[p[2]] >= p[1]}
           own == (1 .. h[t]) \X {t}
<1>1. h \in [Tx -> 0 .. MaxActivity] /\ h[t] \in 0 .. MaxActivity /\ MaxActivity \in Nat
  BY UseAssumption DEF UseTypeOK
<1>2. IsFiniteSet(all)
  <2>1. IsFiniteSet(1 .. MaxActivity) /\ IsFiniteSet(Tx)
    BY <1>1, UseAssumption, FS_Interval
  <2>2. QED
    BY <2>1, FS_Product
<1>3. IsFiniteSet(counted)
  <2>1. counted \in SUBSET all
    OBVIOUS
  <2> HIDE DEF all, counted
  <2>2. QED
    BY <1>2, <2>1, FS_Subset
<1>4. own \in SUBSET counted
  BY <1>1
<1>5. IsFiniteSet(own) /\ Cardinality(own) = h[t]
  <2>1. IsFiniteSet(1 .. h[t]) /\ Cardinality(1 .. h[t]) = h[t]
    <3>1. 1 \in Int /\ h[t] \in Int
      BY <1>1
    <3>2. IsFiniteSet(1 .. h[t]) /\ Cardinality(1 .. h[t]) = IF 1 > h[t] THEN 0 ELSE h[t] - 1 + 1
      BY <3>1, FS_Interval
    <3>3. QED
      BY <1>1, <3>2
  <2>2. IsFiniteSet({t}) /\ Cardinality({t}) = 1
    BY FS_Singleton
  <2>3. IsFiniteSet(own) /\ Cardinality(own) = Cardinality(1 .. h[t]) * Cardinality({t})
    BY <2>1, <2>2, FS_Product
  <2>4. QED
    BY <1>1, <2>1, <2>2, <2>3
<1>6. Activity(n) = Cardinality(counted)
  BY DEF Activity
<1> HIDE DEF counted, own
<1>7. Cardinality(own) <= Cardinality(counted)
  BY <1>3, <1>4, FS_Subset
<1>8. QED
  BY <1>3, <1>5, <1>6, <1>7, FS_CardinalityType

LEMMA UseInitInv == UseInit => UseInv
<1> SUFFICES ASSUME UseInit PROVE UseInv
  OBVIOUS
<1>1. UseTypeOK
  BY UseAssumption DEF UseInit, UseTypeOK
<1>2. ASSUME NEW n \in UseNode PROVE Activity(n) = 0
  <2>1. {p \in (1 .. MaxActivity) \X Tx : transaction_history[n][p[2]] >= p[1]} = {}
    BY UseAssumption DEF UseInit
  <2>2. QED
    BY <2>1, FS_EmptySet DEF Activity
<1>3. ProducersAreListed
  BY <1>2 DEF UseInit, ProducersAreListed
<1>4. QED
  BY <1>1, <1>3 DEF UseInv

\* A validation is recorded within the bound, and by a node that lists itself.
LEMMA ValidatedStep ==
  ASSUME UseInv, NEW n \in UseNode, NEW t \in Tx, ValidateTransaction(n, t)
  PROVE  UseInv'
<1>1. /\ Whitelisted(n, n) /\ Activity(n) < MaxActivity
      /\ transaction_history' = [transaction_history EXCEPT ![n][t] = @ + 1]
      /\ UNCHANGED <<registered, submitted, announcement>>
  BY DEF ValidateTransaction
<1>2. transaction_history[n][t] + 1 \in 0 .. MaxActivity
  BY <1>1, ActivityCounts, UseAssumption DEF UseInv, UseTypeOK
<1>3. UseTypeOK'
  BY <1>1, <1>2 DEF UseInv, UseTypeOK
<1>4. ASSUME NEW m \in UseNode, m # n PROVE Activity(m)' = Activity(m)
  BY <1>1, <1>4 DEF Activity, UseInv, UseTypeOK
<1>5. \A m, v \in UseNode : Whitelisted(m, v)' = Whitelisted(m, v)
  BY <1>1 DEF Whitelisted
<1>6. ProducersAreListed'
  BY <1>1, <1>4, <1>5 DEF UseInv, UseTypeOK, ProducersAreListed
<1>7. QED
  BY <1>3, <1>6 DEF UseInv

LEMMA UseNextInv == UseInv /\ [UseNext]_useVars => UseInv'
<1> SUFFICES ASSUME UseInv, [UseNext]_useVars PROVE UseInv'
  OBVIOUS
<1>1. UNCHANGED transaction_history => \A n \in UseNode : Activity(n)' = Activity(n)
  BY DEF Activity
<1>2. ASSUME NEW n \in UseNode, NEW v \in UseNode, NEW s \in Stakes, RegisterValidator(n, v, s)
      PROVE  UseInv'
  <2>1. /\ registered' = [registered EXCEPT ![n][v] = s]
        /\ UNCHANGED <<submitted, transaction_history, announcement>>
    BY <1>2 DEF RegisterValidator
  <2>2. \A m, w \in UseNode : Whitelisted(m, w) => Whitelisted(m, w)'
    BY <2>1, UseAssumption DEF Whitelisted, UseInv, UseTypeOK
  <2>3. UseTypeOK'
    BY <2>1 DEF UseInv, UseTypeOK
  <2>4. QED
    BY <1>1, <2>1, <2>2, <2>3 DEF UseInv, UseTypeOK, ProducersAreListed
<1>3. ASSUME NEW n \in UseNode, SelectNextProducer(n) PROVE UseInv'
  <2>1. PICK v \in UseNode : /\ Whitelisted(n, v)
                             /\ announcement' = [announcement EXCEPT ![n] = v]
    BY <1>3 DEF SelectNextProducer, IsEligible
  <2>2. UNCHANGED <<registered, submitted, transaction_history>>
    BY <1>3 DEF SelectNextProducer
  <2>3. UseTypeOK'
    BY <2>1, <2>2 DEF UseInv, UseTypeOK
  <2>4. \A m, w \in UseNode : Whitelisted(m, w)' = Whitelisted(m, w)
    BY <2>2 DEF Whitelisted
  <2>5. QED
    BY <1>1, <2>1, <2>2, <2>3, <2>4 DEF UseInv, UseTypeOK, ProducersAreListed
<1>4. ASSUME NEW t \in Tx, SubmitTransaction(t) PROVE UseInv'
  BY <1>1, <1>4 DEF SubmitTransaction, UseInv, UseTypeOK, ProducersAreListed, Whitelisted
<1>5. CASE UNCHANGED useVars
  BY <1>1, <1>5 DEF useVars, UseInv, UseTypeOK, ProducersAreListed, Whitelisted
<1>6. QED
  BY <1>2, <1>3, <1>4, <1>5, ValidatedStep DEF UseNext

-----------------------------------------------------------------------------
\* Whoever counts as a validator holds a licence in force, whatever proof is on the
\* bus was asked for and is kept by its signer, and whoever is announced is listed,
\* for any number of nodes, licences, requests and transactions.
THEOREM ConsensusIsBacked == ServicesSpec => []ValidatorsBacked
<1>1. ServicesInit => LicInv /\ IntInv /\ UseInv
  BY LicInitInv, IntInitInv, UseInitInv DEF ServicesInit
<1>2. [ServicesNext]_serviceVars => [LicNext]_licVars
  BY DEF ServicesNext, OthersIdle, serviceVars
<1>3. [ServicesNext]_serviceVars => [IntNext]_intVars
  BY DEF ServicesNext, OthersIdle, serviceVars
<1>4. [ServicesNext]_serviceVars => [UseNext]_useVars
  BY DEF ServicesNext, OthersIdle, serviceVars
<1>5. ServicesSpec => [](LicInv /\ IntInv /\ UseInv)
  BY <1>1, <1>2, <1>3, <1>4, LicNextInv, IntNextInv, UseNextInv, PTL DEF ServicesSpec
<1>6. LicInv /\ IntInv /\ UseInv => ValidatorsBacked
  BY DEF LicInv, IntInv, UseInv, ValidatorsBacked
<1>7. QED
  BY <1>5, <1>6, PTL

-----------------------------------------------------------------------------
(* Connections: any peers, candidates, channels and messages.              *)

Connection == [ice_candidates : SUBSET Candidate, status : {"connecting", "connected"}]

\* The server has everything it granted, so that a connection made now has it too;
\* what else a list holds was signalled.
RtcInv ==
  /\ credentials \subseteq TurnUser /\ aliased \subseteq RtcPeer /\ answered \subseteq RtcPeer
  /\ candidates \in [RtcPeer -> SUBSET Candidate]
  /\ granted \in [RtcPeer -> SUBSET ServerCandidate]
  /\ due \in [RtcPeer -> SUBSET Candidate]
  /\ connections \in [RtcPeer -> Connection \cup {Unconnected}]
  /\ \A p \in RtcPeer : granted[p] \subseteq candidates[p]
  /\ \A p \in RtcPeer : candidates[p] \subseteq granted[p] \cup Signalled
  /\ CandidatesComplete

Sending == [channel : DataChannel, to : RtcPeer, meant : RtcPeer, remade : BOOLEAN,
            at : {"upload", "stream"}]

\* A channel keeps a peer once it has one; while a file is uploaded it is the peer
\* the file is meant for, or the channel was made anew.
ChanInv ==
  /\ dataChannels \in [DataChannel -> RtcPeer \cup {Unconnected}]
  /\ outgoing \in [RtcMessage -> Sending \cup {<<>>}]
  /\ \A m \in RtcMessage : outgoing[m] # <<>> =>
       LET o == outgoing[m]
       IN  /\ dataChannels[o.channel] # Unconnected
           /\ o.at = "stream" => o.to = o.meant \/ (m \in FileMessage /\ o.remade)
           /\ o.at = "upload" => /\ m \in FileMessage
                                 /\ dataChannels[o.channel] = o.meant \/ o.remade
  /\ MessagesReachPeer

PeerInv == RtcInv /\ ChanInv

LEMMA PeerInitInv == PeerInit => PeerInv
BY PeerAssumption
   DEF PeerInit, PeerInv, RtcInv, ChanInv, CandidatesComplete, MessagesReachPeer

LEMMA CreateStep ==
  ASSUME RtcInv, NEW p \in RtcPeer, CreatePeerConnection(p),
         \/ answered' = answered \ {p}
         \/ answered' = IF candidates[p] \cap ServerCandidate = {} THEN answered \cup {p}
                        ELSE answered \ {p}
  PROVE  RtcInv'
<1> DEFINE new == [ice_candidates |-> candidates[p], status |-> "connecting"]
<1>1. /\ connections' = [connections EXCEPT ![p] = new]
      /\ aliased' = IF candidates[p] = {} THEN aliased \ {p} ELSE aliased \cup {p}
      /\ due' = [due EXCEPT ![p] = granted[p]]
      /\ UNCHANGED <<credentials, candidates, granted>>
  BY DEF CreatePeerConnection
<1>2. new \in Connection /\ new.ice_candidates = candidates[p]
  BY DEF RtcInv, Connection
<1> HIDE DEF new
<1>3. /\ aliased' \subseteq RtcPeer /\ answered' \subseteq RtcPeer
      /\ due' \in [RtcPeer -> SUBSET Candidate]
      /\ connections' \in [RtcPeer -> Connection \cup {Unconnected}]
  BY <1>1, <1>2 DEF RtcInv, Candidate
<1>4. CandidatesComplete'
  BY <1>1, <1>2 DEF RtcInv, CandidatesComplete
<1>5. QED
  BY <1>1, <1>3, <1>4 DEF RtcInv

LEMMA GrantedStep ==
  ASSUME RtcInv, NEW p \in RtcPeer, NEW candidate \in ServerCandidate, Granted(p, candidate)
  PROVE  RtcInv'
BY DEF RtcInv, Granted, CandidatesComplete, Candidate

LEMMA AnswerStep ==
  ASSUME RtcInv, NEW p \in RtcPeer, HandleAnswer(p)
  PROVE  RtcInv'
<1>1. connections[p] \in Connection
  BY DEF RtcInv, HandleAnswer
<1>2. /\ connections' = [connections EXCEPT ![p] = [connections[p] EXCEPT !.status = "connected"]]
      /\ UNCHANGED <<credentials, candidates, aliased, granted, due, answered>>
  BY DEF HandleAnswer
<1>3. /\ [connections[p] EXCEPT !.status = "connected"] \in Connection
      /\ [connections[p] EXCEPT !.status = "connected"].ice_candidates = connections[p].ice_candidates
  BY <1>1 DEF Connection
<1>4. connections' \in [RtcPeer -> Connection \cup {Unconnected}]
  BY <1>2, <1>3 DEF RtcInv
<1>5. CandidatesComplete'
  BY <1>2, <1>3 DEF RtcInv, CandidatesComplete, HandleAnswer
<1>6. QED
  BY <1>2, <1>4, <1>5 DEF RtcInv

LEMMA CandidateStep ==
  ASSUME RtcInv, NEW p \in RtcPeer, NEW candidate \in Signalled, HandleCandidate(p, candidate)
  PROVE  RtcInv'
<1> DEFINE new == [connections[p] EXCEPT !.ice_candidates = @ \cup {candidate}]
<1>1. connections[p] \in Connection
  BY DEF RtcInv, HandleCandidate
<1>2. /\ connections' = [connections EXCEPT ![p] = new]
      /\ candidates' = [candidates EXCEPT ![p] = IF p \in aliased THEN @ \cup {candidate} ELSE @]
      /\ due' = [due EXCEPT ![p] = @ \cup {candidate}]
      /\ UNCHANGED <<credentials, aliased, granted, answered>>
  BY DEF HandleCandidate
<1>3. /\ new \in Connection
      /\ new.ice_candidates = connections[p].ice_candidates \cup {candidate}
  BY <1>1 DEF Connection, Candidate
<1> HIDE DEF new
<1>4. /\ connections' \in [RtcPeer -> Connection \cup {Unconnected}]
      /\ candidates' \in [RtcPeer -> SUBSET Candidate] /\ due' \in [RtcPeer -> SUBSET Candidate]
  BY <1>2, <1>3 DEF RtcInv, Candidate
<1>5. \A q \in RtcPeer : /\ granted[q] \subseteq candidates'[q]
                         /\ candidates'[q] \subseteq granted[q] \cup Signalled
  BY <1>2 DEF RtcInv
<1>6. CandidatesComplete'
  BY <1>2, <1>3, PeerAssumption DEF RtcInv, CandidatesComplete, HandleCandidate
<1>7. QED
  BY <1>2, <1>4, <1>5, <1>6 DEF RtcInv

\* A step of the other half of the manager leaves the invariant of this half alone.
LEMMA RtcIdle == RtcInv /\ UNCHANGED rtcVars => RtcInv'
BY DEF RtcInv, rtcVars, CandidatesComplete

LEMMA ChanIdle == ChanInv /\ UNCHANGED chanVars => ChanInv'
BY DEF ChanInv, chanVars, MessagesReachPeer

LEMMA RtcNextInv == PeerInv /\ [RtcNext]_peerVars => PeerInv'
<1> SUFFICES ASSUME PeerInv, [RtcNext]_peerVars PROVE PeerInv'
  OBVIOUS
<1>1. RtcInv /\ ChanInv
  BY DEF PeerInv
<1>2. ASSUME NEW p \in RtcPeer, Connect(p) \/ HandleOffer(p) PROVE PeerInv'
  <2>1. CreatePeerConnection(p) /\ UNCHANGED chanVars
    BY <1>2 DEF Connect, HandleOffer, CreatePeerConnection
  <2>2. QED
    BY <1>1, <1>2, <2>1, CreateStep, ChanIdle DEF Connect, HandleOffer, PeerInv
<1>3. ASSUME NEW p \in RtcPeer, NEW candidate \in ServerCandidate, Granted(p, candidate)
      PROVE  PeerInv'
  BY <1>1, <1>3, GrantedStep, ChanIdle DEF Granted, PeerInv
<1>4. ASSUME NEW p \in RtcPeer, HandleAnswer(p) PROVE PeerInv'
  BY <1>1, <1>4, AnswerStep, ChanIdle DEF HandleAnswer, PeerInv
<1>5. ASSUME NEW p \in RtcPeer, NEW candidate \in Signalled, HandleCandidate(p, candidate)
      PROVE  PeerInv'
  BY <1>1, <1>5, CandidateStep, ChanIdle DEF HandleCandidate, PeerInv
<1>6. ASSUME NEW u \in TurnUser, AddUser(u) PROVE PeerInv'
  <2>1. RtcInv'
    BY <1>1, <1>6 DEF AddUser, RtcInv, CandidatesComplete
  <2>2. QED
    BY <1>1, <1>6, <2>1, ChanIdle DEF AddUser, PeerInv
<1>7. CASE UNCHANGED peerVars
  BY <1>1, <1>7, RtcIdle, ChanIdle DEF peerVars, PeerInv
<1>8. QED
  BY <1>2, <1>3, <1>4, <1>5, <1>6, <1>7 DEF RtcNext, HandleStun, HandleTurn, ServerCandidate

\* Of the messages on their way, those of the channel are marked.
LEMMA ChannelMadeStep ==
  ASSUME ChanInv, NEW p \in RtcPeer, NEW c \in DataChannel, CreateDataChannel(p, c)
  PROVE  ChanInv'
<1> DEFINE marked == [m \in RtcMessage |-> [outgoing[m] EXCEPT !.remade = TRUE]]
<1>1. /\ dataChannels' = [dataChannels EXCEPT ![c] = p] /\ arrived' = arrived
      /\ outgoing' = [m \in RtcMessage |->
                        IF outgoing[m] # <<>> /\ outgoing[m].channel = c
                          THEN marked[m] ELSE outgoing[m]]
  BY DEF CreateDataChannel
<1>2. ASSUME NEW m \in RtcMessage, outgoing[m] # <<>>
      PROVE  /\ marked[m] \in Sending /\ marked[m].remade
             /\ \A f \in {"channel", "to", "meant", "at"} : marked[m][f] = outgoing[m][f]
  <2>1. outgoing[m] \in Sending
    BY <1>2 DEF ChanInv
  <2>2. QED
    BY <2>1 DEF Sending
<1> HIDE DEF marked
<1>3. /\ dataChannels' \in [DataChannel -> RtcPeer \cup {Unconnected}]
      /\ outgoing' \in [RtcMessage -> Sending \cup {<<>>}]
  BY <1>1, <1>2 DEF ChanInv
<1>4. \A d \in DataChannel : d # c => dataChannels'[d] = dataChannels[d]
  BY <1>1 DEF ChanInv
<1>5. dataChannels'[c] # Unconnected
  BY <1>1, PeerAssumption DEF ChanInv
<1>6. ASSUME NEW m \in RtcMessage, outgoing'[m] # <<>>
      PROVE  LET o == outgoing'[m]
             IN  /\ dataChannels'[o.channel] # Unconnected
                 /\ o.at = "stream" => o.to = o.meant \/ (m \in FileMessage /\ o.remade)
                 /\ o.at = "upload" => /\ m \in FileMessage
                                       /\ dataChannels'[o.channel] = o.meant \/ o.remade
  <2>1. outgoing[m] # <<>>
    BY <1>1, <1>6
  <2>2. outgoing[m] \in Sending /\ outgoing[m].channel \in DataChannel
    BY <2>1 DEF ChanInv, Sending
  <2>3. CASE outgoing[m].channel = c
    <3>1. outgoing'[m] = marked[m]
      BY <1>1, <2>1, <2>3
    <3>2. /\ marked[m].channel = c /\ marked[m].remade
          /\ marked[m].at = outgoing[m].at
          /\ marked[m].to = outgoing[m].to /\ marked[m].meant = outgoing[m].meant
      BY <1>2, <2>1, <2>3
    <3>3. QED
      BY <1>5, <2>1, <3>1, <3>2 DEF ChanInv
  <2>4. CASE outgoing[m].channel # c
    BY <1>1, <1>4, <2>1, <2>2, <2>4 DEF ChanInv
  <2>5. QED
    BY <2>3, <2>4
<1>7. MessagesReachPeer'
  BY <1>1 DEF ChanInv, MessagesReachPeer
<1>8. QED
  BY <1>3, <1>6, <1>7 DEF ChanInv

LEMMA SendStep ==
  ASSUME ChanInv, NEW c \in DataChannel, NEW m \in RtcMessage, SendMessage(c, m)
  PROVE  ChanInv'
<1> DEFINE new == [channel |-> c, to |-> dataChannels[c], meant |-> dataChannels[c],
                   remade |-> FALSE, at |-> IF m \in FileMessage THEN "upload" ELSE "stream"]
<1>1. /\ dataChannels[c] # Unconnected /\ dataChannels[c] \in RtcPeer
      /\ outgoing' = [outgoing EXCEPT ![m] = new]
      /\ UNCHANGED <<dataChannels, arrived>>
  BY DEF SendMessage, ChanInv
<1>2. /\ new \in Sending /\ new.channel = c /\ new.to = new.meant
      /\ new.meant = dataChannels[c]
      /\ new.at = "upload" => m \in FileMessage
  BY <1>1 DEF Sending
<1> HIDE DEF new
<1>3. outgoing' \in [RtcMessage -> Sending \cup {<<>>}]
  BY <1>1, <1>2 DEF ChanInv
<1>4. outgoing'[m] = new /\ \A k \in RtcMessage \ {m} : outgoing'[k] = outgoing[k]
  BY <1>1 DEF ChanInv
<1>5. QED
  BY <1>1, <1>2, <1>3, <1>4 DEF ChanInv, MessagesReachPeer

LEMMA FileUploadedStep ==
  ASSUME ChanInv, NEW m \in RtcMessage, FileUploaded(m)
  PROVE  ChanInv'
<1> DEFINE o == outgoing[m]
           new == [o EXCEPT !.at = "stream", !.to = dataChannels[o.channel]]
<1>1. /\ o # <<>> /\ o.at = "upload"
      /\ outgoing' = [outgoing EXCEPT ![m] = new]
      /\ UNCHANGED <<dataChannels, arrived>>
  BY DEF FileUploaded, ChanInv
<1>2. /\ o \in Sending /\ dataChannels[o.channel] \in RtcPeer /\ m \in FileMessage
      /\ dataChannels[o.channel] = o.meant \/ o.remade
  BY <1>1 DEF ChanInv, Sending
<1>3. /\ new \in Sending /\ new.channel = o.channel /\ new.to = dataChannels[o.channel]
      /\ new.meant = o.meant /\ new.at = "stream" /\ new.remade = o.remade
  BY <1>2 DEF Sending
<1> HIDE DEF new
<1>4. outgoing' \in [RtcMessage -> Sending \cup {<<>>}]
  BY <1>1, <1>3 DEF ChanInv
<1>5. outgoing'[m] = new /\ \A k \in RtcMessage \ {m} : outgoing'[k] = outgoing[k]
  BY <1>1 DEF ChanInv
<1>6. QED
  BY <1>1, <1>2, <1>3, <1>4, <1>5 DEF ChanInv, MessagesReachPeer

\* A message leaves, whether it is written or its upload or its stream raises.
LEMMA LeavesStep ==
  ASSUME ChanInv, NEW m \in RtcMessage, SentThroughChannel(m) \/ SendRaises(m)
  PROVE  ChanInv'
<1>1. /\ outgoing' = [outgoing EXCEPT ![m] = <<>>] /\ UNCHANGED dataChannels
      /\ outgoing[m] # <<>>
  BY DEF SentThroughChannel, SendRaises
<1>2. outgoing' \in [RtcMessage -> Sending \cup {<<>>}]
  BY <1>1 DEF ChanInv
<1>3. outgoing'[m] = <<>> /\ \A k \in RtcMessage \ {m} : outgoing'[k] = outgoing[k]
  BY <1>1 DEF ChanInv
<1>4. MessagesReachPeer'
  BY <1>1 DEF SentThroughChannel, SendRaises, ChanInv, MessagesReachPeer
<1>5. QED
  BY <1>1, <1>2, <1>3, <1>4 DEF ChanInv

LEMMA ChannelNextInv == PeerInv /\ [ChannelNext]_peerVars => PeerInv'
<1> SUFFICES ASSUME PeerInv, [ChannelNext]_peerVars PROVE PeerInv'
  OBVIOUS
<1>1. RtcInv /\ ChanInv
  BY DEF PeerInv
<1>2. ASSUME NEW p \in RtcPeer, Connect(p) PROVE PeerInv'
  <2>1. CreatePeerConnection(p) /\ answered' = answered \ {p} /\ UNCHANGED chanVars
    BY <1>2 DEF Connect, CreatePeerConnection
  <2>2. QED
    BY <1>1, <2>1, CreateStep, ChanIdle DEF PeerInv
<1>3. ASSUME NEW p \in RtcPeer, NEW c \in DataChannel, CreateDataChannel(p, c) PROVE PeerInv'
  BY <1>1, <1>3, ChannelMadeStep, RtcIdle DEF CreateDataChannel, PeerInv
<1>4. ASSUME NEW m \in RtcMessage, NEW c \in DataChannel, SendMessage(c, m) PROVE PeerInv'
  BY <1>1, <1>4, SendStep, RtcIdle DEF SendMessage, PeerInv
<1>5. ASSUME NEW m \in RtcMessage, FileUploaded(m) PROVE PeerInv'
  BY <1>1, <1>5, FileUploadedStep, RtcIdle DEF FileUploaded, PeerInv
<1>6. ASSUME NEW m \in RtcMessage, SentThroughChannel(m) \/ SendRaises(m) PROVE PeerInv'
  BY <1>1, <1>6, LeavesStep, RtcIdle DEF SentThroughChannel, SendRaises, PeerInv
<1>7. CASE UNCHANGED peerVars
  BY <1>1, <1>7, RtcIdle, ChanIdle DEF peerVars, PeerInv
<1>8. QED
  BY <1>2, <1>3, <1>4, <1>5, <1>6, <1>7 DEF ChannelNext

-----------------------------------------------------------------------------
(* Broadcasts: any peers and results, and peers connected meanwhile.       *)

\* No result has more votes than the one ConsensusResult points at.
LEMMA ConsensusIsPlurality ==
  ASSUME NEW s \in Seq(Result), s # << >>
  PROVE  /\ s[ConsensusResult(s)] \in Result
         /\ \A r \in Result : Votes(s, r) <= Votes(s, s[ConsensusResult(s)])
<1> DEFINE voters(r) == {i \in DOMAIN s : s[i] = r}
           score == [i \in DOMAIN s |-> Votes(s, s[i])]
           I == {i \in 1 .. Len(s) :
                   \A x \in ToSet(s) : Votes(s, x) <= Votes(s, s[i])}
<1>1. Len(s) \in Nat \ {0} /\ DOMAIN s = 1 .. Len(s) /\ s \in [1 .. Len(s) -> Result]
  BY EmptySeq, LenProperties
<1>2. IsFiniteSet(DOMAIN s) /\ DOMAIN s # {}
  <2>1. 1 \in Int /\ Len(s) \in Int /\ 1 \in 1 .. Len(s)
    BY <1>1
  <2>2. IsFiniteSet(1 .. Len(s))
    BY <2>1, FS_Interval
  <2>3. QED
    BY <1>1, <2>1, <2>2
<1>3. ASSUME NEW r PROVE Votes(s, r) \in Nat /\ (r \notin ToSet(s) => Votes(s, r) = 0)
  <2>1. voters(r) \in SUBSET DOMAIN s
    OBVIOUS
  <2>2. IsFiniteSet(voters(r))
    BY <1>2, <2>1, FS_Subset
  <2>3. r \notin ToSet(s) => voters(r) = {}
    BY DEF ToSet
  <2>4. Votes(s, r) = Cardinality(voters(r))
    BY DEF Votes
  <2> HIDE DEF voters
  <2>5. QED
    BY <2>2, <2>3, <2>4, FS_CardinalityType, FS_EmptySet
<1>4. score \in [DOMAIN s -> Int]
  BY <1>3
<1>5. PICK best \in DOMAIN s : \A i \in DOMAIN s : score[i] <= score[best]
  <2> HIDE DEF score
  <2>1. QED
    BY <1>2, <1>4, BestExists
<1>6. best \in I
  BY <1>1, <1>5 DEF ToSet
<1>7. ConsensusResult(s) = Min(I)
  BY <1>6 DEF ConsensusResult, SelectInSeq
<1>8. Min(I) \in I
  <2>1. I \in SUBSET Nat /\ I # {}
    BY <1>6
  <2> HIDE DEF I
  <2>2. \E x \in I : \A y \in I : x <= y
    BY <2>1, LeastExists
  <2>3. QED
    BY <2>2 DEF Min
<1>9. PICK c \in I : c = ConsensusResult(s)
  BY <1>7, <1>8
<1>10. ASSUME NEW r \in Result PROVE Votes(s, r) <= Votes(s, s[c])
  BY <1>3, <1>9
<1>11. QED
  BY <1>1, <1>9, <1>10

\* While the set has not grown, a broadcast that has asked as many peers as there are
\* has asked them all.
NetInv ==
  /\ netPeers \subseteq NetPeer
  /\ broadcast # <<>> =>
       /\ broadcast \in [size : Nat, done : SUBSET NetPeer, responses : Seq(Result)]
       /\ broadcast.done \subseteq netPeers
  /\ agreed # <<>> => agreed.result \in Result /\ agreed.current \in BOOLEAN
  /\ ConsensusOfAll

LEMMA NetInitInv == NetInit => NetInv
BY DEF NetInit, NetInv, ConsensusOfAll

LEMMA ReturnsStep == NetInv /\ BroadcastReturns => NetInv'
<1> SUFFICES ASSUME NetInv, BroadcastReturns PROVE NetInv'
  OBVIOUS
<1> DEFINE s == broadcast.responses
           done == broadcast.done
<1>1. /\ broadcast # <<>> /\ broadcast.size = Cardinality(netPeers)
      /\ Cardinality(done) >= broadcast.size /\ s # << >>
      /\ agreed' = [result |-> s[ConsensusResult(s)], responses |-> s,
                    current |-> netPeers = done]
      /\ broadcast' = <<>> /\ netPeers' = netPeers
  BY DEF BroadcastReturns, Iterating
<1>2. netPeers \subseteq NetPeer /\ done \subseteq netPeers /\ s \in Seq(Result)
  BY <1>1 DEF NetInv
<1>3. IsFiniteSet(netPeers)
  BY <1>2, NetAssumption, FS_Subset
<1>4. done = netPeers
  <2>1. /\ Cardinality(done) <= Cardinality(netPeers)
        /\ Cardinality(netPeers) = Cardinality(done) => netPeers = done
        /\ IsFiniteSet(done)
    BY <1>2, <1>3, FS_Subset
  <2>2. Cardinality(done) \in Nat /\ Cardinality(netPeers) \in Nat
    BY <1>3, <2>1, FS_CardinalityType
  <2>3. QED
    BY <1>1, <2>1, <2>2
<1>5. /\ s[ConsensusResult(s)] \in Result
      /\ \A r \in Result : Votes(s, r) <= Votes(s, s[ConsensusResult(s)])
  BY <1>1, <1>2, ConsensusIsPlurality
<1> HIDE DEF s, done
<1>6. agreed'.result = s[ConsensusResult(s)] /\ agreed'.responses = s /\ agreed'.current = TRUE
  BY <1>1, <1>4
<1>7. QED
  BY <1>1, <1>2, <1>5, <1>6 DEF NetInv, ConsensusOfAll

LEMMA NetNextInv == NetInv /\ [NetNext]_netVars => NetInv'
<1> SUFFICES ASSUME NetInv, [NetNext]_netVars PROVE NetInv'
  OBVIOUS
<1>1. ASSUME NEW p \in NetPeer, ConnectToPeer(p) PROVE NetInv'
  BY <1>1 DEF ConnectToPeer, NetInv, ConsensusOfAll
<1>2. ASSUME NEW p \in NetPeer, PeerResponds(p) PROVE NetInv'
  <2>1. PICK given \in {<<>>} \cup {<<r>> : r \in Result} :
          broadcast' = [broadcast EXCEPT !.done = @ \cup {p}, !.responses = @ \o given]
    BY <1>2 DEF PeerResponds
  <2>2. /\ broadcast # <<>> /\ p \in netPeers /\ UNCHANGED <<netPeers, agreed>>
    BY <1>2 DEF PeerResponds, Iterating
  <2>3. broadcast.responses \o given \in Seq(Result)
    <3>1. given = <<>> \/ \E r \in Result : given = <<r>>
      BY <2>1
    <3>2. broadcast.responses \in Seq(Result)
      BY <2>2 DEF NetInv
    <3>3. \A r \in Result : <<r>> \in Seq(Result)
      OBVIOUS
    <3>4. given \in Seq(Result)
      BY <3>1, <3>3, EmptySeq
    <3>5. QED
      BY <3>2, <3>4, ConcatProperties
  <2>4. /\ broadcast' \in [size : Nat, done : SUBSET NetPeer, responses : Seq(Result)]
        /\ broadcast'.done \subseteq netPeers
    BY <2>1, <2>2, <2>3 DEF NetInv
  <2>5. QED
    BY <2>2, <2>4 DEF NetInv, ConsensusOfAll
<1>3. CASE BroadcastInferenceRequest
  <2>1. Cardinality(netPeers) \in Nat
    BY NetAssumption, FS_Subset, FS_CardinalityType DEF NetInv
  <2>2. /\ broadcast' = [size |-> Cardinality(netPeers), done |-> {}, responses |-> <<>>]
        /\ UNCHANGED <<netPeers, agreed>>
    BY <1>3 DEF BroadcastInferenceRequest
  <2>3. broadcast' \in [size : Nat, done : SUBSET NetPeer, responses : Seq(Result)]
    BY <2>1, <2>2
  <2>4. QED
    BY <2>2, <2>3 DEF NetInv, ConsensusOfAll
<1>4. CASE BroadcastRaises
  BY <1>4 DEF BroadcastRaises, NetInv, ConsensusOfAll
<1>5. CASE UNCHANGED netVars
  BY <1>5 DEF netVars, NetInv, ConsensusOfAll
<1>6. QED
  BY <1>1, <1>2, <1>3, <1>4, <1>5, ReturnsStep DEF NetNext

-----------------------------------------------------------------------------
\* Peers are reached: a connection has all candidates that were granted before it and
\* signalled since, a message arrives where it was handed to, and a broadcast that
\* returns has asked every peer and gives a result no other has more votes than.
THEOREM PeersAreReached == ServicesSpec => []PeersReached
<1>1. ServicesInit => PeerInv /\ NetInv
  BY PeerInitInv, NetInitInv DEF ServicesInit
<1>2. [ServicesNext]_serviceVars => [RtcNext]_peerVars \/ [ChannelNext]_peerVars
  BY DEF ServicesNext, OthersIdle, serviceVars
<1>3. [ServicesNext]_serviceVars => [NetNext]_netVars
  BY DEF ServicesNext, OthersIdle, serviceVars
<1>4. PeerInv /\ NetInv /\ [ServicesNext]_serviceVars => PeerInv' /\ NetInv'
  BY <1>2, <1>3, RtcNextInv, ChannelNextInv, NetNextInv
<1>5. ServicesSpec => [](PeerInv /\ NetInv)
  BY <1>1, <1>4, PTL DEF ServicesSpec
<1>6. PeerInv /\ NetInv => PeersReached
  BY DEF PeerInv, RtcInv, ChanInv, NetInv, PeersReached
<1>7. QED
  BY <1>5, <1>6, PTL

-----------------------------------------------------------------------------
(* The DAO: any nodes, proposals, terms and deployments, over a bus.       *)

Voted(n, p) == {v \in Node : votes[n][p][v] # "none"}

Answer == {"none", "yes", "no"}
Signed == [proposer : Node, created : Nat, quorum : Nat, threshold : Nat, period : Nat]

GovTypes ==
  /\ now \in Nat
  /\ terms \in [Proposal -> Signed \cup {NotMade}]
  /\ uploading \subseteq Proposal /\ announced \subseteq Proposal
  /\ cast \subseteq [proposal : Proposal, voter : Node, vote : {"yes", "no"}]
  /\ proposals \in [Node -> Seq(Proposal)]
  /\ votes \in [Node -> [Proposal -> [Node -> Answer]]]
  /\ executed \in [Node -> SUBSET Proposal]
  /\ ran \in [Node -> [Proposal -> Nat]]
  /\ deployment \in Deployments
  /\ proposal_stages \in [Proposal -> Stage]

\* Whatever is known, announced, voted on or reviewed was made.
OnlyMade ==
  /\ \A p \in uploading \cup announced : Made(p)
  /\ \A c \in cast : Made(c.proposal)
  /\ \A n \in Node : \A i \in DOMAIN proposals[n] : Made(proposals[n][i])
  /\ \A p \in Proposal : proposal_stages[p] # "none" => Made(p)

\* A vote that is counted anywhere was cast.
VotesWereCast ==
  \A n \in Node, p \in Proposal : \A v \in Voted(n, p) :
    \E c \in cast : c.proposal = p /\ c.voter = v

\* The votes that decided do not become fewer, for a vote is replaced by a vote.
DecidedHasVotes ==
  \A n \in Node, p \in Proposal : p \in executed[n] =>
    /\ Made(p) /\ now >= Deadline(p)
    /\ Cardinality(Voted(n, p)) >= terms[p].quorum

\* No proposal that has frozen the system leaves its last stage.
FreezersApproved ==
  /\ freeze_proposals \subseteq {p \in Proposal : proposal_stages[p] = "approved"}
  /\ freeze_active => freeze_proposals # {}

DaoInv ==
  /\ GovTypes /\ OnlyMade /\ VotesWereCast /\ DecidedHasVotes /\ ExecutionsAccounted
  /\ FreezersApproved

-----------------------------------------------------------------------------
\* All votes are counted, each as a yes or a no.
LEMMA VotesCounted ==
  ASSUME GovTypes, NEW n \in Node, NEW p \in Proposal
  PROVE  /\ TotalVotes(n, p) = Cardinality(Voted(n, p))
         /\ IsFiniteSet(Voted(n, p)) /\ TotalVotes(n, p) \in Nat
<1> DEFINE yes == {v \in Node : votes[n][p][v] = "yes"}
           no == {v \in Node : votes[n][p][v] = "no"}
<1>1. /\ yes \in SUBSET Node /\ no \in SUBSET Node /\ yes \cap no = {}
      /\ Voted(n, p) = yes \cup no
  BY DEF GovTypes, Voted, Answer
<1>2. TotalVotes(n, p) = Cardinality(yes) + Cardinality(no)
  BY DEF TotalVotes, Count
<1> HIDE DEF yes, no
<1>3. IsFiniteSet(yes) /\ IsFiniteSet(no)
  BY <1>1, GovernanceAssumption, FS_Subset
<1>4. /\ Cardinality(yes) \in Nat /\ Cardinality(no) \in Nat
      /\ Cardinality(yes \cap no) = 0
  BY <1>1, <1>3, FS_CardinalityType, FS_EmptySet
<1>5. /\ IsFiniteSet(yes \cup no)
      /\ Cardinality(yes \cup no) = Cardinality(yes) + Cardinality(no) - Cardinality(yes \cap no)
  BY <1>3, FS_Union
<1>6. QED
  BY <1>1, <1>2, <1>4, <1>5

\* Where no vote is taken back, no proposal has fewer votes than before.
LEMMA VotesStay ==
  ASSUME GovTypes, NEW n \in Node, NEW p \in Proposal, NEW W \in SUBSET Node,
         Voted(n, p) \subseteq W
  PROVE  Cardinality(Voted(n, p)) <= Cardinality(W) /\ Cardinality(W) \in Nat
<1>1. IsFiniteSet(W)
  BY GovernanceAssumption, FS_Subset
<1>2. QED
  BY <1>1, FS_Subset, FS_CardinalityType

LEMMA MadeTerms ==
  ASSUME GovTypes, NEW p \in Proposal, Made(p)
  PROVE  terms[p] \in Signed /\ Deadline(p) \in Nat
<1>1. terms[p] \in Signed
  BY DEF GovTypes, Made
<1>2. QED
  BY <1>1 DEF Signed, Deadline

LEMMA KnownIsMade ==
  ASSUME OnlyMade, NEW n \in Node, NEW p, Knows(n, p)
  PROVE  Made(p)
BY DEF OnlyMade, Knows, ToSet

LEMMA StoredKeepsMade ==
  ASSUME GovTypes, OnlyMade, NEW n \in Node, NEW p \in Proposal
  PROVE  /\ Stored(n, p) \in Seq(Proposal)
         /\ \A i \in DOMAIN Stored(n, p) : Stored(n, p)[i] = p \/ Made(Stored(n, p)[i])
<1>1. proposals[n] \in Seq(Proposal)
  BY DEF GovTypes
<1>2. CASE Knows(n, p)
  BY <1>1, <1>2 DEF Stored, OnlyMade
<1>3. CASE ~Knows(n, p)
  <2>1. Stored(n, p) = Append(proposals[n], p)
    BY <1>3 DEF Stored
  <2>2. /\ Append(proposals[n], p) \in Seq(Proposal)
        /\ DOMAIN Append(proposals[n], p) = 1 .. Len(proposals[n]) + 1
        /\ \A i \in 1 .. Len(proposals[n]) : Append(proposals[n], p)[i] = proposals[n][i]
        /\ Append(proposals[n], p)[Len(proposals[n]) + 1] = p
    BY <1>1, AppendProperties
  <2>3. DOMAIN proposals[n] = 1 .. Len(proposals[n]) /\ Len(proposals[n]) \in Nat
    BY <1>1, LenProperties
  <2>4. QED
    BY <2>1, <2>2, <2>3 DEF OnlyMade
<1>4. QED
  BY <1>2, <1>3

-----------------------------------------------------------------------------
LEMMA DaoInitInv == LolInit => DaoInv
<1> SUFFICES ASSUME LolInit PROVE DaoInv
  OBVIOUS
<1> USE DEF LolInit, GovInit
<1>1. GovTypes
  <2>1. \A n \in Node : proposals[n] \in Seq(Proposal)
    BY EmptySeq
  <2>2. QED
    BY <2>1 DEF GovTypes, Answer, Stage
<1>2. OnlyMade
  BY DEF OnlyMade
<1>3. VotesWereCast /\ DecidedHasVotes /\ ExecutionsAccounted /\ FreezersApproved
  BY DEF VotesWereCast, Voted, DecidedHasVotes, ExecutionsAccounted, FreezersApproved, Made
<1>4. QED
  BY <1>1, <1>2, <1>3 DEF DaoInv

\* create_proposal: what was made before keeps its terms.
LEMMA ProposeStep ==
  ASSUME DaoInv, NEW n \in Node, NEW p \in Proposal, NEW t \in Terms,
         CreateProposal(n, p, t), UNCHANGED <<daoVars, deployment>>
  PROVE  DaoInv'
<1> DEFINE new == [proposer |-> n, created |-> now, quorum |-> t.quorum,
                   threshold |-> t.threshold, period |-> t.period]
<1>1. /\ ~Made(p) /\ terms' = [terms EXCEPT ![p] = new]
      /\ proposals' = [proposals EXCEPT ![n] = Stored(n, p)]
      /\ uploading' = uploading \cup {p}
      /\ UNCHANGED <<now, announced, cast, votes, executed, ran>>
      /\ UNCHANGED <<daoVars, deployment>>
  BY DEF CreateProposal
<1>2. new \in Signed /\ new # NotMade
  <2>1. t \in [quorum : Nat, threshold : Nat, period : Nat] /\ now \in Nat
    BY GovernanceAssumption DEF DaoInv, GovTypes
  <2>2. new \in Signed
    BY <2>1 DEF Signed
  <2>3. "created" \in DOMAIN new /\ "created" \notin DOMAIN NotMade
    BY DEF NotMade
  <2>4. QED
    BY <2>2, <2>3
<1> HIDE DEF new
<1>3. terms' \in [Proposal -> Signed \cup {NotMade}]
  BY <1>1, <1>2 DEF DaoInv, GovTypes
<1>4. Made(p)' /\ \A q \in Proposal \ {p} : terms'[q] = terms[q] /\ (Made(q)' <=> Made(q))
  BY <1>1, <1>2 DEF DaoInv, GovTypes, Made
<1>5. \A q \in Proposal : Made(q) => Made(q)' /\ terms'[q] = terms[q]
                                     /\ (Deadline(q)' = Deadline(q))
  BY <1>1, <1>4 DEF Deadline
<1>6. GovTypes'
  <2>1. Stored(n, p) \in Seq(Proposal)
    BY StoredKeepsMade DEF DaoInv
  <2>2. QED
    BY <1>1, <1>3, <2>1 DEF DaoInv, GovTypes, daoVars
<1>7. OnlyMade'
  <2>1. \A k \in Node : \A i \in DOMAIN proposals'[k] :
          proposals'[k][i] = p \/ Made(proposals'[k][i])
    <3>1. \A i \in DOMAIN Stored(n, p) : Stored(n, p)[i] = p \/ Made(Stored(n, p)[i])
      BY StoredKeepsMade DEF DaoInv
    <3>2. proposals'[n] = Stored(n, p) /\ \A k \in Node \ {n} : proposals'[k] = proposals[k]
      BY <1>1 DEF DaoInv, GovTypes
    <3>3. QED
      BY <3>1, <3>2 DEF DaoInv, OnlyMade
  <2>2. \A k \in Node : \A i \in DOMAIN proposals'[k] : proposals'[k][i] \in Proposal
    <3>1. \A k \in Node : proposals'[k] \in Seq(Proposal)
      BY <1>6 DEF GovTypes
    <3>2. QED
      BY <3>1, ElementOfSeq, LenProperties
  <2>3. \A c \in cast : c.proposal \in Proposal
    BY DEF DaoInv, GovTypes
  <2>4. QED
    BY <1>1, <1>4, <1>5, <2>1, <2>2, <2>3 DEF DaoInv, OnlyMade, GovTypes, daoVars
<1>8. VotesWereCast' /\ FreezersApproved'
  BY <1>1 DEF DaoInv, VotesWereCast, Voted, FreezersApproved, daoVars
<1>9. DecidedHasVotes'
  BY <1>1, <1>5 DEF DaoInv, DecidedHasVotes, Voted
<1>10. ExecutionsAccounted'
  <2>1. proposal_stages[p] = "none"
    BY <1>1 DEF DaoInv, OnlyMade
  <2>2. QED
    BY <1>1, <1>4, <2>1 DEF DaoInv, ExecutionsAccounted, daoVars
<1>11. QED
  BY <1>6, <1>7, <1>8, <1>9, <1>10 DEF DaoInv

\* Messages of the bus, and the uploads that precede them.
LEMMA AnnounceStep ==
  ASSUME DaoInv, UNCHANGED <<daoVars, deployment>>,
         \/ \E p \in uploading : Announce(p) \/ AnnounceFails(p)
         \/ GovTick
  PROVE  DaoInv'
<1>1. /\ UNCHANGED <<terms, cast, proposals, votes, executed, ran>>
      /\ uploading' \subseteq uploading /\ announced' \subseteq announced \cup uploading
      /\ now' \in {now, now + 1}
  BY DEF Announce, AnnounceFails, GovTick
<1>2. GovTypes' /\ OnlyMade' /\ VotesWereCast' /\ ExecutionsAccounted' /\ FreezersApproved'
  BY <1>1 DEF DaoInv, GovTypes, OnlyMade, VotesWereCast, ExecutionsAccounted, FreezersApproved,
     Made, Voted, daoVars
<1>3. DecidedHasVotes'
  <2>1. now \in Nat /\ now' \in Nat /\ now' >= now
    BY <1>1 DEF DaoInv, GovTypes
  <2>2. ASSUME NEW n \in Node, NEW p \in Proposal, p \in executed[n]
        PROVE  Deadline(p) \in Nat /\ now >= Deadline(p) /\ Deadline(p)' = Deadline(p)
    BY <1>1, <2>2, MadeTerms DEF DaoInv, DecidedHasVotes, Deadline
  <2>3. QED
    BY <1>1, <2>1, <2>2 DEF DaoInv, DecidedHasVotes, Voted, Made
<1>4. QED
  BY <1>2, <1>3 DEF DaoInv

LEMMA HandleProposalStep ==
  ASSUME DaoInv, NEW n \in Node, NEW p \in Proposal, HandleProposal(n, p),
         UNCHANGED <<daoVars, deployment>>
  PROVE  DaoInv'
<1>1. /\ p \in announced /\ proposals' = [proposals EXCEPT ![n] = Stored(n, p)]
      /\ UNCHANGED <<now, terms, uploading, announced, cast, votes, executed, ran>>
  BY DEF HandleProposal
<1>2. /\ Stored(n, p) \in Seq(Proposal)
      /\ \A i \in DOMAIN Stored(n, p) : Made(Stored(n, p)[i])
  BY <1>1, StoredKeepsMade DEF DaoInv, OnlyMade
<1>3. proposals'[n] = Stored(n, p) /\ \A k \in Node \ {n} : proposals'[k] = proposals[k]
  BY <1>1 DEF DaoInv, GovTypes
<1>4. GovTypes' /\ OnlyMade'
  BY <1>1, <1>2, <1>3 DEF DaoInv, GovTypes, OnlyMade, Made, daoVars
<1>5. VotesWereCast' /\ DecidedHasVotes' /\ ExecutionsAccounted' /\ FreezersApproved'
  BY <1>1 DEF DaoInv, VotesWereCast, DecidedHasVotes, ExecutionsAccounted, FreezersApproved,
     Made, Voted, Deadline, daoVars
<1>6. QED
  BY <1>4, <1>5 DEF DaoInv

\* A vote is entered where it was cast, and where it arrives.
LEMMA VoteStep ==
  ASSUME DaoInv, NEW n \in Node, UNCHANGED <<daoVars, deployment>>,
         \/ \E p \in Proposal, vote \in {"yes", "no"} : VoteOnProposal(n, p, vote)
         \/ \E c \in cast : HandleVote(n, c)
  PROVE  DaoInv'
<1>1. PICK p \in Proposal, v \in Node, vote \in {"yes", "no"} :
        /\ Made(p)
        /\ votes' = [votes EXCEPT ![n][p][v] = vote]
        /\ cast' = cast \cup {[proposal |-> p, voter |-> v, vote |-> vote]}
        /\ UNCHANGED <<now, terms, uploading, announced, proposals, executed, ran>>
  <2>1. ASSUME NEW p \in Proposal, NEW vote \in {"yes", "no"}, VoteOnProposal(n, p, vote)
        PROVE  /\ Made(p)
               /\ votes' = [votes EXCEPT ![n][p][n] = vote]
               /\ cast' = cast \cup {[proposal |-> p, voter |-> n, vote |-> vote]}
               /\ UNCHANGED <<now, terms, uploading, announced, proposals, executed, ran>>
    BY <2>1, KnownIsMade DEF VoteOnProposal, DaoInv
  <2>2. ASSUME NEW c \in cast, HandleVote(n, c)
        PROVE  /\ Made(c.proposal) /\ c.proposal \in Proposal /\ c.voter \in Node
               /\ c.vote \in {"yes", "no"}
               /\ votes' = [votes EXCEPT ![n][c.proposal][c.voter] = c.vote]
               /\ cast' = cast \cup {[proposal |-> c.proposal, voter |-> c.voter,
                                      vote |-> c.vote]}
               /\ UNCHANGED <<now, terms, uploading, announced, proposals, executed, ran>>
    <3>1. c \in [proposal : Proposal, voter : Node, vote : {"yes", "no"}]
      BY DEF DaoInv, GovTypes
    <3>2. c = [proposal |-> c.proposal, voter |-> c.voter, vote |-> c.vote]
      BY <3>1
    <3>3. QED
      BY <2>2, <3>1, <3>2 DEF HandleVote, DaoInv, OnlyMade
  <2>3. QED
    BY <2>1, <2>2
<1>2. /\ votes' \in [Node -> [Proposal -> [Node -> Answer]]]
      /\ votes'[n][p][v] = vote
      /\ \A k \in Node, q \in Proposal, w \in Node :
           (k = n /\ q = p /\ w = v) \/ votes'[k][q][w] = votes[k][q][w]
  BY <1>1 DEF DaoInv, GovTypes, Answer
<1>3. GovTypes' /\ OnlyMade'
  BY <1>1, <1>2 DEF DaoInv, GovTypes, OnlyMade, Made, daoVars
<1>4. \A k \in Node, q \in Proposal : /\ Voted(k, q) \subseteq Voted(k, q)'
                                      /\ Voted(k, q)' \in SUBSET Node
  <2>1. vote # "none"
    OBVIOUS
  <2>2. QED
    BY <1>2, <2>1 DEF Voted
<1>5. VotesWereCast'
  <2> SUFFICES ASSUME NEW k \in Node, NEW q \in Proposal, NEW w \in Voted(k, q)'
               PROVE  \E c \in cast' : c.proposal = q /\ c.voter = w
    BY DEF VotesWereCast
  <2>1. CASE k = n /\ q = p /\ w = v
    <3>1. [proposal |-> p, voter |-> v, vote |-> vote] \in cast'
      BY <1>1
    <3>2. QED
      BY <2>1, <3>1
  <2>2. CASE ~(k = n /\ q = p /\ w = v)
    <3>1. w \in Voted(k, q)
      BY <1>2, <2>2 DEF Voted
    <3>2. QED
      BY <1>1, <3>1 DEF DaoInv, VotesWereCast
  <2>3. QED
    BY <2>1, <2>2
<1>6. DecidedHasVotes'
  <2> SUFFICES ASSUME NEW k \in Node, NEW q \in Proposal, q \in executed'[k]
               PROVE  /\ Made(q)' /\ now' >= Deadline(q)'
                      /\ Cardinality(Voted(k, q)') >= terms'[q].quorum
    BY DEF DecidedHasVotes
  <2>1. /\ Made(q) /\ now >= Deadline(q) /\ Cardinality(Voted(k, q)) >= terms[q].quorum
        /\ terms[q] \in Signed
    BY <1>1, MadeTerms DEF DaoInv, DecidedHasVotes
  <2>2. /\ Cardinality(Voted(k, q)) <= Cardinality(Voted(k, q)')
        /\ Cardinality(Voted(k, q)') \in Nat
    BY <1>4, VotesStay DEF DaoInv
  <2>3. Cardinality(Voted(k, q)) \in Nat
    BY VotesCounted DEF DaoInv
  <2>4. QED
    BY <1>1, <2>1, <2>2, <2>3 DEF Made, Deadline, Signed
<1>7. ExecutionsAccounted' /\ FreezersApproved'
  BY <1>1 DEF DaoInv, ExecutionsAccounted, FreezersApproved, Made, daoVars
<1>8. QED
  BY <1>3, <1>5, <1>6, <1>7 DEF DaoInv

\* A pass of the loop decides proposals that were open, each with its quorum.
LEMMA ProcessReadyStep ==
  ASSUME DaoInv, NEW n \in Node, ProcessReadyProposals(n), UNCHANGED <<daoVars, deployment>>
  PROVE  DaoInv'
<1> DEFINE decided == {p \in Proposal : Reached(n, p) /\ Ready(n, p)}
           more(p) == p \in decided /\ Passes(n, p)
<1>1. /\ executed' = [executed EXCEPT ![n] = @ \cup decided]
      /\ ran' = [ran EXCEPT ![n] = [p \in Proposal |->
                   IF more(p) THEN @[p] + 1 ELSE @[p]]]
      /\ UNCHANGED <<now, terms, uploading, announced, cast, proposals, votes>>
  BY DEF ProcessReadyProposals
<1>2. ASSUME NEW p \in decided
      PROVE  /\ p \in Proposal /\ Made(p) /\ p \notin executed[n] /\ now >= Deadline(p)
             /\ Cardinality(Voted(n, p)) >= terms[p].quorum
  <2>1. Ready(n, p) /\ Reached(n, p) /\ p \in Proposal
    OBVIOUS
  <2>2. Made(p)
    BY <2>1 DEF Reached, DaoInv, OnlyMade
  <2>3. QED
    BY <2>1, <2>2, VotesCounted DEF Ready, DaoInv
<1>3. decided \subseteq Proposal
  OBVIOUS
<1>4. /\ ran' \in [Node -> [Proposal -> Nat]]
      /\ \A p \in Proposal : ran'[n][p] = IF more(p) THEN ran[n][p] + 1 ELSE ran[n][p]
      /\ \A k \in Node \ {n} : ran'[k] = ran[k]
  BY <1>1 DEF DaoInv, GovTypes
<1>5. /\ executed' \in [Node -> SUBSET Proposal]
      /\ executed'[n] = executed[n] \cup decided
      /\ \A k \in Node \ {n} : executed'[k] = executed[k]
  BY <1>1, <1>3 DEF DaoInv, GovTypes
<1>6. \A p \in Proposal : more(p) => p \in decided
  OBVIOUS
<1> HIDE DEF decided, more
<1>7. GovTypes' /\ OnlyMade' /\ VotesWereCast' /\ FreezersApproved'
  BY <1>1, <1>4, <1>5 DEF DaoInv, GovTypes, OnlyMade, VotesWereCast, FreezersApproved,
     Made, Voted, daoVars
<1>8. DecidedHasVotes'
  BY <1>1, <1>2, <1>5 DEF DaoInv, DecidedHasVotes, Made, Deadline, Voted
<1>9. ExecutionsAccounted'
  <2> SUFFICES ASSUME NEW k \in Node, NEW p \in Proposal
               PROVE  ran'[k][p] <= (IF p \in executed'[k] THEN 1 ELSE 0)
                        + (IF Made(p) /\ k = terms[p].proposer
                              /\ proposal_stages[p] = "approved" THEN 1 ELSE 0)
    BY <1>1 DEF ExecutionsAccounted, Made, daoVars
  <2> DEFINE byStages == IF Made(p) /\ k = terms[p].proposer
                            /\ proposal_stages[p] = "approved" THEN 1 ELSE 0
  <2>1. ran[k][p] \in Nat /\ ran[k][p] <= (IF p \in executed[k] THEN 1 ELSE 0) + byStages
    BY DEF DaoInv, GovTypes, ExecutionsAccounted
  <2>2. byStages \in Nat
    OBVIOUS
  <2> HIDE DEF byStages
  <2>3. ran'[k][p] <= (IF p \in executed'[k] THEN 1 ELSE 0) + byStages
    <3>1. CASE k # n \/ ~more(p)
      <4>1. ran'[k][p] = ran[k][p] /\ (p \in executed[k] => p \in executed'[k])
        BY <1>4, <1>5, <3>1
      <4>2. QED
        BY <2>1, <2>2, <4>1
    <3>2. CASE k = n /\ more(p)
      <4>1. p \notin executed[n] /\ p \in executed'[n] /\ ran'[n][p] = ran[n][p] + 1
        BY <1>2, <1>4, <1>5, <1>6, <3>2
      <4>2. QED
        BY <2>1, <2>2, <3>2, <4>1
    <3>3. QED
      BY <3>1, <3>2
  <2>4. QED
    BY <2>3 DEF byStages
<1>10. QED
  BY <1>7, <1>8, <1>9 DEF DaoInv

\* What votes and decisions say does not depend on the stages.
LEMMA VotesFrame ==
  ASSUME DaoInv, UNCHANGED <<now, terms, cast, votes, executed>>
  PROVE  VotesWereCast' /\ DecidedHasVotes'
BY DEF DaoInv, VotesWereCast, DecidedHasVotes, Made, Deadline, Voted

\* The last stage is final, and executes once, where the stages are kept.
LEMMA AdvanceStep ==
  ASSUME DaoInv, AdvanceProposalStages, UNCHANGED deployment
  PROVE  DaoInv'
<1> DEFINE moved == {p \in Proposal : NextStage(p) # proposal_stages[p]}
           runs(p) == p \in moved /\ NextStage(p) = "approved"
<1>1. /\ proposal_stages' = [p \in Proposal |-> NextStage(p)]
      /\ ran' = [n \in Node |-> [p \in Proposal |->
                   IF runs(p) /\ n = terms[p].proposer THEN ran[n][p] + 1 ELSE ran[n][p]]]
      /\ UNCHANGED <<now, terms, uploading, announced, cast, proposals, votes, executed,
                     freeze_active, freeze_proposals, deployment>>
  BY DEF AdvanceProposalStages
<1>2. ASSUME NEW p \in Proposal
      PROVE  /\ NextStage(p) \in Stage
             /\ proposal_stages[p] = "none" => NextStage(p) = "none"
             /\ proposal_stages[p] = "approved" => NextStage(p) = "approved"
  BY DEF NextStage, Stage, DaoInv, GovTypes
<1>3. ASSUME NEW p \in Proposal, runs(p)
      PROVE  Made(p) /\ proposal_stages[p] # "approved" /\ proposal_stages'[p] = "approved"
  <2>1. proposal_stages[p] # "none" /\ proposal_stages[p] # "approved"
    BY <1>2, <1>3
  <2>2. QED
    BY <1>1, <1>3, <2>1 DEF DaoInv, OnlyMade
<1> HIDE DEF moved, runs
<1>4. GovTypes' /\ OnlyMade' /\ VotesWereCast' /\ DecidedHasVotes' /\ FreezersApproved'
  <2>1. GovTypes'
    BY <1>1, <1>2 DEF DaoInv, GovTypes
  <2>2. OnlyMade' /\ FreezersApproved'
    BY <1>1, <1>2 DEF DaoInv, OnlyMade, FreezersApproved, Made
  <2>3. QED
    BY <1>1, <2>1, <2>2, VotesFrame
<1>5. ExecutionsAccounted'
  <2> SUFFICES ASSUME NEW n \in Node, NEW p \in Proposal
               PROVE  ran'[n][p] <= (IF p \in executed[n] THEN 1 ELSE 0)
                        + (IF Made(p) /\ n = terms[p].proposer
                              /\ proposal_stages'[p] = "approved" THEN 1 ELSE 0)
    BY <1>1 DEF ExecutionsAccounted, Made
  <2> DEFINE byVotes == IF p \in executed[n] THEN 1 ELSE 0
  <2>1. /\ ran[n][p] \in Nat
        /\ ran[n][p] <= byVotes + (IF Made(p) /\ n = terms[p].proposer
                                      /\ proposal_stages[p] = "approved" THEN 1 ELSE 0)
    BY DEF DaoInv, GovTypes, ExecutionsAccounted
  <2>2. byVotes \in Nat
    OBVIOUS
  <2> HIDE DEF byVotes
  <2>3. ran'[n][p] <= byVotes + (IF Made(p) /\ n = terms[p].proposer
                                    /\ proposal_stages'[p] = "approved" THEN 1 ELSE 0)
    <3>1. CASE runs(p) /\ n = terms[p].proposer
      <4>1. ran'[n][p] = ran[n][p] + 1
        BY <1>1, <3>1
      <4>2. QED
        BY <1>3, <2>1, <2>2, <3>1, <4>1
    <3>2. CASE ~(runs(p) /\ n = terms[p].proposer)
      <4>1. ran'[n][p] = ran[n][p]
        BY <1>1, <3>2
      <4>2. proposal_stages[p] = "approved" => proposal_stages'[p] = "approved"
        BY <1>1, <1>2
      <4>3. QED
        BY <2>1, <2>2, <4>1, <4>2
    <3>3. QED
      BY <3>1, <3>2
  <2>4. QED
    BY <2>3 DEF byVotes
<1>6. QED
  BY <1>4, <1>5 DEF DaoInv

\* Roles, approvals, first stages and the freeze.
LEMMA LolCallStep ==
  ASSUME DaoInv, LolStep, UNCHANGED <<govVars, deployment>>
  PROVE  DaoInv'
<1>1. \A p \in deployment.proposals : p \in Proposal
  BY DaoAssumption DEF DaoInv, GovTypes
<1>2. CASE UNCHANGED <<proposal_stages, freeze_active, freeze_proposals>>
  BY <1>2 DEF DaoInv, GovTypes, OnlyMade, VotesWereCast, DecidedHasVotes, ExecutionsAccounted,
     FreezersApproved, Made, Deadline, Voted, govVars
<1>3. ASSUME NEW p \in Proposal, InitStages(p) PROVE DaoInv'
  <2>1. /\ Made(p) /\ proposal_stages[p] = "none"
        /\ proposal_stages' = [proposal_stages EXCEPT ![p] = "submitted"]
        /\ UNCHANGED <<freeze_active, freeze_proposals>>
    BY <1>3 DEF InitStages, DaoInv, OnlyMade
  <2>2. /\ proposal_stages' \in [Proposal -> Stage]
        /\ \A q \in Proposal : /\ proposal_stages'[q] = "approved" <=>
                                    proposal_stages[q] = "approved"
                               /\ proposal_stages'[q] # "none" => Made(q)
    BY <2>1 DEF DaoInv, GovTypes, OnlyMade, Stage
  <2>3. QED
    BY <2>1, <2>2 DEF DaoInv, GovTypes, OnlyMade, VotesWereCast, DecidedHasVotes,
       ExecutionsAccounted, FreezersApproved, Made, Deadline, Voted, govVars
<1>4. CASE (\E p \in Proposal : HandleFreezeProposal(p)) \/ MonitorFreezeProtocol
  <2>1. FreezersApproved' /\ UNCHANGED <<proposal_stages, govVars, deployment>>
    BY <1>4 DEF HandleFreezeProposal, MonitorFreezeProtocol, DaoInv, FreezersApproved
  <2>2. GovTypes' /\ OnlyMade' /\ ExecutionsAccounted'
    BY <2>1 DEF DaoInv, GovTypes, OnlyMade, ExecutionsAccounted, Made, govVars
  <2>3. QED
    BY <2>1, <2>2, VotesFrame DEF DaoInv, govVars
<1>5. QED
  BY <1>1, <1>2, <1>3, <1>4 DEF LolStep, AssignRole, RemoveRole, Approve

LEMMA DaoNextInv == DaoInv /\ [LolNext]_lolVars => DaoInv'
<1> SUFFICES ASSUME DaoInv, [LolNext]_lolVars PROVE DaoInv'
  OBVIOUS
<1>1. deployment.proposals \subseteq Proposal /\ deployment.nodes \subseteq Node
  BY DaoAssumption DEF DaoInv, GovTypes
<1>2. ASSUME NEW n \in Node, GovStep(n, deployment.proposals), UNCHANGED <<daoVars, deployment>>
      PROVE  DaoInv'
  BY <1>1, <1>2, ProposeStep, HandleProposalStep, VoteStep, ProcessReadyStep DEF GovStep
<1>3. CASE Base /\ UNCHANGED deployment
  BY <1>1, <1>2, <1>3, AnnounceStep DEF Base
<1>4. CASE UNCHANGED lolVars
  BY <1>4 DEF lolVars, govVars, daoVars, DaoInv, GovTypes, OnlyMade, VotesWereCast,
     DecidedHasVotes, ExecutionsAccounted, FreezersApproved, Made, Deadline, Voted
<1>5. QED
  BY <1>3, <1>4, LolCallStep, AdvanceStep DEF LolNext

\* As many nodes have cast a vote as a node counts, and it counts no fewer later.
LEMMA DaoInvDecides == DaoInv => DecisionsStand
<1> SUFFICES ASSUME DaoInv PROVE DecisionsStand
  OBVIOUS
<1>1. ASSUME NEW n \in Node, NEW p \in Proposal, p \in executed[n]
      PROVE  /\ now >= Deadline(p) /\ terms[p].quorum \in Nat
             /\ Cardinality(Voted(n, p)) \in Nat
             /\ Cardinality(Voted(n, p)) >= terms[p].quorum
             /\ TotalVotes(n, p) = Cardinality(Voted(n, p))
  BY <1>1, MadeTerms, VotesCounted DEF DaoInv, DecidedHasVotes, Signed
<1>2. DecidedByQuorum
  <2> SUFFICES ASSUME NEW n \in Node, NEW p \in Proposal, p \in executed[n]
               PROVE  Cardinality({c.voter : c \in {d \in cast : d.proposal = p}})
                        >= terms[p].quorum
    BY <1>1 DEF DecidedByQuorum
  <2> DEFINE voters == {c.voter : c \in {d \in cast : d.proposal = p}}
  <2>1. voters \in SUBSET Node
    BY DEF DaoInv, GovTypes
  <2>2. Voted(n, p) \subseteq voters
    BY DEF DaoInv, VotesWereCast
  <2> HIDE DEF voters
  <2>3. Cardinality(Voted(n, p)) <= Cardinality(voters) /\ Cardinality(voters) \in Nat
    BY <2>1, <2>2, VotesStay DEF DaoInv
  <2>4. Cardinality(voters) >= terms[p].quorum
    BY <1>1, <2>3
  <2>5. QED
    BY <2>4 DEF voters
<1>3. DecidedKeepsQuorum
  <2> SUFFICES ASSUME NEW n \in Node, NEW p \in Proposal, p \in executed[n]
               PROVE  Status(n, p) # "failed_quorum"
    BY DEF DecidedKeepsQuorum
  <2>1. ~(TotalVotes(n, p) < terms[p].quorum)
    BY <1>1
  <2>2. QED
    BY <2>1 DEF Status
<1>4. FrozenByApproved
  BY DEF DaoInv, FreezersApproved, FrozenByApproved
<1>5. QED
  BY <1>2, <1>3, <1>4 DEF DaoInv, DecisionsStand

-----------------------------------------------------------------------------
\* What the DAO decides stands: by a quorum of voters that are not lost afterwards,
\* executed at most once by the votes and once by the stages, and frozen by nothing but
\* an approved proposal.
THEOREM DaoDecides == ServicesSpec => []DecisionsStand
<1>1. ServicesInit => DaoInv
  BY DaoInitInv DEF ServicesInit
<1>2. [ServicesNext]_serviceVars => [LolNext]_lolVars
  BY DEF ServicesNext, OthersIdle, serviceVars
<1>3. DaoInv /\ [ServicesNext]_serviceVars => DaoInv'
  BY <1>2, DaoNextInv
<1>4. QED
  BY <1>1, <1>3, DaoInvDecides, PTL DEF ServicesSpec

-----------------------------------------------------------------------------
(* Federated learning: any participants, layers, updates and interval.  *)

LayerName == UNION {ToSet(ls) : ls \in Layers}
Weight    == [name : LayerName, updates : Nat]

\* What is known as approved was approved when it was read, and the registry's last
\* approval is no older than that.
ApprovalKnown ==
  /\ fedNow \in Nat /\ isApproved \in BOOLEAN
  /\ approvedUntil \in 0 .. fedNow
  /\ isApproved => approvedUntil = fedNow
  /\ ethics \in [approved : BOOLEAN, checked : Nat]
  /\ ethics.approved => ethics.checked <= approvedUntil

RoundsTypes ==
  /\ current_model_weights \in Seq(Weight)
  /\ aggregation_rounds \in Nat /\ broken \in Nat

\* There is no round before there is a model.
FedInv ==
  /\ ApprovalKnown /\ RoundsTypes /\ RoundsMoveAllLayers
  /\ current_model_weights = NoModel => aggregation_rounds = 0

LEMMA FedInitInv == FedInit => FedInv
<1> SUFFICES ASSUME FedInit PROVE FedInv
  OBVIOUS
<1>1. ApprovalKnown
  <2>1. fedNow \in Nat /\ approvedUntil \in 0 .. fedNow
    BY FedAssumption DEF FedInit
  <2>2. isApproved \in BOOLEAN /\ ~isApproved /\ ~ethics.approved
        /\ ethics \in [approved : BOOLEAN, checked : Nat]
    BY DEF FedInit
  <2>3. QED
    BY <2>1, <2>2 DEF ApprovalKnown
<1>2. current_model_weights \in Seq(Weight) /\ DOMAIN current_model_weights = {}
  BY EmptySeq DEF FedInit, NoModel
<1>3. QED
  BY <1>1, <1>2 DEF FedInit, FedInv, RoundsTypes, RoundsMoveAllLayers

\* What a check returns as approved is covered by an approval at most an interval old.
LEMMA CheckSound ==
  ASSUME ApprovalKnown, NEW check \in CheckEthicsApproval
  PROVE  /\ check.known \in [approved : BOOLEAN, checked : Nat]
         /\ check.known.approved => check.known.checked <= approvedUntil
         /\ check.ok => fedNow - approvedUntil <= CheckInterval
<1>1. /\ ethics.checked \in Nat /\ ethics.approved \in BOOLEAN /\ approvedUntil \in Nat
      /\ fedNow \in Nat /\ CheckInterval \in Nat
  BY FedAssumption DEF ApprovalKnown
<1>2. CASE check = [known |-> [approved |-> isApproved, checked |-> fedNow], ok |-> isApproved]
  BY <1>1, <1>2 DEF ApprovalKnown
<1>3. CASE check = [known |-> ethics, ok |-> FALSE]
  BY <1>3 DEF ApprovalKnown
<1>4. CASE ~(fedNow - ethics.checked > CheckInterval)
           /\ check = [known |-> ethics, ok |-> ethics.approved]
  BY <1>1, <1>4 DEF ApprovalKnown
<1>5. QED
  BY <1>2, <1>3, <1>4 DEF CheckEthicsApproval

\* An average has the layers of some update.
LEMMA AverageHasLayers ==
  ASSUME NEW updates \in Seq(Update), Counted(updates) # {}, Averaged(updates) # <<>>
  PROVE  /\ Averaged(updates) \in Seq(LayerName)
         /\ DOMAIN Averaged(updates) = 1 .. Len(Averaged(updates))
         /\ Len(Averaged(updates)) \in Nat \ {0}
<1> DEFINE I == Counted(updates)
<1>1. I \in SUBSET Nat /\ I \subseteq DOMAIN updates
  <2>1. DOMAIN updates = 1 .. Len(updates)
    BY LenProperties
  <2>2. QED
    BY <2>1 DEF Counted
<1> HIDE DEF I
<1>2. Min(I) \in I
  <2>1. \E x \in I : \A y \in I : x <= y
    BY <1>1, LeastExists DEF I
  <2>2. QED
    BY <2>1 DEF Min
<1>3. updates[Min(I)] \in Update
  BY <1>1, <1>2, ElementOfSeq, LenProperties
<1>4. Averaged(updates) = updates[Min(I)].layers
  BY DEF Averaged, I
<1>5. Averaged(updates) \in Layers
  BY <1>3, <1>4 DEF Update
<1>6. Averaged(updates) \in Seq(ToSet(Averaged(updates)))
  BY <1>5, FedAssumption
<1>7. ToSet(Averaged(updates)) \subseteq LayerName
  BY <1>5 DEF LayerName
<1>8. Averaged(updates) \in Seq(LayerName)
  BY <1>6, <1>7
<1>9. QED
  BY <1>8, LenProperties, EmptySeq

\* An average that is applied counts as a round if it moved every layer, and as broken
\* if it did not.
LEMMA ApplyStep ==
  ASSUME FedInv, NEW ls \in Seq(LayerName), DOMAIN ls = 1 .. Len(ls),
         Len(ls) \in Nat \ {0}, ApplyAverage(ls)
  PROVE  /\ RoundsTypes' /\ RoundsMoveAllLayers'
         /\ current_model_weights' = NoModel => aggregation_rounds' = 0
<1>1. CASE current_model_weights = NoModel
  <2>1. /\ current_model_weights' = [i \in 1 .. Len(ls) |->
                                       [name |-> ls[i], updates |-> 1]]
        /\ aggregation_rounds' = aggregation_rounds + 1 /\ broken' = broken
        /\ aggregation_rounds = 0 /\ broken \in Nat
    BY <1>1 DEF ApplyAverage, FedInv, RoundsTypes
  <2>2. \A i \in 1 .. Len(ls) : /\ current_model_weights'[i].updates = 1
                                    /\ current_model_weights'[i] \in Weight
    BY <2>1, ElementOfSeq DEF Weight
  <2>3. current_model_weights' \in Seq(Weight)
    BY <2>1, <2>2
  <2>4. DOMAIN current_model_weights' = 1 .. Len(ls) /\ DOMAIN NoModel = {}
    BY <2>1 DEF NoModel
  <2>5. 1 \in 1 .. Len(ls)
    OBVIOUS
  <2>6. QED
    BY <2>1, <2>2, <2>3, <2>4, <2>5 DEF RoundsTypes, RoundsMoveAllLayers
<1>2. CASE current_model_weights # NoModel
  <2> DEFINE w == current_model_weights
             whole == Present(ls) = Len(w)
             moves(i) == i <= Present(ls)
  <2>1. /\ w' = [i \in DOMAIN w |-> [w[i] EXCEPT !.updates = IF moves(i) THEN @ + 1 ELSE @]]
        /\ IF whole
           THEN aggregation_rounds' = aggregation_rounds + 1 /\ UNCHANGED broken
           ELSE broken' = broken + 1 /\ UNCHANGED aggregation_rounds
    BY <1>2 DEF ApplyAverage
  <2>2. /\ w \in Seq(Weight) /\ DOMAIN w = 1 .. Len(w) /\ Len(w) \in Nat
        /\ aggregation_rounds \in Nat /\ broken \in Nat
    BY LenProperties DEF FedInv, RoundsTypes
  <2>3. \A i \in DOMAIN w : whole => moves(i)
    BY <2>2
  <2> HIDE DEF whole, moves
  <2>4. ASSUME NEW i \in DOMAIN w
        PROVE  /\ w'[i] \in Weight
               /\ w'[i].updates = IF moves(i) THEN w[i].updates + 1 ELSE w[i].updates
               /\ w[i].updates \in Nat
    <3>1. w[i] \in Weight
      BY <2>2, ElementOfSeq
    <3>2. w'[i] = [w[i] EXCEPT !.updates = IF moves(i) THEN @ + 1 ELSE @]
      BY <2>1
    <3>3. QED
      BY <3>1, <3>2 DEF Weight
  <2>5. DOMAIN w' = DOMAIN w
    BY <2>1
  <2>6. w' \in Seq(Weight)
    <3>1. w' = [i \in 1 .. Len(w) |-> w'[i]]
      BY <2>1, <2>2
    <3>2. QED
      BY <2>2, <2>4, <3>1
  <2>7. w' # NoModel
    <3>1. Len(w) # 0
      BY <1>2, <2>2, EmptySeq DEF NoModel
    <3>2. 1 \in DOMAIN w
      BY <2>2, <3>1
    <3>3. QED
      BY <2>5, <3>2 DEF NoModel
  <2>8. RoundsMoveAllLayers'
    <3> SUFFICES ASSUME NEW i \in DOMAIN w
                 PROVE  /\ aggregation_rounds' <= w'[i].updates
                        /\ w'[i].updates <= aggregation_rounds' + broken'
      BY <2>5 DEF RoundsMoveAllLayers
    <3>1. /\ aggregation_rounds <= w[i].updates
          /\ w[i].updates <= aggregation_rounds + broken
      BY DEF FedInv, RoundsMoveAllLayers
    <3>2. CASE whole
      BY <2>1, <2>2, <2>3, <2>4, <3>1, <3>2
    <3>3. CASE ~whole
      <4>1. /\ broken' = broken + 1 /\ aggregation_rounds' = aggregation_rounds
            /\ w'[i].updates \in {w[i].updates, w[i].updates + 1} /\ w[i].updates \in Nat
        BY <2>1, <2>4, <3>3
      <4>2. QED
        BY <2>2, <3>1, <4>1
    <3>4. QED
      BY <3>2, <3>3
  <2>9. QED
    BY <2>1, <2>2, <2>6, <2>7, <2>8 DEF RoundsTypes
<1>3. QED
  BY <1>1, <1>2

\* The counted part of a call: what a step promises, and what it keeps.
Sound == contributed' # contributed => fedNow - approvedUntil <= CheckInterval

LEMMA AggregateStep ==
  ASSUME FedInv, NEW updates \in Seq(Update), SecureAggregate(updates)
  PROVE  FedInv' /\ Sound
<1>1. PICK check \in CheckEthicsApproval :
        /\ ethics' = check.known
        /\ IF ~check.ok \/ Counted(updates) = {}
           THEN UNCHANGED <<contribution_count, contributed, current_model_weights,
                            aggregation_rounds, broken>>
           ELSE IF Averaged(updates) = <<>>
           THEN UNCHANGED <<current_model_weights, aggregation_rounds, broken>>
           ELSE ApplyAverage(Averaged(updates))
  BY DEF SecureAggregate
<1>2. UNCHANGED <<fedNow, isApproved, approvedUntil>>
  BY DEF SecureAggregate
<1>3. ApprovalKnown'
  BY <1>1, <1>2, CheckSound DEF FedInv, ApprovalKnown
<1>4. Sound
  BY <1>1, CheckSound DEF FedInv, Sound
<1>5. CASE UNCHANGED <<current_model_weights, aggregation_rounds, broken>>
  BY <1>3, <1>4, <1>5 DEF FedInv, RoundsTypes, RoundsMoveAllLayers
<1>6. CASE Counted(updates) # {} /\ Averaged(updates) # <<>> /\ ApplyAverage(Averaged(updates))
  BY <1>3, <1>4, <1>6, AverageHasLayers, ApplyStep DEF FedInv
<1>7. QED
  BY <1>1, <1>5, <1>6

LEMMA FedNextInv == FedInv /\ [FedNext]_fedVars => FedInv' /\ Sound
<1> SUFFICES ASSUME FedInv, [FedNext]_fedVars PROVE FedInv' /\ Sound
  OBVIOUS
<1>1. ASSUME NEW p \in Participant, RegisterParticipant(p) PROVE FedInv' /\ Sound
  BY <1>1 DEF RegisterParticipant, FedInv, ApprovalKnown, RoundsTypes, RoundsMoveAllLayers, Sound
<1>2. ASSUME NEW p \in Participant, GetCurrentModel(p) PROVE FedInv' /\ Sound
  <2>1. /\ \E check \in CheckEthicsApproval : ethics' = check.known
        /\ UNCHANGED <<fedNow, isApproved, approvedUntil, contribution_count,
                       current_model_weights, aggregation_rounds, broken, contributed>>
    BY <1>2 DEF GetCurrentModel
  <2>2. ApprovalKnown'
    BY <2>1, CheckSound DEF FedInv, ApprovalKnown
  <2>3. QED
    BY <2>1, <2>2 DEF FedInv, RoundsTypes, RoundsMoveAllLayers, Sound
<1>3. ASSUME NEW updates \in SeqOf(Update, MaxUpdates), SecureAggregate(updates)
      PROVE  FedInv' /\ Sound
  <2>1. updates \in Seq(Update)
    BY DEF SeqOf
  <2>2. QED
    BY <1>3, <2>1, AggregateStep
<1>4. CASE Review \/ FedTick
  <2>1. /\ fedNow' \in Nat /\ approvedUntil' \in 0 .. fedNow'
        /\ approvedUntil <= approvedUntil' /\ isApproved' \in BOOLEAN
        /\ isApproved' => approvedUntil' = fedNow'
        /\ ethics' = ethics
    <3>1. CASE Review
      BY <3>1 DEF Review, FedInv, ApprovalKnown
    <3>2. CASE FedTick
      <4>1. CASE isApproved
        BY <3>2, <4>1 DEF FedTick, FedInv, ApprovalKnown
      <4>2. CASE ~isApproved
        BY <3>2, <4>2 DEF FedTick, FedInv, ApprovalKnown
      <4>3. QED
        BY <4>1, <4>2
    <3>3. QED
      BY <1>4, <3>1, <3>2
  <2>t. ApprovalKnown'
    <3>1. ethics.checked \in Nat /\ approvedUntil \in Nat /\ approvedUntil' \in Nat
      BY <2>1 DEF FedInv, ApprovalKnown
    <3>2. ethics.approved => ethics.checked <= approvedUntil'
      BY <2>1, <3>1 DEF FedInv, ApprovalKnown
    <3>3. QED
      BY <2>1, <3>2 DEF FedInv, ApprovalKnown
  <2>2. QED
    BY <1>4, <2>t DEF Review, FedTick, FedInv, RoundsTypes, RoundsMoveAllLayers, Sound
<1>5. CASE UNCHANGED fedVars
  BY <1>5 DEF fedVars, FedInv, ApprovalKnown, RoundsTypes, RoundsMoveAllLayers, Sound
<1>6. QED
  BY <1>1, <1>2, <1>3, <1>4, <1>5 DEF FedNext

-----------------------------------------------------------------------------
\* Nobody trains a model for longer than an interval after its last approval, and the
\* rounds that are counted moved every layer, those that are not broke off half way.
THEOREM RoundsSound == ServicesSpec => RoundsAreSound
<1> DEFINE A == /\ contributed' # contributed => fedNow - approvedUntil <= CheckInterval
                /\ RoundsMoveAllLayers'
<1>1. ServicesInit => FedInv
  BY FedInitInv DEF ServicesInit
<1>2. [ServicesNext]_serviceVars => [FedNext]_fedVars
  BY DEF ServicesNext, OthersIdle, serviceVars
<1>3. FedInv /\ [ServicesNext]_serviceVars => FedInv' /\ [A]_fedVars
  BY <1>2, FedNextInv DEF FedInv, Sound
<1>4. QED
  BY <1>1, <1>3, PTL DEF ServicesSpec, RoundsAreSound

-----------------------------------------------------------------------------
(* Batches: any models and requests, sizes and latencies.                  *)

InBatch(m) == IF batches[m] = NoBatch THEN {} ELSE ToSet(batches[m])

\* Who is in a batch or was awaited has ended its call, so that no call awaits it
\* again; who is in a batch and was awaited is there while the batch is executed.
IotaInv ==
  /\ batches \in [BatchModel -> Seq(InferenceRequest) \cup {NoBatch}]
  /\ adds \in [InferenceRequest -> Place]
  /\ \A m \in BatchModel : \A r \in InBatch(m) : modelOf[r] = m /\ adds[r] = "done"
  /\ \A r \in InferenceRequest : adds[r] = "sending" => batches[modelOf[r]] # NoBatch
  /\ awaited \subseteq {r \in InferenceRequest : adds[r] = "done"}
  /\ \A e \in executing : e.model \in BatchModel
  /\ checking \subseteq BatchModel
  /\ \A m \in BatchModel : InBatch(m) \cap awaited # {} => Executed(m)

\* What a step promises of the executions it begins.
AwaitedOnce ==
  \A e \in executing' \ executing : e.messages \cap awaited # {} => Executed(e.model)

LEMMA NoBatchIsNone == NoBatch \notin Seq(InferenceRequest)
<1> SUFFICES ASSUME NoBatch \in Seq(InferenceRequest) PROVE FALSE
  OBVIOUS
<1>1. Len(NoBatch) = 1 /\ NoBatch[1] = "none"
  BY DEF NoBatch
<1>2. NoBatch[1] \in InferenceRequest
  BY <1>1, ElementOfSeq
<1>3. QED
  BY <1>1, <1>2, BatchAssumption

LEMMA BatchedRequests ==
  ASSUME IotaInv, NEW m \in BatchModel
  PROVE  InBatch(m) \subseteq InferenceRequest
<1>1. batches[m] \in Seq(InferenceRequest) => ToSet(batches[m]) \subseteq InferenceRequest
  BY ElementOfSeq, LenProperties DEF ToSet
<1>2. QED
  BY <1>1 DEF IotaInv, InBatch

LEMMA IotaInitInv == IotaInit => IotaInv
BY DEF IotaInit, IotaInv, InBatch, Place

\* A batch is replaced by an empty one.
LEMMA ReplaceStep ==
  ASSUME IotaInv, NEW m \in BatchModel, NEW ended \in [InferenceRequest -> Place],
         \A r \in InferenceRequest : /\ adds[r] = "done" => ended[r] = "done"
                                     /\ ended[r] = "sending" => adds[r] = "sending",
         Replace(m, ended), awaited' = awaited, executing' \subseteq executing,
         \A e \in executing \ executing' : e.model = m, checking' \subseteq checking
  PROVE  IotaInv' /\ AwaitedOnce
<1>1. /\ batches' = [batches EXCEPT ![m] = <<>>]
      /\ adds' = [r \in InferenceRequest |->
                    IF ended[r] = "sending" /\ modelOf[r] = m
                    THEN "sending to a replaced batch" ELSE ended[r]]
  BY DEF Replace
<1>2. adds' \in [InferenceRequest -> Place]
  BY <1>1 DEF Place
<1>3. \A r \in InferenceRequest : adds[r] = "done" => adds'[r] = "done"
  BY <1>1
<1>4. /\ batches' \in [BatchModel -> Seq(InferenceRequest) \cup {NoBatch}]
      /\ batches'[m] = <<>> /\ \A k \in BatchModel \ {m} : batches'[k] = batches[k]
  <2>1. <<>> \in Seq(InferenceRequest)
    BY EmptySeq
  <2>2. batches \in [BatchModel -> Seq(InferenceRequest) \cup {NoBatch}]
    BY DEF IotaInv
  <2>3. QED
    BY <1>1, <2>1, <2>2
<1>5. InBatch(m)' = {} /\ \A k \in BatchModel \ {m} : InBatch(k)' = InBatch(k)
  <2>1. ToSet(<<>>) = {}
    BY DEF ToSet
  <2>2. QED
    BY <1>4, <2>1 DEF InBatch
<1>6. \A k \in BatchModel \ {m} : Executed(k) => Executed(k)'
  BY DEF Executed
<1>7. \A k \in BatchModel : InBatch(k) \subseteq InferenceRequest
  BY BatchedRequests
<1>8. \A r \in InferenceRequest : adds'[r] = "sending" =>
        batches'[modelOf[r]] # NoBatch /\ modelOf[r] # m
  <2>1. \A r \in InferenceRequest : modelOf[r] \in BatchModel
    BY BatchAssumption
  <2>2. QED
    BY <1>1, <1>4, <2>1 DEF IotaInv
<1>9. QED
  BY <1>2, <1>3, <1>4, <1>5, <1>6, <1>7, <1>8 DEF IotaInv, AwaitedOnce

\* Of a batch with one request more or as it was, the requests that were awaited
\* before wait for an execution that is under way.
LEMMA ExecuteStep ==
  ASSUME IotaInv, NEW m \in BatchModel, NEW who,
         NEW batch \in Seq(InferenceRequest) \cup {NoBatch},
         NEW ended \in [InferenceRequest -> Place],
         \A r \in InferenceRequest : /\ adds[r] = "done" => ended[r] = "done"
                                     /\ ended[r] = "sending" => adds[r] = "sending",
         batch = NoBatch => batches[m] = NoBatch,
         batch # NoBatch => \A r \in ToSet(batch) : /\ modelOf[r] = m /\ ended[r] = "done"
                                                    /\ r \in InBatch(m) \/ r \notin awaited,
         ExecuteBatch(who, m, batch, ended), checking' \subseteq checking
  PROVE  IotaInv' /\ AwaitedOnce
<1> DEFINE new == [by |-> who, model |-> m, messages |-> ToSet(batch)]
<1>1. CASE ShouldExecuteBatch(m, batch) /\ batch = <<>>
  <2>1. Replace(m, ended) /\ UNCHANGED <<executing, awaited>>
    BY <1>1 DEF ExecuteBatch
  <2>2. QED
    BY <2>1, ReplaceStep
<1>2. CASE ~(ShouldExecuteBatch(m, batch) /\ batch = <<>>)
  <2>1. /\ batches' = [batches EXCEPT ![m] = batch] /\ adds' = ended
        /\ \/ UNCHANGED <<executing, awaited>>
           \/ /\ batch # NoBatch
              /\ executing' = executing \cup {new} /\ awaited' = awaited \cup ToSet(batch)
    BY <1>2 DEF ExecuteBatch, ShouldExecuteBatch
  <2>2. /\ batches' \in [BatchModel -> Seq(InferenceRequest) \cup {NoBatch}]
        /\ batches'[m] = batch /\ \A k \in BatchModel \ {m} : batches'[k] = batches[k]
    BY <2>1 DEF IotaInv
  <2>3. /\ InBatch(m)' = IF batch = NoBatch THEN {} ELSE ToSet(batch)
        /\ \A k \in BatchModel \ {m} : InBatch(k)' = InBatch(k)
    BY <2>2 DEF InBatch
  <2>4. batch # NoBatch => ToSet(batch) \subseteq InferenceRequest
    BY ElementOfSeq, LenProperties DEF ToSet
  <2>5. \A k \in BatchModel : InBatch(k) \subseteq InferenceRequest
    BY BatchedRequests
  <2>6. \A k \in BatchModel : \A r \in InBatch(k)' : modelOf[r] = k /\ adds'[r] = "done"
    BY <2>1, <2>3, <2>5 DEF IotaInv
  <2>7. new.model = m /\ new.messages = ToSet(batch)
    OBVIOUS
  <2> HIDE DEF new
  <2>8. \A k \in BatchModel : Executed(k) => Executed(k)'
    BY <2>1 DEF Executed
  <2>9. InBatch(m)' \cap awaited # {} => Executed(m)
    BY <2>3 DEF IotaInv
  <2>10. AwaitedOnce
    <3> SUFFICES ASSUME NEW e \in executing' \ executing, e.messages \cap awaited # {}
                 PROVE  Executed(e.model)
      BY DEF AwaitedOnce
    <3>1. e = new /\ batch # NoBatch
      BY <2>1
    <3>2. QED
      BY <2>3, <2>7, <2>9, <3>1
  <2>11. awaited' \subseteq {r \in InferenceRequest : adds'[r] = "done"}
    BY <2>1, <2>4 DEF IotaInv
  <2>12. ASSUME NEW k \in BatchModel, InBatch(k)' \cap awaited' # {} PROVE Executed(k)'
    <3>1. CASE UNCHANGED <<executing, awaited>>
      BY <2>3, <2>8, <2>9, <2>12, <3>1 DEF IotaInv
    <3>2. CASE batch # NoBatch /\ executing' = executing \cup {new}
                 /\ awaited' = awaited \cup ToSet(batch)
      <4>1. CASE k = m
        BY <2>7, <3>2, <4>1 DEF Executed
      <4>2. CASE k # m
        <5>1. \A r \in ToSet(batch) : r \notin InBatch(k)
          BY <3>2, <4>2 DEF IotaInv
        <5>2. InBatch(k) \cap awaited # {}
          BY <2>3, <2>12, <3>2, <4>2, <5>1
        <5>3. QED
          BY <2>8, <5>2 DEF IotaInv
      <4>3. QED
        BY <4>1, <4>2
    <3>3. QED
      BY <2>1, <3>1, <3>2
  <2>13. \A e \in executing' : e.model \in BatchModel
    BY <2>1, <2>7 DEF IotaInv
  <2>s. \A r \in InferenceRequest : adds'[r] = "sending" => batches'[modelOf[r]] # NoBatch
    <3>1. \A r \in InferenceRequest : modelOf[r] \in BatchModel
      BY BatchAssumption
    <3>2. QED
      BY <2>1, <2>2, <3>1 DEF IotaInv
  <2>14. QED
    BY <2>s, <2>1, <2>2, <2>6, <2>10, <2>11, <2>12, <2>13 DEF IotaInv
<1>3. QED
  BY <1>1, <1>2

LEMMA IotaNextInv == IotaInv /\ [IotaNext]_iotaVars => IotaInv' /\ (AwaitedOnce \/ UNCHANGED iotaVars)
<1> SUFFICES ASSUME IotaInv, [IotaNext]_iotaVars
             PROVE  IotaInv' /\ (AwaitedOnce \/ UNCHANGED iotaVars)
  OBVIOUS
<1>1. ASSUME NEW r \in InferenceRequest, AddRequest(r) PROVE IotaInv' /\ AwaitedOnce
  <2>1. /\ adds[r] = "new" /\ adds' = [adds EXCEPT ![r] = "sending"]
        /\ UNCHANGED <<executing, checking, awaited>>
        /\ \/ batches' = batches /\ batches[modelOf[r]] # NoBatch
           \/ /\ batches[modelOf[r]] = NoBatch
              /\ batches' = [batches EXCEPT ![modelOf[r]] = <<>>]
    BY <1>1 DEF AddRequest
  <2>2. modelOf[r] \in BatchModel
    BY BatchAssumption
  <2>3. batches' \in [BatchModel -> Seq(InferenceRequest) \cup {NoBatch}]
    <3>1. <<>> \in Seq(InferenceRequest)
      BY EmptySeq
    <3>2. QED
      BY <2>1, <3>1 DEF IotaInv
  <2>4. \A m \in BatchModel : InBatch(m)' = InBatch(m)
    <3>1. \A m \in BatchModel : m # modelOf[r] => batches'[m] = batches[m]
      BY <2>1 DEF IotaInv
    <3>2. batches' # batches => /\ batches[modelOf[r]] = NoBatch
                                /\ batches'[modelOf[r]] = <<>>
      BY <2>1, <2>2 DEF IotaInv
    <3>3. ToSet(<<>>) = {}
      BY DEF ToSet
    <3>4. QED
      BY <3>1, <3>2, <3>3 DEF InBatch
  <2>s. \A q \in InferenceRequest : adds'[q] = "sending" => batches'[modelOf[q]] # NoBatch
    <3>1. \A q \in InferenceRequest : modelOf[q] \in BatchModel
      BY BatchAssumption
    <3>2. batches'[modelOf[r]] # NoBatch
      <4>1. <<>> # NoBatch
        BY NoBatchIsNone, EmptySeq
      <4>2. batches \in [BatchModel -> Seq(InferenceRequest) \cup {NoBatch}]
        BY DEF IotaInv
      <4>3. QED
        BY <2>1, <2>2, <4>1, <4>2
    <3>3. \A m \in BatchModel : batches[m] # NoBatch => batches'[m] # NoBatch
      BY <2>1, <3>2 DEF IotaInv
    <3>4. QED
      BY <2>1, <3>1, <3>2, <3>3 DEF IotaInv
  <2>5. /\ adds' \in [InferenceRequest -> Place]
        /\ \A q \in InferenceRequest : adds[q] = "done" => adds'[q] = "done"
    BY <2>1 DEF IotaInv, Place
  <2>6. \A m \in BatchModel : InBatch(m) \subseteq InferenceRequest
    BY BatchedRequests
  <2>7. QED
    BY <2>1, <2>3, <2>s, <2>4, <2>5, <2>6 DEF IotaInv, AwaitedOnce, Executed
<1>2. ASSUME NEW r \in InferenceRequest, RequestSent(r) PROVE IotaInv' /\ AwaitedOnce
  <2> DEFINE m == modelOf[r]
             ended == [adds EXCEPT ![r] = "done"]
  <2>1. /\ \/ adds[r] = "sending" /\ ExecuteBatch(r, m, Append(batches[m], r), ended)
           \/ adds[r] # "done" /\ ExecuteBatch(r, m, batches[m], ended)
        /\ checking' = checking
    BY <1>2 DEF RequestSent
  <2>2. /\ m \in BatchModel /\ ended \in [InferenceRequest -> Place] /\ ended[r] = "done"
        /\ \A q \in InferenceRequest : /\ adds[q] = "done" => ended[q] = "done"
                                       /\ ended[q] = "sending" => adds[q] = "sending"
    BY BatchAssumption DEF IotaInv, Place
  <2>3. r \notin awaited
    BY <2>1 DEF IotaInv
  <2>4. batches[m] # NoBatch => \A q \in ToSet(batches[m]) :
          q \in InferenceRequest /\ modelOf[q] = m /\ ended[q] = "done" /\ q \in InBatch(m)
    <3>1. batches[m] # NoBatch => ToSet(batches[m]) \subseteq InferenceRequest
      BY <2>2, ElementOfSeq, LenProperties DEF ToSet, IotaInv
    <3>2. QED
      BY <2>2, <3>1 DEF IotaInv, InBatch
  <2>5. batches[m] \in Seq(InferenceRequest) \cup {NoBatch}
    BY <2>2 DEF IotaInv
  <2>6. CASE adds[r] = "sending" /\ ExecuteBatch(r, m, Append(batches[m], r), ended)
    <3>1. batches[m] # NoBatch
      BY <2>6 DEF IotaInv
    <3>2. /\ Append(batches[m], r) \in Seq(InferenceRequest)
          /\ ToSet(Append(batches[m], r)) = ToSet(batches[m]) \cup {r}
      BY <2>5, <3>1, AppendProperties, LenProperties DEF ToSet
    <3> HIDE DEF ended
    <3>3. QED
      BY <2>1, <2>2, <2>3, <2>4, <2>6, <3>1, <3>2, ExecuteStep, NoBatchIsNone
  <2>7. CASE ExecuteBatch(r, m, batches[m], ended)
    <3> HIDE DEF ended
    <3>1. QED
      BY <2>1, <2>2, <2>4, <2>5, <2>7, ExecuteStep
  <2>8. QED
    BY <2>1, <2>6, <2>7
<1>3. ASSUME NEW r \in InferenceRequest, RequestRaises(r) PROVE IotaInv' /\ AwaitedOnce
  <2>1. /\ adds' \in [InferenceRequest -> Place]
        /\ \A q \in InferenceRequest : /\ adds[q] = "done" => adds'[q] = "done"
                                       /\ adds'[q] = "sending" => adds[q] = "sending"
        /\ UNCHANGED <<batches, executing, checking, awaited>>
    BY <1>3 DEF RequestRaises, IotaInv, Place
  <2>2. \A m \in BatchModel : InBatch(m) \subseteq InferenceRequest
    BY BatchedRequests
  <2>3. QED
    BY <2>1, <2>2 DEF IotaInv, AwaitedOnce, InBatch, Executed
<1>4. ASSUME NEW e \in executing, ExecutionEnds(e) PROVE IotaInv' /\ AwaitedOnce
  <2>1. /\ executing' = executing \ {e} /\ Replace(e.model, adds)
        /\ UNCHANGED <<checking, awaited>> /\ e.model \in BatchModel
        /\ adds \in [InferenceRequest -> Place]
    BY <1>4 DEF ExecutionEnds, IotaInv
  <2>2. QED
    BY <2>1, ReplaceStep
<1>5. ASSUME ProcessBatches PROVE IotaInv' /\ AwaitedOnce
  <2>1. CASE checking' = {m \in BatchModel : batches[m] # NoBatch}
             /\ UNCHANGED <<batches, age, adds, executing, awaited>>
    BY <2>1 DEF IotaInv, AwaitedOnce, InBatch, Executed
  <2>2. ASSUME NEW m \in checking, checking' = checking \ {m},
               ExecuteBatch(Loop, m, batches[m], adds)
        PROVE  IotaInv' /\ AwaitedOnce
    <3>1. /\ m \in BatchModel /\ adds \in [InferenceRequest -> Place]
          /\ batches[m] \in Seq(InferenceRequest) \cup {NoBatch}
      BY DEF IotaInv
    <3>2. batches[m] # NoBatch => \A r \in ToSet(batches[m]) :
            modelOf[r] = m /\ adds[r] = "done" /\ r \in InBatch(m)
      BY <3>1 DEF IotaInv, InBatch
    <3>3. QED
      BY <2>2, <3>1, <3>2, ExecuteStep
  <2>3. QED
    BY <1>5, <2>1, <2>2 DEF ProcessBatches
<1>6. CASE LatencyTick
  BY <1>6 DEF LatencyTick, IotaInv, AwaitedOnce, InBatch, Executed
<1>7. CASE UNCHANGED iotaVars
  BY <1>7 DEF iotaVars, IotaInv, InBatch, Executed
<1>8. QED
  BY <1>1, <1>2, <1>3, <1>4, <1>5, <1>6, <1>7 DEF IotaNext



-----------------------------------------------------------------------------
(* The account of a node: any processes, calls and models.                 *)

\* Transactions that were mined.
Txs == {receipt.tx : receipt \in receipts}

\* The number of a transaction that waits is in no receipt.
ChainInv ==
  /\ mined \in Nat /\ sent \in Nat
  /\ IsFiniteSet(Txs) /\ Txs \subseteq 1 .. sent /\ Cardinality(Txs) = mined
  /\ pendingTx # NoTx => /\ pendingTx.tx \in 1 .. sent /\ pendingTx.tx \notin Txs
                         /\ pendingTx.by \in Process

\* A model that is registered, as transactions write it.
ModelWritten(x) == {"data", "isActive", "writes"} \subseteq DOMAIN x /\ x.writes \in Nat

ModelsInv ==
  /\ models = [m \in MarketModel |-> models[m]]
  /\ \A m \in MarketModel : Registered(m) => ModelWritten(models[m])

\* What a call or a transaction carries: whole shares, and for an update something that
\* is based on no newer model ms, and on all of it if that is the model there is.
WholeIfFused(x) ==
  /\ x.call.op \in MarketOp \cup FusionOp
  /\ x.call.op = "create_fused_model" => SharesAreWhole(x.call.shares)

KeepsRest(x, ms) ==
  x.call.op = "update_model" =>
    LET m == x.call.model
    IN  /\ m \in MarketModel /\ ms[m] # NoModelYet
        /\ x.read \in Nat /\ x.read <= ms[m].writes
        /\ x.read = ms[m].writes => \A f \in Field : f \notin DOMAIN x.call.given =>
                                       x.data[f] = ms[m].data[f]

\* A call at every stage, where the transactions txs were mined.
CallOk(x, txs, ms) ==
  /\ "at" \in DOMAIN x
  /\ x.at \in {"idle", "called", "ready", "built", "sent", "mined"}
  /\ x.at \in {"called", "ready"} => {"call", "data", "read"} \subseteq DOMAIN x
  /\ x.at \in {"called", "ready", "built"} => WholeIfFused(x)
  /\ x.at = "called" => x.call.op = "update_model" /\ x.call.model \in MarketModel
  /\ x.at \in {"ready", "built"} => KeepsRest(x, ms)
  /\ x.at = "mined" => x.tx \in txs

CallsInv ==
  /\ calls = [p \in Process |-> calls[p]]
  /\ \A p \in Process : CallOk(calls[p], Txs, models)
  /\ pendingTx # NoTx => WholeIfFused(pendingTx) /\ KeepsRest(pendingTx, models)

ResultsInv ==
  /\ \A r \in results : r.value => r.tx \in Txs
  /\ \A r \in results : r.op = "create_fused_model" /\ r.value =>
       \E x \in fused : x.tx = r.tx
  /\ \A x \in fused : SharesAreWhole(x.shares)

FusInv == ChainInv /\ ModelsInv /\ CallsInv /\ ResultsInv

\* What a step promises of the models it writes.
RestKept ==
  \A m \in MarketModel :
    LET t == pendingTx
    IN  /\ t # NoTx /\ pendingTx' = NoTx /\ models'[m] # models[m]
        /\ t.call.op = "update_model" /\ t.read = models[m].writes
        => \A f \in Field : f \notin DOMAIN t.call.given =>
             models'[m].data[f] = models[m].data[f]

LEMMA FusInitInv == FusInit => FusInv
<1> SUFFICES ASSUME FusInit PROVE FusInv
  OBVIOUS
<1>1. Txs = {}
  BY DEF FusInit, MktInit, Txs
<1>2. ChainInv
  BY <1>1, FS_EmptySet DEF FusInit, MktInit, ChainInv
<1>3. CallsInv /\ ResultsInv
  BY DEF FusInit, MktInit, CallsInv, CallOk, ResultsInv, Idle
<1>4. ModelsInv
  <2>1. CASE models = [m \in MarketModel |-> NoModelYet]
    BY <2>1 DEF ModelsInv, Registered
  <2>2. ASSUME NEW m \in MarketModel,
               models = [x \in MarketModel |->
                 IF x = m THEN [data |-> [f \in Field |-> Empty], isActive |-> TRUE, writes |-> 1]
                 ELSE NoModelYet]
        PROVE  ModelsInv
    BY <2>2 DEF ModelsInv, Registered, ModelWritten
  <2>3. QED
    BY <2>1, <2>2 DEF FusInit, MktInit
<1>5. QED
  BY <1>2, <1>3, <1>4 DEF FusInv

-----------------------------------------------------------------------------
(* Steps of the processes: one call changes and the chain does not.        *)

LEMMA CallFrame ==
  ASSUME FusInv, NEW p \in Process, NEW new, CallOk(new, Txs, models),
         calls' = [calls EXCEPT ![p] = new],
         UNCHANGED <<pendingTx, mined, sent, models, receipts>>,
         ResultsInv'
  PROVE  FusInv' /\ RestKept
<1>1. Txs' = Txs
  BY DEF Txs
<1>2. /\ calls' = [q \in Process |-> calls'[q]]
      /\ \A q \in Process : calls'[q] = IF q = p THEN new ELSE calls[q]
  BY DEF FusInv, CallsInv
<1>3. CallsInv'
  BY <1>1, <1>2 DEF FusInv, CallsInv
<1>4. ChainInv' /\ ModelsInv' /\ RestKept
  BY <1>1 DEF FusInv, ChainInv, ModelsInv, Registered, RestKept
<1>5. QED
  BY <1>3, <1>4 DEF FusInv

LEMMA ResultsFrame ==
  ASSUME FusInv, UNCHANGED <<results, fused, receipts>>
  PROVE  ResultsInv'
BY DEF FusInv, ResultsInv, Txs

LEMMA CallStep ==
  ASSUME FusInv, NEW p \in Process, NEW c \in MarketCall, Call(p, c),
         UNCHANGED fused
  PROVE  FusInv' /\ RestKept
<1> DEFINE new == [at |-> IF c.op = "update_model" THEN "called" ELSE "ready", call |-> c,
                   data |-> c.given, read |-> 0]
<1>1. c.op \in MarketOp /\ c.model \in MarketModel
  BY MarketAssumption
<1>2. CallOk(new, Txs, models)
  <2>1. CASE c.op = "update_model"
    BY <1>1, <2>1 DEF CallOk, WholeIfFused, MarketOp
  <2>2. CASE c.op # "update_model"
    BY <1>1, <2>2 DEF CallOk, WholeIfFused, KeepsRest, MarketOp
  <2>3. QED
    BY <2>1, <2>2
<1>3. calls' = [calls EXCEPT ![p] = new] /\ UNCHANGED <<pendingTx, mined, sent, models, receipts>>
      /\ UNCHANGED results
  BY DEF Call
<1> HIDE DEF new
<1>4. QED
  BY <1>2, <1>3, CallFrame, ResultsFrame

LEMMA RequestStep ==
  ASSUME FusInv, NEW p \in Process, NEW c \in FusionCall, FusionRequest(p, c)
  PROVE  FusInv' /\ RestKept
<1> DEFINE new == [at |-> "ready", call |-> c, data |-> <<>>, read |-> 0]
<1>1. c.op \in FusionOp /\ (c.op = "create_fused_model" => SharesAreWhole(c.shares))
  BY FusionAssumption DEF FusionRequest, ValidShares
<1>2. CallOk(new, Txs, models)
  BY <1>1 DEF CallOk, WholeIfFused, KeepsRest, FusionOp
<1>3. calls' = [calls EXCEPT ![p] = new] /\ UNCHANGED <<pendingTx, mined, sent, models, receipts>>
      /\ UNCHANGED <<results, fused>>
  BY DEF FusionRequest
<1> HIDE DEF new
<1>4. QED
  BY <1>2, <1>3, CallFrame, ResultsFrame

\* What is merged keeps what was not given.
LEMMA ReadStep ==
  ASSUME FusInv, NEW p \in Process, ReadModel(p), UNCHANGED fused
  PROVE  FusInv' /\ RestKept
<1> DEFINE x == calls[p]
           m == x.call.model
           merged == Merged(models[m].data, x.call.given)
           new == [x EXCEPT !.at = "ready", !.read = models[m].writes, !.data = merged]
<1>1. /\ x.at = "called" /\ Registered(m)
      /\ calls' = [calls EXCEPT ![p].at = "ready", ![p].read = models[m].writes,
                                ![p].data = merged]
      /\ UNCHANGED <<pendingTx, mined, sent, models, receipts, results>>
  BY DEF ReadModel
<1>2. /\ CallOk(x, Txs, models) /\ {"at", "call", "data", "read"} \subseteq DOMAIN x
      /\ x.call.op = "update_model" /\ m \in MarketModel
  BY <1>1 DEF FusInv, CallsInv, CallOk
<1>3. calls' = [calls EXCEPT ![p] = new]
  BY <1>1 DEF FusInv, CallsInv
<1>4. /\ new.at = "ready" /\ new.read = models[m].writes /\ new.data = merged
      /\ new.call = x.call /\ DOMAIN new = DOMAIN x
  BY <1>2
<1>5. \A f \in Field : f \notin DOMAIN x.call.given => merged[f] = models[m].data[f]
  BY DEF Merged
<1>6. models[m].writes \in Nat
  BY <1>1, <1>2 DEF FusInv, ModelsInv, ModelWritten
<1> HIDE DEF new, merged
<1>7. CallOk(new, Txs, models)
  BY <1>1, <1>2, <1>4, <1>5, <1>6 DEF CallOk, WholeIfFused, KeepsRest, Registered
<1>8. QED
  BY <1>1, <1>3, <1>7, CallFrame, ResultsFrame

LEMMA BuildStep ==
  ASSUME FusInv, NEW p \in Process, BuildTransaction(p), UNCHANGED fused
  PROVE  FusInv' /\ RestKept
<1> DEFINE new == [at |-> "built", call |-> calls[p].call, data |-> calls[p].data,
                   read |-> calls[p].read, nonce |-> mined]
<1>1. /\ calls[p].at = "ready" /\ calls' = [calls EXCEPT ![p] = new]
      /\ UNCHANGED <<pendingTx, mined, sent, models, receipts, results>>
  BY DEF BuildTransaction
<1>2. CallOk(new, Txs, models)
  BY <1>1 DEF FusInv, CallsInv, CallOk, WholeIfFused, KeepsRest
<1> HIDE DEF new
<1>3. QED
  BY <1>1, <1>2, CallFrame, ResultsFrame

\* A call ends: without a transaction, with a receipt, or without waiting longer.
LEMMA EndStep ==
  ASSUME FusInv, NEW p \in Process,
         \/ (CallFails(p) \/ CallReturns(p) \/ ReceiptTimesOut(p)) /\ UNCHANGED fused
         \/ FusionReturns(p)
  PROVE  FusInv' /\ RestKept
<1>1. /\ calls' = [calls EXCEPT ![p] = Idle]
      /\ UNCHANGED <<pendingTx, mined, sent, models, receipts>>
  BY DEF CallFails, CallReturns, ReceiptTimesOut, FusionReturns
<1>2. CallOk(Idle, Txs, models)
  BY DEF CallOk, Idle
<1>3. ResultsInv'
  <2>1. calls[p].at = "mined" => calls[p].tx \in Txs
    BY DEF FusInv, CallsInv, CallOk
  <2>2. Txs' = Txs
    BY <1>1 DEF Txs
  <2>3. CASE CallFails(p) /\ UNCHANGED fused
    BY <2>3, ResultsFrame DEF CallFails
  <2>4. CASE CallReturns(p) /\ UNCHANGED fused
    <3>1. calls[p].at = "mined" /\ calls[p].call.op # "create_fused_model"
      BY <2>4 DEF CallReturns, MarketOp
    <3>2. results' = results \cup {[tx |-> calls[p].tx, op |-> calls[p].call.op, value |-> TRUE]}
      BY <2>4 DEF CallReturns
    <3>3. QED
      BY <2>1, <2>2, <2>4, <3>1, <3>2 DEF FusInv, ResultsInv
  <2>5. CASE ReceiptTimesOut(p) /\ UNCHANGED fused
    <3>1. results' = results \cup
                       {[tx |-> calls[p].tx, op |-> calls[p].call.op, value |-> FALSE]}
      BY <2>5 DEF ReceiptTimesOut
    <3>2. QED
      BY <2>2, <2>5, <3>1 DEF FusInv, ResultsInv
  <2>6. CASE FusionReturns(p)
    <3> DEFINE given == \/ calls[p].call.op = "use_fused_model"
                        \/ \E x \in fused : x.tx = calls[p].tx
               result == [tx |-> calls[p].tx, op |-> calls[p].call.op, value |-> given]
    <3>1. /\ calls[p].at = "mined" /\ fused' = fused
          /\ results' = results \cup {result}
      BY <2>6 DEF FusionReturns
    <3>2. result.tx \in Txs /\ result.tx = calls[p].tx /\ result.op = calls[p].call.op
      BY <2>1, <3>1
    <3>3. result.value => given
      OBVIOUS
    <3>4. result.op = "create_fused_model" /\ result.value => \E x \in fused : x.tx = result.tx
      BY <3>2, <3>3
    <3> HIDE DEF result, given
    <3>5. QED
      BY <2>2, <3>1, <3>2, <3>4 DEF FusInv, ResultsInv
  <2>7. QED
    BY <2>3, <2>4, <2>5, <2>6
<1>4. QED
  BY <1>1, <1>2, <1>3, CallFrame

\* A transaction takes a number that none had before.
LEMMA SendTxStep ==
  ASSUME FusInv, NEW p \in Process, SendRawTransaction(p), UNCHANGED fused
  PROVE  FusInv' /\ RestKept
<1> DEFINE x == calls[p]
           t == [tx |-> sent + 1, by |-> p, call |-> x.call, data |-> x.data, read |-> x.read]
           new == [at |-> "sent", call |-> x.call, tx |-> sent + 1]
<1>1. /\ x.at = "built" /\ sent' = sent + 1 /\ pendingTx' = t
      /\ calls' = [calls EXCEPT ![p] = new]
      /\ UNCHANGED <<mined, models, results, receipts>>
  BY DEF SendRawTransaction
<1>2. WholeIfFused(t) /\ KeepsRest(t, models)
  BY <1>1 DEF FusInv, CallsInv, CallOk, WholeIfFused, KeepsRest
<1>3. CallOk(new, Txs, models)
  BY DEF CallOk
<1>4. t.tx = sent + 1 /\ t.by = p /\ t # NoTx
  <2>1. "by" \in DOMAIN t /\ "by" \notin DOMAIN NoTx
    BY DEF NoTx
  <2>2. QED
    BY <2>1
<1>5. Txs' = Txs
  BY <1>1 DEF Txs
<1>6. /\ calls' = [q \in Process |-> calls'[q]]
      /\ \A q \in Process : calls'[q] = IF q = p THEN new ELSE calls[q]
  BY <1>1 DEF FusInv, CallsInv
<1> HIDE DEF t, new
<1>7. CallsInv'
  BY <1>1, <1>2, <1>3, <1>5, <1>6 DEF FusInv, CallsInv
<1>8. ChainInv'
  BY <1>1, <1>4, <1>5 DEF FusInv, ChainInv
<1>9. ModelsInv' /\ ResultsInv' /\ RestKept
  BY <1>1, ResultsFrame DEF FusInv, ModelsInv, Registered, RestKept
<1>10. QED
  BY <1>7, <1>8, <1>9 DEF FusInv

-----------------------------------------------------------------------------
(* The chain.                                                              *)

\* Every model is as it was, or was written once more, so that what was based on it
\* is either still based on it or known to be older.
NoOlder(ms, old) ==
  \A m \in MarketModel : old[m] # NoModelYet =>
    /\ ms[m] # NoModelYet
    /\ \/ ms[m].data = old[m].data /\ ms[m].writes = old[m].writes
       \/ ms[m].writes = old[m].writes + 1

LEMMA KeptByNewer ==
  ASSUME NEW x, NEW ms, NEW old, NoOlder(ms, old), KeepsRest(x, old),
         \A m \in MarketModel : old[m] # NoModelYet => old[m].writes \in Nat
  PROVE  KeepsRest(x, ms)
<1> SUFFICES ASSUME x.call.op = "update_model" PROVE KeepsRest(x, ms)
  BY DEF KeepsRest
<1> DEFINE m == x.call.model
<1>1. /\ m \in MarketModel /\ old[m] # NoModelYet /\ x.read \in Nat /\ x.read <= old[m].writes
      /\ old[m].writes \in Nat
      /\ x.read = old[m].writes => \A f \in Field : f \notin DOMAIN x.call.given =>
                                       x.data[f] = old[m].data[f]
  BY DEF KeepsRest
<1>2. ms[m] # NoModelYet
  BY <1>1 DEF NoOlder
<1>3. CASE ms[m].data = old[m].data /\ ms[m].writes = old[m].writes
  BY <1>1, <1>2, <1>3 DEF KeepsRest
<1>4. CASE ms[m].writes = old[m].writes + 1
  <2>1. x.read <= ms[m].writes /\ x.read # ms[m].writes
    BY <1>1, <1>4
  <2>2. QED
    BY <1>1, <1>2, <2>1 DEF KeepsRest
<1>5. QED
  BY <1>1, <1>3, <1>4 DEF NoOlder

\* A receipt more, and models that are as new.
LEMMA MinedStep ==
  ASSUME FusInv, pendingTx # NoTx, NEW ok, IsMined(pendingTx, ok),
         sent' = sent, ModelsInv', NoOlder(models', models), ResultsInv'
  PROVE  FusInv'
<1> DEFINE t == pendingTx
           receipt == [tx |-> t.tx, ok |-> ok]
<1>1. /\ t.tx \in 1 .. sent /\ t.tx \notin Txs /\ IsFiniteSet(Txs) /\ Cardinality(Txs) = mined
      /\ Txs \subseteq 1 .. sent /\ mined \in Nat /\ sent \in Nat /\ t.by \in Process
  BY DEF FusInv, ChainInv
<1>2. /\ pendingTx' = NoTx /\ mined' = mined + 1
      /\ receipts' = receipts \cup {receipt}
      /\ calls' = IF calls[t.by].at = "sent" /\ calls[t.by].tx = t.tx
                  THEN [calls EXCEPT ![t.by].at = "mined"] ELSE calls
  BY DEF IsMined
<1>3. Txs' = Txs \cup {t.tx}
  <2>1. receipt.tx = t.tx
    OBVIOUS
  <2> HIDE DEF receipt
  <2>2. QED
    BY <1>2, <2>1 DEF Txs
<1>4. IsFiniteSet(Txs') /\ Cardinality(Txs') = mined + 1
  BY <1>1, <1>3, FS_AddElement
<1>5. ChainInv'
  BY <1>1, <1>2, <1>3, <1>4 DEF ChainInv
<1>6. \A x : CallOk(x, Txs, models) => CallOk(x, Txs', models')
  <2>1. \A m \in MarketModel : models[m] # NoModelYet => models[m].writes \in Nat
    BY DEF FusInv, ModelsInv, Registered, ModelWritten
  <2>2. \A x : KeepsRest(x, models) => KeepsRest(x, models')
    BY <2>1, KeptByNewer
  <2>3. QED
    BY <1>3, <2>2 DEF CallOk
<1>7. calls' = [q \in Process |-> calls'[q]]
  BY <1>2 DEF FusInv, CallsInv
<1>8. ASSUME NEW q \in Process PROVE CallOk(calls'[q], Txs', models')
  <2>1. CallOk(calls[q], Txs, models)
    BY DEF FusInv, CallsInv
  <2>2. CASE calls'[q] = calls[q]
    BY <1>6, <2>1, <2>2
  <2>3. CASE calls'[q] # calls[q]
    <3>1. q = t.by /\ calls[q].at = "sent" /\ calls[q].tx = t.tx
          /\ calls'[q] = [calls[q] EXCEPT !.at = "mined"]
      BY <1>1, <1>2, <2>3 DEF FusInv, CallsInv
    <3>2. /\ calls'[q].at = "mined" /\ DOMAIN calls'[q] = DOMAIN calls[q]
          /\ calls'[q].tx = t.tx
      BY <2>1, <3>1 DEF CallOk
    <3>3. QED
      BY <1>3, <2>1, <3>2 DEF CallOk
  <2>4. QED
    BY <2>2, <2>3
<1>9. CallsInv'
  BY <1>2, <1>7, <1>8 DEF CallsInv
<1>10. QED
  BY <1>5, <1>9 DEF FusInv

\* Results that were true stay so, with more receipts and more fused models.
LEMMA ResultsGrow ==
  ASSUME FusInv, Txs \subseteq Txs', fused \subseteq fused', UNCHANGED results,
         \A x \in fused' \ fused : SharesAreWhole(x.shares)
  PROVE  ResultsInv'
BY DEF FusInv, ResultsInv

LEMMA MineStep ==
  ASSUME FusInv, Mine, UNCHANGED fused
  PROVE  FusInv' /\ RestKept
<1> DEFINE t == pendingTx
           m == t.call.model
<1>1. PICK ok \in Accepts(t) :
        /\ IsMined(t, ok)
        /\ IF ok THEN Execute(t) ELSE UNCHANGED <<store, storeModels, models>>
  BY DEF Mine
<1>2. t # NoTx /\ t.call.op \in MarketOp /\ sent' = sent /\ results' = results
  BY DEF Mine
<1>3. Txs \subseteq Txs'
  BY <1>1 DEF Txs, IsMined
<1>4. ResultsInv'
  BY <1>2, <1>3, ResultsGrow
<1>5. CASE models' = models
  <2>1. ModelsInv' /\ NoOlder(models', models)
    BY <1>5 DEF FusInv, ModelsInv, Registered, NoOlder
  <2>2. QED
    BY <1>1, <1>2, <1>4, <1>5, <2>1, MinedStep DEF RestKept
<1>6. CASE models' # models
  <2>1. ok /\ Execute(t)
    BY <1>1, <1>6
  <2>2. CASE t.call.op = "register_model"
    <3> DEFINE new == [data |-> t.data, isActive |-> TRUE, writes |-> Writes(m) + 1]
    <3>1. models' = [models EXCEPT ![m] = new]
      BY <2>1, <2>2 DEF Execute
    <3>2. m \in MarketModel
      BY <1>6, <3>1 DEF FusInv, ModelsInv
    <3>3. Writes(m) \in Nat /\ (Registered(m) => Writes(m) = models[m].writes)
      BY <3>2 DEF FusInv, ModelsInv, ModelWritten, Writes
    <3>4. ModelWritten(new) /\ new.writes = Writes(m) + 1 /\ new # NoModelYet
      BY <3>3 DEF ModelWritten, NoModelYet
    <3> HIDE DEF new
    <3>5. /\ models' = [k \in MarketModel |-> models'[k]]
          /\ \A k \in MarketModel : models'[k] = IF k = m THEN new ELSE models[k]
      BY <3>1 DEF FusInv, ModelsInv
    <3>6. ModelsInv' /\ NoOlder(models', models)
      BY <3>3, <3>4, <3>5 DEF FusInv, ModelsInv, Registered, NoOlder
    <3>7. QED
      BY <1>1, <1>2, <1>4, <2>2, <3>6, MinedStep DEF RestKept
  <2>3. CASE t.call.op = "update_model"
    <3>1. Registered(m)
      BY <1>1, <2>1, <2>3 DEF Accepts
    <3>2. models' = [models EXCEPT ![m].data = t.data, ![m].writes = @ + 1]
      BY <2>1, <2>3 DEF Execute
    <3>3. /\ m \in MarketModel /\ ModelWritten(models[m])
          /\ KeepsRest(t, models)
      BY <1>2, <2>3, <3>1 DEF FusInv, CallsInv, KeepsRest, ModelsInv
    <3> DEFINE new == [models[m] EXCEPT !.data = t.data, !.writes = @ + 1]
    <3>4. /\ ModelWritten(new) /\ new.data = t.data /\ new.writes = models[m].writes + 1
          /\ new # NoModelYet
      <4>1. /\ DOMAIN new = DOMAIN models[m] /\ {"data", "writes"} \subseteq DOMAIN models[m]
            /\ models[m].writes \in Nat
        BY <3>3 DEF ModelWritten
      <4>2. new.data = t.data /\ new.writes = models[m].writes + 1
        BY <4>1
      <4>3. "data" \in DOMAIN new /\ DOMAIN NoModelYet = {}
        BY <4>1 DEF NoModelYet
      <4> HIDE DEF new
      <4>4. QED
        BY <3>3, <4>1, <4>2, <4>3 DEF ModelWritten
    <3>5. models' = [models EXCEPT ![m] = new]
      BY <3>2, <3>3 DEF FusInv, ModelsInv
    <3> HIDE DEF new
    <3>6. /\ models' = [k \in MarketModel |-> models'[k]]
          /\ \A k \in MarketModel : models'[k] = IF k = m THEN new ELSE models[k]
      BY <3>3, <3>5 DEF FusInv, ModelsInv
    <3>7. ModelsInv' /\ NoOlder(models', models)
      BY <3>4, <3>6 DEF FusInv, ModelsInv, Registered, NoOlder
    <3>8. RestKept
      <4>1. ASSUME NEW k \in MarketModel, models'[k] # models[k], t.read = models[k].writes,
                   NEW f \in Field, f \notin DOMAIN t.call.given
            PROVE  models'[k].data[f] = models[k].data[f]
        <5>1. k = m
          BY <3>6, <4>1
        <5>2. t.data[f] = models[m].data[f]
          BY <2>3, <3>3, <4>1, <5>1 DEF KeepsRest
        <5>3. QED
          BY <3>3, <3>4, <3>6, <5>1, <5>2
      <4>2. QED
        BY <4>1 DEF RestKept
    <3>9. QED
      BY <1>1, <1>2, <1>4, <3>7, <3>8, MinedStep
  <2>4. CASE t.call.op = "deactivate_model"
    <3>1. Registered(m)
      BY <1>1, <2>1, <2>4 DEF Accepts
    <3>2. models' = [models EXCEPT ![m].isActive = FALSE]
      BY <2>1, <2>4 DEF Execute
    <3>3. m \in MarketModel /\ ModelWritten(models[m])
      BY <1>6, <3>1, <3>2 DEF FusInv, ModelsInv
    <3> DEFINE new == [models[m] EXCEPT !.isActive = FALSE]
    <3>4. /\ ModelWritten(new) /\ new.data = models[m].data /\ new.writes = models[m].writes
          /\ new # NoModelYet
      BY <3>3 DEF ModelWritten, NoModelYet
    <3>5. models' = [models EXCEPT ![m] = new]
      BY <3>2, <3>3 DEF FusInv, ModelsInv
    <3> HIDE DEF new
    <3>6. /\ models' = [k \in MarketModel |-> models'[k]]
          /\ \A k \in MarketModel : models'[k] = IF k = m THEN new ELSE models[k]
      BY <3>3, <3>5 DEF FusInv, ModelsInv
    <3>7. ModelsInv' /\ NoOlder(models', models)
      BY <3>4, <3>6 DEF FusInv, ModelsInv, Registered, NoOlder
    <3>8. QED
      BY <1>1, <1>2, <1>4, <2>4, <3>7, MinedStep DEF RestKept
  <2>5. QED
    BY <1>2, <1>6, <2>1, <2>2, <2>3, <2>4 DEF Execute, MarketOp
<1>7. QED
  BY <1>5, <1>6

LEMMA MineFusionStep ==
  ASSUME FusInv, MineFusion
  PROVE  FusInv' /\ RestKept
<1> DEFINE t == pendingTx
           new == [tx |-> t.tx, shares |-> t.call.shares]
<1>1. PICK ok \in BOOLEAN :
        /\ IsMined(t, ok)
        /\ fused' = IF ok /\ t.call.op = "create_fused_model" THEN fused \cup {new} ELSE fused
  BY DEF MineFusion
<1>2. /\ t # NoTx /\ t.call.op \notin MarketOp /\ UNCHANGED <<sent, models, results>>
  BY DEF MineFusion
<1>3. Txs \subseteq Txs'
  BY <1>1 DEF Txs, IsMined
<1>4. fused \subseteq fused' /\ \A x \in fused' \ fused : SharesAreWhole(x.shares)
  BY <1>1, <1>2 DEF FusInv, CallsInv, WholeIfFused
<1>5. ResultsInv'
  BY <1>2, <1>3, <1>4, ResultsGrow
<1>6. ModelsInv' /\ NoOlder(models', models) /\ RestKept
  BY <1>2 DEF FusInv, ModelsInv, Registered, NoOlder, RestKept, MarketOp
<1>7. QED
  BY <1>1, <1>2, <1>5, <1>6, MinedStep

LEMMA FusNextInv ==
  FusInv /\ ([FusNext]_fusVars \/ [CompatNext]_fusVars) => FusInv' /\ RestKept
<1> SUFFICES ASSUME FusInv, [FusNext]_fusVars \/ [CompatNext]_fusVars
             PROVE  FusInv' /\ RestKept
  OBVIOUS
<1>1. CASE UNCHANGED <<mktVars, fused>>
  BY <1>1 DEF mktVars, FusInv, ChainInv, ModelsInv, CallsInv, ResultsInv, Txs, Registered, RestKept
<1>2. ASSUME NEW p \in Process, ClientStep(p), UNCHANGED fused PROVE FusInv' /\ RestKept
  BY <1>2, ReadStep, EndStep, BuildStep, SendTxStep DEF ClientStep
<1>3. CASE MktNext /\ UNCHANGED <<fused, compatibility>>
  BY <1>2, <1>3, CallStep, MineStep DEF MktNext
<1>4. CASE FusNext
  BY <1>3, <1>4, EndStep, RequestStep, MineFusionStep DEF FusNext
<1>5. CASE CompatNext
  BY <1>1, <1>5 DEF CompatNext, CheckCompatibility
<1>6. QED
  BY <1>1, <1>4, <1>5 DEF fusVars

LEMMA FusInvTells == FusInv => CallersToldTruth
<1> SUFFICES ASSUME FusInv PROVE CallersToldTruth
  OBVIOUS
<1>1. TrueMeansMined
  BY DEF FusInv, ChainInv, ResultsInv, Txs, TrueMeansMined
<1>2. FusedIsShared
  BY DEF FusInv, ResultsInv, FusedIsShared
<1>3. QED
  BY <1>1, <1>2 DEF CallersToldTruth

\* A batch is handed out again only while somebody still waits for it, and an update
\* that nobody overlaps keeps what it does not name: batch handler and account of a
\* node, any requests, processes and models (OnlyOverlapsHarm).
THEOREM OverlapsHarmOnly == ServicesSpec => OnlyOverlapsHarm
<1>1. ServicesInit => IotaInv /\ FusInv
  BY IotaInitInv, FusInitInv DEF ServicesInit
<1>2. [ServicesNext]_serviceVars => [IotaNext]_iotaVars
  BY DEF ServicesNext, OthersIdle, serviceVars
<1>3. [ServicesNext]_serviceVars => [FusNext]_fusVars \/ [CompatNext]_fusVars
  BY DEF ServicesNext, OthersIdle, serviceVars
<1>4. IotaInv /\ FusInv /\ [ServicesNext]_serviceVars
        => /\ IotaInv' /\ FusInv'
           /\ [AwaitedOnce]_iotaVars
           /\ [RestKept]_mktVars
  BY <1>2, <1>3, IotaNextInv, FusNextInv
<1>5. QED
  BY <1>1, <1>4, PTL DEF ServicesSpec, OnlyOverlapsHarm, AwaitedAgainInOverlap, AwaitedOnce,
     LoneUpdateKeepsRest, RestKept

\* Who is told that a call was mined has it in the chain, alone under its nonce, and a
\* fused model that a caller knows exists with whole shares, any processes that share
\* the account (CallersToldTruth).
THEOREM CallersAreToldTruth == ServicesSpec => []CallersToldTruth
<1>1. ServicesInit => FusInv
  BY FusInitInv DEF ServicesInit
<1>2. [ServicesNext]_serviceVars => [FusNext]_fusVars \/ [CompatNext]_fusVars
  BY DEF ServicesNext, OthersIdle, serviceVars
<1>3. FusInv /\ [ServicesNext]_serviceVars => FusInv'
  BY <1>2, FusNextInv
<1>4. QED
  BY <1>1, <1>3, FusInvTells, PTL DEF ServicesSpec

-----------------------------------------------------------------------------
(* Messages and files: any channels, messages, files and times.            *)

\* A message that nobody handed in is nowhere.
MsgsInv ==
  /\ msgNow \in Nat /\ msgNow > 0
  /\ stamp \in [Message -> Nat] /\ layers \in [Message -> Nat]
  /\ handed \in [Message -> Nat]
  /\ storing \in [Channel \X Message -> Nat] /\ finished \in [Channel \X Message -> Nat]
  /\ channels \in [Channel -> [Message -> Nat]]
  /\ \A m \in Message :
       /\ layers[m] <= handed[m]
       /\ ~retention.encryption => layers[m] = 0
       /\ handed[m] > 0 <=> stamp[m] > 0
  /\ \A c \in Channel, m \in Message :
       handed[m] = 0 => /\ storing[<<c, m>>] = 0 /\ finished[<<c, m>>] = 0
                        /\ channels[c][m] = 0
  /\ StoredIsKept
  /\ \A m \in DOMAIN shown : m \in Message => handed[m] > 0
  /\ DOMAIN shown \subseteq Message
  /\ HandedOnceIsReadable

\* What a call for a file has done when it has come so far.
FilesInv ==
  /\ fileAt = [f \in File |-> fileAt[f]] /\ withMetadata = [f \in File |-> withMetadata[f]]
  /\ \A f \in File :
       /\ fileAt[f] \in {"pinning", "describing", "stored"} => f \in added
       /\ fileAt[f] \in {"describing", "stored"} /\ ipfsConfig.pin_files => f \in pinned
       /\ fileAt[f] = "stored" /\ withMetadata[f] => f \in described

MsgInv == MsgsInv /\ FilesInv

LEMMA MsgInitInv == MsgInit => MsgInv
<1> SUFFICES ASSUME MsgInit PROVE MsgInv
  OBVIOUS
<1>1. MsgsInv
  BY RetentionAssumption DEF MsgInit, MsgsInv, StoredIsKept, HandedOnceIsReadable, Young
<1>2. FilesInv
  BY DEF MsgInit, FilesInv
<1>3. QED
  BY <1>1, <1>2 DEF MsgInv

LEMMA StoreStep ==
  ASSUME MsgsInv, NEW c \in Channel, NEW m \in Message, StoreMessage(c, m)
  PROVE  MsgsInv'
<1>1. /\ handed' = [handed EXCEPT ![m] = handed[m] + 1]
      /\ stamp' = [stamp EXCEPT ![m] = IF stamp[m] = 0 THEN msgNow ELSE stamp[m]]
      /\ layers' = [layers EXCEPT ![m] = IF retention.encryption THEN layers[m] + 1 ELSE layers[m]]
      /\ storing' = [storing EXCEPT ![<<c, m>>] = storing[<<c, m>>] + 1]
      /\ UNCHANGED <<retention, msgNow, channels, finished, shown>>
  BY DEF StoreMessage, msgConfig
<1>2. /\ stamp' \in [Message -> Nat] /\ layers' \in [Message -> Nat]
      /\ handed' \in [Message -> Nat] /\ storing' \in [Channel \X Message -> Nat]
  BY <1>1 DEF MsgsInv
<1>3. \A k \in Message : /\ handed'[k] = IF k = m THEN handed[m] + 1 ELSE handed[k]
                         /\ layers'[k] = IF k = m /\ retention.encryption THEN layers[m] + 1
                                         ELSE layers[k]
                         /\ k # m \/ handed[m] > 0 => stamp'[k] = stamp[k]
                         /\ k = m => stamp'[k] > 0
  BY <1>1 DEF MsgsInv
<1>4. \A d \in Channel, k \in Message : k # m => storing'[<<d, k>>] = storing[<<d, k>>]
  BY <1>1 DEF MsgsInv
<1>5. \A k \in Message : /\ layers'[k] <= handed'[k]
                         /\ ~retention.encryption => layers'[k] = 0
                         /\ handed'[k] > 0 <=> stamp'[k] > 0
  BY <1>3 DEF MsgsInv
<1>6. \A d \in Channel, k \in Message :
        handed'[k] = 0 => /\ storing'[<<d, k>>] = 0 /\ finished'[<<d, k>>] = 0
                          /\ channels'[d][k] = 0
  BY <1>1, <1>3, <1>4 DEF MsgsInv
<1>7. StoredIsKept'
  <2>1. SUFFICES ASSUME NEW d \in Channel, NEW k \in Message
                 PROVE  /\ channels[d][k] <= finished[<<d, k>>]
                        /\ Young(k)' => channels[d][k] = finished[<<d, k>>]
    BY <1>1 DEF StoredIsKept
  <2>2. CASE k # m \/ handed[m] > 0
    BY <1>1, <1>3, <2>2 DEF MsgsInv, StoredIsKept, Young
  <2>3. CASE k = m /\ ~(handed[m] > 0)
    BY <2>3 DEF MsgsInv
  <2>4. QED
    BY <2>2, <2>3
<1>8. HandedOnceIsReadable' /\ \A k \in DOMAIN shown' : k \in Message => handed'[k] > 0
  BY <1>1, <1>3 DEF MsgsInv, HandedOnceIsReadable
<1>9. QED
  BY <1>1, <1>2, <1>5, <1>6, <1>7, <1>8 DEF MsgsInv

LEMMA MessageUploadedStep ==
  ASSUME MsgsInv, NEW c \in Channel, NEW m \in Message, MessageUploaded(c, m)
  PROVE  MsgsInv'
<1>1. /\ storing[<<c, m>>] > 0
      /\ storing' = [storing EXCEPT ![<<c, m>>] = storing[<<c, m>>] - 1]
      /\ channels' = [channels EXCEPT ![c] = Cleaned([channels[c] EXCEPT ![m] = channels[c][m] + 1])]
      /\ finished' = [finished EXCEPT ![<<c, m>>] = finished[<<c, m>>] + 1]
      /\ UNCHANGED <<retention, msgNow, stamp, layers, handed, shown>>
  BY DEF MessageUploaded, msgConfig
<1>2. handed[m] # 0
  BY <1>1 DEF MsgsInv
<1>3. \A d \in Channel, k \in Message :
        /\ storing'[<<d, k>>] = IF d = c /\ k = m THEN storing[<<d, k>>] - 1 ELSE storing[<<d, k>>]
        /\ finished'[<<d, k>>] = IF d = c /\ k = m THEN finished[<<d, k>>] + 1
                                 ELSE finished[<<d, k>>]
  BY <1>1 DEF MsgsInv
<1>4. storing' \in [Channel \X Message -> Nat] /\ finished' \in [Channel \X Message -> Nat]
  BY <1>1 DEF MsgsInv
<1> DEFINE more == [channels[c] EXCEPT ![m] = channels[c][m] + 1]
<1>5. /\ more \in [Message -> Nat]
      /\ \A k \in Message : more[k] = IF k = m THEN channels[c][k] + 1 ELSE channels[c][k]
  BY DEF MsgsInv
<1> HIDE DEF more
<1>6. /\ Cleaned(more) \in [Message -> Nat]
      /\ \A k \in Message : Cleaned(more)[k] = IF Young(k) THEN more[k] ELSE 0
  BY <1>5 DEF Cleaned
<1>7. channels' = [channels EXCEPT ![c] = Cleaned(more)]
  BY <1>1 DEF more
<1> HIDE DEF Cleaned
<1>8. channels' \in [Channel -> [Message -> Nat]]
  BY <1>6, <1>7 DEF MsgsInv
<1>9. \A d \in Channel : channels'[d] = IF d = c THEN Cleaned(more) ELSE channels[d]
  BY <1>7 DEF MsgsInv
<1>10. \A d \in Channel, k \in Message :
         handed[k] = 0 => /\ storing'[<<d, k>>] = 0 /\ finished'[<<d, k>>] = 0
                          /\ channels'[d][k] = 0
  BY <1>2, <1>3, <1>5, <1>6, <1>9 DEF MsgsInv
<1>11. ASSUME NEW d \in Channel, NEW k \in Message
       PROVE  /\ channels'[d][k] <= finished'[<<d, k>>]
              /\ Young(k) => channels'[d][k] = finished'[<<d, k>>]
  <2>1. /\ channels[d][k] \in Nat /\ finished[<<d, k>>] \in Nat
        /\ channels[d][k] <= finished[<<d, k>>]
        /\ Young(k) => channels[d][k] = finished[<<d, k>>]
    BY DEF MsgsInv, StoredIsKept
  <2>2. CASE d # c
    BY <1>3, <1>9, <2>1, <2>2
  <2>3. CASE d = c /\ Young(k)
    BY <1>3, <1>5, <1>6, <1>9, <2>1, <2>3
  <2>4. CASE d = c /\ ~Young(k)
    <3>1. channels'[d][k] = 0
      BY <1>6, <1>9, <2>4
    <3>2. finished'[<<d, k>>] >= 0
      BY <1>3, <2>1
    <3>3. QED
      BY <2>4, <3>1, <3>2
  <2>5. QED
    BY <2>2, <2>3, <2>4
<1>12. StoredIsKept'
  BY <1>1, <1>11 DEF StoredIsKept, Young
<1>13. QED
  BY <1>1, <1>4, <1>8, <1>10, <1>12 DEF MsgsInv, HandedOnceIsReadable

LEMMA UploadRaisesStep ==
  ASSUME MsgsInv, NEW c \in Channel, NEW m \in Message, MessageUploadRaises(c, m)
  PROVE  MsgsInv'
<1>1. /\ storing[<<c, m>>] > 0
      /\ storing' = [storing EXCEPT ![<<c, m>>] = storing[<<c, m>>] - 1]
      /\ UNCHANGED <<retention, msgNow, stamp, layers, channels, handed, finished, shown>>
  BY DEF MessageUploadRaises, msgConfig
<1>2. storing' \in [Channel \X Message -> Nat]
  BY <1>1 DEF MsgsInv
<1>3. \A d \in Channel, k \in Message : handed[k] = 0 => storing'[<<d, k>>] = 0
  BY <1>1 DEF MsgsInv
<1>4. QED
  BY <1>1, <1>2, <1>3 DEF MsgsInv, StoredIsKept, HandedOnceIsReadable, Young

LEMMA GetMessagesStep ==
  ASSUME MsgsInv, NEW c \in Channel, NEW wanted \in SUBSET Message, GetMessages(c, wanted)
  PROVE  MsgsInv'
<1> DEFINE got == {m \in wanted : channels[c][m] > 0}
<1>1. /\ layers' = [m \in Message |-> IF m \in got THEN Decrypted(channels[c][m], m) ELSE layers[m]]
      /\ shown' = [m \in got |-> Decrypted(channels[c][m], m)]
      /\ UNCHANGED <<retention, msgNow, stamp, storing, channels, handed, finished>>
  BY DEF GetMessages, msgConfig
<1>2. ASSUME NEW m \in Message
      PROVE  /\ Decrypted(channels[c][m], m) \in Nat
             /\ Decrypted(channels[c][m], m) <= layers[m]
             /\ m \in got => handed[m] > 0
             /\ m \in got /\ handed[m] = 1 => Decrypted(channels[c][m], m) = 0
  <2>1. /\ layers[m] \in Nat /\ handed[m] \in Nat /\ channels[c][m] \in Nat
        /\ layers[m] <= handed[m]
        /\ ~retention.encryption => layers[m] = 0
        /\ handed[m] = 0 => channels[c][m] = 0
    BY DEF MsgsInv
  <2>2. Decrypted(channels[c][m], m) =
          IF layers[m] > channels[c][m] THEN layers[m] - channels[c][m] ELSE 0
    BY <2>1 DEF Decrypted
  <2>3. m \in got => channels[c][m] > 0
    OBVIOUS
  <2> HIDE DEF Decrypted, got
  <2>4. QED
    BY <2>1, <2>2, <2>3
<1> HIDE DEF got, Decrypted
<1>3. got \subseteq Message
  BY DEF got
<1>4. /\ layers' \in [Message -> Nat]
      /\ \A m \in Message : layers'[m] <= layers[m]
  BY <1>1, <1>2 DEF MsgsInv
<1>5. \A m \in Message : /\ layers'[m] <= handed[m]
                         /\ ~retention.encryption => layers'[m] = 0
  BY <1>4 DEF MsgsInv
<1>6. DOMAIN shown' = got /\ HandedOnceIsReadable'
  BY <1>1, <1>2, <1>3 DEF HandedOnceIsReadable
<1>7. StoredIsKept'
  BY <1>1 DEF MsgsInv, StoredIsKept, Young
<1>8. QED
  BY <1>1, <1>2, <1>3, <1>4, <1>5, <1>6, <1>7 DEF MsgsInv

LEMMA MsgTickStep ==
  ASSUME MsgsInv, MsgTick
  PROVE  MsgsInv'
<1>1. /\ msgNow' = msgNow + 1
      /\ UNCHANGED <<retention, stamp, layers, storing, channels, handed, finished, shown>>
  BY DEF MsgTick, msgConfig, messageVars
<1>2. \A m \in Message : Young(m)' => Young(m)
  BY <1>1, RetentionAssumption DEF MsgsInv, Young
<1>3. StoredIsKept'
  BY <1>1, <1>2 DEF MsgsInv, StoredIsKept
<1>4. QED
  BY <1>1, <1>3 DEF MsgsInv, HandedOnceIsReadable

LEMMA FileNextInv ==
  ASSUME FilesInv, FileNext
  PROVE  FilesInv'
<1>1. ASSUME NEW f \in File, StoreFile(f) PROVE FilesInv'
  <2>1. /\ fileAt' = [fileAt EXCEPT ![f] = IF f \in Readable THEN "adding" ELSE "raised"]
        /\ \E given \in BOOLEAN : withMetadata' = [withMetadata EXCEPT ![f] = given]
        /\ described' = described \ {f}
        /\ UNCHANGED <<ipfsConfig, added, pinned>>
    BY <1>1 DEF StoreFile, msgConfig
  <2>2. QED
    BY <2>1 DEF FilesInv
<1>2. ASSUME NEW f \in File, FileStep(f) PROVE FilesInv'
  <2>1. UNCHANGED <<ipfsConfig, withMetadata>>
    BY <1>2 DEF FileStep, msgConfig
  <2>2. added \subseteq added' /\ pinned \subseteq pinned' /\ described \subseteq described'
    BY <1>2 DEF FileStep, IpfsCall
  <2>3. CASE IpfsCall(f) /\ fileAt' = [fileAt EXCEPT ![f] = Following(f)]
    <3>1. /\ fileAt'[f] \in {"pinning", "describing", "stored"} => f \in added'
          /\ fileAt'[f] \in {"describing", "stored"} /\ ipfsConfig.pin_files => f \in pinned'
          /\ fileAt'[f] = "stored" /\ withMetadata[f] => f \in described'
      BY <1>2, <2>3 DEF FileStep, IpfsCall, Following, FilesInv
    <3>2. \A g \in File : g # f => fileAt'[g] = fileAt[g]
      BY <2>3 DEF FilesInv
    <3>3. QED
      BY <2>1, <2>2, <2>3, <3>1, <3>2 DEF FilesInv
  <2>4. CASE fileAt' = [fileAt EXCEPT ![f] = "raised"]
    BY <2>1, <2>2, <2>4 DEF FilesInv
  <2>5. QED
    BY <1>2, <2>3, <2>4 DEF FileStep
<1>3. QED
  BY <1>1, <1>2 DEF FileNext

LEMMA MsgNextInv ==
  MsgInv /\ ([MsgNext]_msgVars \/ [FileNext]_msgVars) => MsgInv'
<1> SUFFICES ASSUME MsgInv, [MsgNext]_msgVars \/ [FileNext]_msgVars PROVE MsgInv'
  OBVIOUS
<1>1. ASSUME UNCHANGED <<retention, msgNow, messageVars>>
      PROVE  MsgsInv'
  BY <1>1 DEF messageVars, MsgInv, MsgsInv, StoredIsKept, HandedOnceIsReadable, Young
<1>2. CASE MsgNext
  <2>1. MsgsInv'
    BY <1>2, StoreStep, MessageUploadedStep, UploadRaisesStep, GetMessagesStep, MsgTickStep
    DEF MsgNext, MsgInv
  <2>2. UNCHANGED <<ipfsConfig, fileVars>>
    BY <1>2 DEF MsgNext, StoreMessage, MessageUploaded, MessageUploadRaises, GetMessages, MsgTick,
                msgConfig
  <2>3. QED
    BY <2>1, <2>2 DEF MsgInv, FilesInv, fileVars
<1>3. CASE FileNext
  <2>1. UNCHANGED <<retention, msgNow, messageVars>>
    BY <1>3 DEF FileNext, StoreFile, FileStep, msgConfig
  <2>2. QED
    BY <1>1, <1>3, <2>1, FileNextInv DEF MsgInv
<1>4. CASE UNCHANGED msgVars
  BY <1>1, <1>4 DEF msgVars, msgConfig, fileVars, MsgInv, FilesInv
<1>5. QED
  BY <1>2, <1>3, <1>4

LEMMA MsgInvKeeps == MsgInv => MessagesKept
BY DEF MsgInv, MsgsInv, FilesInv, MessagesKept, StoredIsPinned

-----------------------------------------------------------------------------
(* Models, through the file that the workers share: any workers and models. *)

JobField == {"op", "stage", "duration", "model", "metadata", "ok", "linked", "lapped"}

\* A call has all its fields.
IsJob(j) ==
  /\ DOMAIN j = JobField
  /\ j.op \in {"store", "load"} /\ j.stage \in {"writing", "written", "described", "cleaning"}
  /\ j.ok \in BOOLEAN /\ j.linked \in BOOLEAN /\ j.lapped \in BOOLEAN
  /\ {"name", "model_id"} \subseteq DOMAIN j.metadata

\* The durations whose provider retrieves what it stored.
HasRetrieve(d) == d \in Providers \cap {"short", "mid"}

\* What a call that goes well has to return, except from Arweave, once IPFS holds kept.
Stores(j, kept) ==
  j.duration # "long" =>
    /\ j.stage \in {"described", "cleaning"} =>
         HasRetrieve(j.duration) /\ j.metadata.model_id \in kept
    /\ j.stage = "cleaning" => j.metadata \in kept
    /\ ~j.lapped /\ j.stage \in {"described", "cleaning"} =>
         j.metadata.model_id = j.model

\* What a call that loads found at its begin, and reads if no other overlaps it.
Loads(j, kept) ==
  /\ HasRetrieve(j.duration) /\ {j.metadata, j.metadata.model_id} \subseteq kept
  /\ ~j.lapped => j.model = j.metadata.model_id
  /\ ~j.lapped /\ j.metadata.model_id \in StorageModel => j.ok

JobOk(j, kept) ==
  /\ IsJob(j)
  /\ j.op = "store" => /\ j.model = j.metadata.name
                       /\ j.ok => Stores(j, kept)
  /\ j.op = "load" => j.stage # "described" /\ Loads(j, kept)

\* Who was not overlapped has the file for itself.
ModelsStoredInv ==
  /\ jobs = [w \in Worker |-> jobs[w]]
  /\ \A w \in Busy : /\ JobOk(jobs[w], ipfs)
                     /\ ~jobs[w].lapped =>
                          /\ Busy = {w} /\ jobs[w].linked
                          /\ jobs[w].stage = "written" => tempFile = jobs[w].model
  /\ returned # <<>> => /\ JobOk(returned, ipfs)
                        /\ returned.ok /\ returned.stage = "cleaning"

LEMMA FreshJob ==
  ASSUME NEW op, NEW d, NEW m, NEW metadata
  PROVE  LET j == NewJob(op, d, m, metadata)
         IN  /\ j.op = op /\ j.stage = "writing" /\ j.duration = d /\ j.model = m
             /\ j.metadata = metadata /\ j.ok = TRUE /\ j.linked = TRUE /\ j.lapped = FALSE
             /\ DOMAIN j = JobField
BY DEF NewJob, JobField

\* A call that another overlaps promises less.
LEMMA LapJob ==
  ASSUME NEW j, NEW kept, JobOk(j, kept), NEW lap \in BOOLEAN, j.lapped => lap
  PROVE  LET k == [j EXCEPT !.lapped = lap]
         IN  JobOk(k, kept) /\ k.lapped = lap /\ k.linked = j.linked /\ k # <<>>
<1> DEFINE k == [j EXCEPT !.lapped = lap]
<1>2. DOMAIN j = JobField
  BY DEF JobOk, IsJob
<1>3. /\ k.op = j.op /\ k.stage = j.stage /\ k.duration = j.duration /\ k.model = j.model
      /\ k.metadata = j.metadata /\ k.ok = j.ok /\ k.linked = j.linked /\ k.lapped = lap
      /\ DOMAIN k = DOMAIN j
  BY <1>2 DEF JobField
<1>4. k # <<>>
  BY <1>2, <1>3 DEF JobField
<1> HIDE DEF k
<1>5. JobOk(k, kept)
  BY <1>2, <1>3 DEF JobOk, IsJob, Stores, Loads
<1>6. QED
  BY <1>3, <1>4, <1>5 DEF k

\* What IPFS holds it keeps, and who was linked may be cut off.
LEMMA JobStays ==
  ASSUME NEW j, NEW kept, NEW more, kept \subseteq more, JobOk(j, kept)
  PROVE  JobOk(j, more)
BY DEF JobOk, Stores, Loads

LEMMA CutJob ==
  ASSUME NEW j, NEW kept, JobOk(j, kept)
  PROVE  LET k == [j EXCEPT !.linked = FALSE]
         IN  JobOk(k, kept) /\ k.lapped = j.lapped /\ k # <<>>
<1> DEFINE k == [j EXCEPT !.linked = FALSE]
<1>2. DOMAIN j = JobField
  BY DEF JobOk, IsJob
<1>3. /\ k.op = j.op /\ k.stage = j.stage /\ k.duration = j.duration /\ k.model = j.model
      /\ k.metadata = j.metadata /\ k.ok = j.ok /\ k.linked = FALSE /\ k.lapped = j.lapped
      /\ DOMAIN k = DOMAIN j
  BY <1>2 DEF JobField
<1>4. k # <<>>
  BY <1>2, <1>3 DEF JobField
<1> HIDE DEF k
<1>5. JobOk(k, kept)
  BY <1>2, <1>3 DEF JobOk, IsJob, Stores, Loads
<1>6. QED
  BY <1>3, <1>4, <1>5 DEF k

\* One call goes on.
LEMMA JobStep ==
  ASSUME ModelsStoredInv, NEW w \in Busy, NEW new, Step(w, new), ipfs \subseteq ipfs',
         new # <<>>, JobOk(new, ipfs'), new.lapped = jobs[w].lapped,
         new.linked = jobs[w].linked,
         ~new.lapped /\ new.stage = "written" => tempFile' = new.model
  PROVE  ModelsStoredInv'
<1>1. jobs' = [jobs EXCEPT ![w] = new] /\ returned' = returned
  BY DEF Step
<1>2. /\ jobs' = [v \in Worker |-> jobs'[v]]
      /\ \A v \in Worker : jobs'[v] = IF v = w THEN new ELSE jobs[v]
  BY <1>1 DEF ModelsStoredInv, Busy
<1>3. Busy' = Busy
  BY <1>2 DEF Busy
<1>4. ASSUME NEW v \in Busy
      PROVE  /\ JobOk(jobs'[v], ipfs')
             /\ ~jobs'[v].lapped =>
                  /\ Busy = {v} /\ jobs'[v].linked
                  /\ jobs'[v].stage = "written" => tempFile' = jobs'[v].model
  <2>1. v \in Worker
    BY DEF Busy
  <2>2. CASE v = w
    BY <1>2, <2>1, <2>2 DEF ModelsStoredInv
  <2>3. CASE v # w
    <3>1. jobs[v].lapped
      BY <2>3 DEF ModelsStoredInv
    <3>2. JobOk(jobs[v], ipfs)
      BY DEF ModelsStoredInv
    <3>3. QED
      BY <1>2, <2>1, <2>3, <3>1, <3>2, JobStays
  <2>4. QED
    BY <2>2, <2>3
<1>5. returned # <<>> => JobOk(returned, ipfs')
  BY JobStays DEF ModelsStoredInv
<1>6. QED
  BY <1>1, <1>2, <1>3, <1>4, <1>5 DEF ModelsStoredInv

LEMMA BeginStep ==
  ASSUME ModelsStoredInv, NEW w \in Worker, NEW job, Begin(w, job), JobOk(job, ipfs),
         job.stage = "writing", job.linked = TRUE, job.lapped = FALSE
  PROVE  ModelsStoredInv'
<1> DEFINE new == [job EXCEPT !.lapped = Busy # {}]
           Lap(v) == [jobs[v] EXCEPT !.lapped = TRUE]
<1>1. /\ w \notin Busy /\ returned' = <<>> /\ ipfs' = ipfs
      /\ jobs' = [v \in Worker |-> IF v = w THEN new ELSE IF v \in Busy THEN Lap(v) ELSE jobs[v]]
  BY DEF Begin
<1>2. JobOk(new, ipfs) /\ new.lapped = (Busy # {}) /\ new.linked = TRUE /\ new # <<>>
  BY LapJob
<1>3. \A v \in Busy : JobOk(Lap(v), ipfs) /\ Lap(v).lapped = TRUE /\ Lap(v) # <<>>
  BY LapJob DEF ModelsStoredInv
<1>4. new.stage = "writing"
  BY <1>2 DEF JobOk, IsJob
<1> HIDE DEF new, Lap
<1>5. Busy' = Busy \cup {w}
  BY <1>1, <1>2, <1>3 DEF Busy
<1>6. ASSUME NEW v \in Busy'
      PROVE  /\ JobOk(jobs'[v], ipfs)
             /\ ~jobs'[v].lapped => /\ Busy' = {v} /\ jobs'[v].linked
                                    /\ jobs'[v].stage # "written"
  <2>1. v \in Worker
    BY DEF Busy
  <2>2. CASE v = w
    BY <1>1, <1>2, <1>4, <1>5, <2>1, <2>2
  <2>3. CASE v # w
    BY <1>1, <1>3, <1>5, <2>1, <2>3
  <2>4. QED
    BY <2>2, <2>3
<1>7. jobs' = [v \in Worker |-> jobs'[v]]
  BY <1>1
<1>8. QED
  BY <1>1, <1>6, <1>7 DEF ModelsStoredInv

\* What comes of a call to IPFS, or to Filecoin, which is that and a deal.
LEMMA IPFSOutcome ==
  ASSUME NEW d, HasRetrieve(d), NEW content, NEW r \in Store(d, content)
  PROVE  /\ r.id = content /\ r.adds \subseteq {content}
         /\ r.ok => content \in r.adds
<1>1. CASE d = "short"
  <2>1. r \in IPFSStore(content)
    BY <1>1 DEF Store, HasRetrieve
  <2>2. QED
    BY <2>1 DEF IPFSStore
<1>2. CASE d = "mid"
  <2>1. r \in FilecoinStore(content)
    BY <1>2 DEF Store, HasRetrieve
  <2>2. PICK s \in IPFSStore(content) : r = s \/ r = [s EXCEPT !.ok = FALSE]
    BY <2>1 DEF FilecoinStore
  <2>3. s \in [adds : {{}, {content}}, id : {content}, ok : BOOLEAN] /\ (s.ok => s.adds = {content})
    BY DEF IPFSStore
  <2>4. r.id = s.id /\ r.adds = s.adds /\ (r.ok => s.ok)
    BY <2>2, <2>3
  <2>5. QED
    BY <2>3, <2>4
<1>3. QED
  BY <1>1, <1>2 DEF HasRetrieve

\* A provider that says it stored a content has it, unless it is Arweave's.
LEMMA ProviderKeeps ==
  ASSUME NEW d, d # "long", NEW content, NEW r \in Store(d, content), r.ok
  PROVE  r.id = content /\ content \in r.adds /\ HasRetrieve(d)
<1>1. CASE d \notin Providers \ {"edge"}
  BY <1>1, StorageAssumption DEF Store, Refused
<1>2. CASE d \in Providers /\ d \in {"short", "mid"}
  BY <1>2, IPFSOutcome DEF HasRetrieve
<1>3. QED
  BY <1>1, <1>2, StorageAssumption

LEMMA WrittenStep ==
  ASSUME ModelsStoredInv, NEW w \in Worker, TempWritten(w)
  PROVE  ModelsStoredInv'
<1> DEFINE j == jobs[w]
           new == [j EXCEPT !.stage = "written"]
<1>1. /\ w \in Busy /\ j.stage = "writing" /\ Step(w, new) /\ ipfs' = ipfs
      /\ j.linked /\ ~j.lapped => tempFile' = j.model
  BY DEF TempWritten
<1>2. JobOk(j, ipfs) /\ (~j.lapped => j.linked)
  BY <1>1 DEF ModelsStoredInv
<1>3. DOMAIN j = JobField
  BY <1>2 DEF JobOk, IsJob
<1>4. /\ new.op = j.op /\ new.stage = "written" /\ new.duration = j.duration
      /\ new.model = j.model /\ new.metadata = j.metadata /\ new.ok = j.ok
      /\ new.linked = j.linked /\ new.lapped = j.lapped /\ DOMAIN new = DOMAIN j
  BY <1>3 DEF JobField
<1>5. new # <<>>
  BY <1>3, <1>4 DEF JobField
<1> HIDE DEF new
<1>6. JobOk(new, ipfs)
  BY <1>1, <1>2, <1>4 DEF JobOk, IsJob, Stores, Loads
<1>7. QED
  BY <1>1, <1>2, <1>4, <1>5, <1>6, JobStep

Failed(j) == [j EXCEPT !.stage = "cleaning", !.ok = FALSE]

LEMMA FailedFields ==
  ASSUME NEW j, DOMAIN j = JobField
  PROVE  LET n == Failed(j)
         IN  /\ n.op = j.op /\ n.stage = "cleaning" /\ n.duration = j.duration
             /\ n.model = j.model /\ n.metadata = j.metadata /\ n.ok = FALSE
             /\ n.linked = j.linked /\ n.lapped = j.lapped /\ DOMAIN n = DOMAIN j
BY DEF JobField, Failed

\* A call that fails has only to clean up.
LEMMA FailsStep ==
  ASSUME ModelsStoredInv, NEW w \in Busy, Fails(w), ipfs \subseteq ipfs',
         jobs[w].op = "load" /\ ~jobs[w].lapped => jobs[w].metadata.model_id \notin StorageModel
  PROVE  ModelsStoredInv'
<1> DEFINE j == jobs[w]
           new == Failed(j)
<1>1. Step(w, new)
  BY DEF Fails, Failed
<1>2. JobOk(j, ipfs)
  BY DEF ModelsStoredInv
<1>3. DOMAIN j = JobField
  BY <1>2 DEF JobOk, IsJob
<1>4. /\ new.op = j.op /\ new.stage = "cleaning" /\ new.duration = j.duration
      /\ new.model = j.model /\ new.metadata = j.metadata /\ new.ok = FALSE
      /\ new.linked = j.linked /\ new.lapped = j.lapped /\ DOMAIN new = DOMAIN j
  BY <1>3, FailedFields
<1>5. new # <<>>
  BY <1>3, <1>4 DEF JobField
<1> HIDE DEF new
<1>6. JobOk(new, ipfs')
  BY <1>2, <1>4 DEF JobOk, IsJob, Stores, Loads
<1>7. QED
  BY <1>1, <1>4, <1>5, <1>6, JobStep

Described(j, x) == [j EXCEPT !.stage = "described", !.metadata.model_id = x]

LEMMA DescribedFields ==
  ASSUME NEW j, DOMAIN j = JobField, NEW x
  PROVE  LET n == Described(j, x)
         IN  /\ n.op = j.op /\ n.stage = "described" /\ n.duration = j.duration
             /\ n.model = j.model /\ n.metadata = [j.metadata EXCEPT !.model_id = x] /\ n.ok = j.ok
             /\ n.linked = j.linked /\ n.lapped = j.lapped /\ DOMAIN n = DOMAIN j
BY DEF JobField, Described

LEMMA ModelStoredStep ==
  ASSUME ModelsStoredInv, NEW w \in Worker, ModelStored(w)
  PROVE  ModelsStoredInv'
<1> DEFINE j == jobs[w]
<1>1. /\ w \in Busy /\ j.op = "store" /\ j.stage = "written" /\ tempFile' = tempFile
  BY DEF ModelStored
<1>2. PICK r \in IF tempFile = Absent THEN {Refused} ELSE Store(j.duration, tempFile) :
        /\ ipfs' = ipfs \cup r.adds
        /\ IF r.ok THEN Step(w, [j EXCEPT !.stage = "described", !.metadata.model_id = r.id])
           ELSE Fails(w)
  BY DEF ModelStored
<1>3. CASE ~r.ok
  BY <1>1, <1>2, <1>3, FailsStep
<1>4. CASE r.ok
  <2> DEFINE new == Described(j, r.id)
  <2>1. JobOk(j, ipfs) /\ (~j.lapped => tempFile = j.model)
    BY <1>1 DEF ModelsStoredInv
  <2>2. DOMAIN j = JobField
    BY <2>1 DEF JobOk, IsJob
  <2>3. /\ new.op = j.op /\ new.stage = "described" /\ new.duration = j.duration
        /\ new.model = j.model /\ new.ok = j.ok
        /\ new.linked = j.linked /\ new.lapped = j.lapped /\ DOMAIN new = DOMAIN j
        /\ new.metadata = [j.metadata EXCEPT !.model_id = r.id]
    BY <2>2, DescribedFields
  <2>4. new # <<>>
    BY <2>2, <2>3 DEF JobField
  <2>5. {"name", "model_id"} \subseteq DOMAIN j.metadata
    BY <2>1 DEF JobOk, IsJob
  <2>6. /\ new.metadata.name = j.metadata.name /\ new.metadata.model_id = r.id
        /\ DOMAIN new.metadata = DOMAIN j.metadata
    BY <2>3, <2>5
  <2>7. Step(w, new)
    BY <1>2, <1>4 DEF Described
  <2> HIDE DEF new
  <2>8. j.duration # "long" =>
          r.id = tempFile /\ tempFile \in r.adds /\ HasRetrieve(j.duration)
    <3>1. CASE tempFile = Absent
      BY <1>2, <1>4, <3>1 DEF Refused
    <3>2. CASE tempFile # Absent
      BY <1>2, <1>4, <3>2, ProviderKeeps
    <3>3. QED
      BY <3>1, <3>2
  <2>9. JobOk(new, ipfs')
    BY <1>1, <1>2, <2>1, <2>3, <2>5, <2>6, <2>8 DEF JobOk, IsJob, Stores
  <2>10. QED
    BY <1>1, <1>2, <2>3, <2>4, <2>7, <2>9, JobStep
<1>5. QED
  BY <1>3, <1>4

LEMMA MetadataStoredStep ==
  ASSUME ModelsStoredInv, NEW w \in Worker, MetadataStored(w)
  PROVE  ModelsStoredInv'
<1> DEFINE j == jobs[w]
<1>1. w \in Busy /\ j.stage = "described"
  BY DEF MetadataStored
<1>2. PICK r \in Store(j.duration, j.metadata) :
        /\ ipfs' = ipfs \cup r.adds
        /\ IF r.ok THEN Step(w, [j EXCEPT !.stage = "cleaning"]) ELSE Fails(w)
  BY DEF MetadataStored
<1>3. CASE ~r.ok
  <2>1. j.op # "load"
    BY <1>1 DEF ModelsStoredInv, JobOk
  <2>2. QED
    BY <1>1, <1>2, <1>3, <2>1, FailsStep
<1>4. CASE r.ok
  <2> DEFINE new == [j EXCEPT !.stage = "cleaning"]
  <2>1. JobOk(j, ipfs)
    BY <1>1 DEF ModelsStoredInv
  <2>2. DOMAIN j = JobField
    BY <2>1 DEF JobOk, IsJob
  <2>3. /\ new.op = j.op /\ new.stage = "cleaning" /\ new.duration = j.duration
        /\ new.model = j.model /\ new.metadata = j.metadata /\ new.ok = j.ok
        /\ new.linked = j.linked /\ new.lapped = j.lapped /\ DOMAIN new = DOMAIN j
    BY <2>2 DEF JobField
  <2>4. new # <<>>
    BY <2>2, <2>3 DEF JobField
  <2>5. Step(w, new)
    BY <1>2, <1>4
  <2> HIDE DEF new
  <2>6. j.duration # "long" => j.metadata \in r.adds
    BY <1>2, <1>4, ProviderKeeps
  <2>7. JobOk(new, ipfs')
    BY <1>1, <1>2, <2>1, <2>3, <2>6 DEF JobOk, IsJob, Stores
  <2>8. QED
    BY <1>1, <1>2, <2>3, <2>4, <2>5, <2>7, JobStep
<1>5. QED
  BY <1>3, <1>4

WasRead(j, x) == [j EXCEPT !.stage = "cleaning", !.model = x]

LEMMA ReadFields ==
  ASSUME NEW j, DOMAIN j = JobField, NEW x
  PROVE  LET n == WasRead(j, x)
         IN  /\ n.op = j.op /\ n.stage = "cleaning" /\ n.duration = j.duration
             /\ n.model = x /\ n.metadata = j.metadata /\ n.ok = j.ok
             /\ n.linked = j.linked /\ n.lapped = j.lapped /\ DOMAIN n = DOMAIN j
BY DEF JobField, WasRead

LEMMA ModelReadStep ==
  ASSUME ModelsStoredInv, NEW w \in Worker, ModelRead(w)
  PROVE  ModelsStoredInv'
<1> DEFINE j == jobs[w]
           new == WasRead(j, tempFile)
<1>1. w \in Busy /\ j.op = "load" /\ j.stage = "written" /\ ipfs' = ipfs
  BY DEF ModelRead, WasRead
<1>2. IF tempFile \in StorageModel THEN Step(w, new) ELSE Fails(w)
  BY DEF ModelRead, WasRead
<1>3. CASE tempFile \in StorageModel
  <2>1. JobOk(j, ipfs) /\ (~j.lapped => tempFile = j.model)
    BY <1>1 DEF ModelsStoredInv
  <2>2. DOMAIN j = JobField
    BY <2>1 DEF JobOk, IsJob
  <2>3. /\ new.op = j.op /\ new.stage = "cleaning" /\ new.duration = j.duration
        /\ new.model = tempFile /\ new.metadata = j.metadata /\ new.ok = j.ok
        /\ new.linked = j.linked /\ new.lapped = j.lapped /\ DOMAIN new = DOMAIN j
    BY <2>2, ReadFields
  <2>4. new # <<>>
    BY <2>2, <2>3 DEF JobField
  <2> HIDE DEF new
  <2>5. JobOk(new, ipfs)
    BY <1>1, <2>1, <2>3 DEF JobOk, IsJob, Loads
  <2>6. QED
    BY <1>1, <1>2, <1>3, <2>3, <2>4, <2>5, JobStep
<1>4. CASE tempFile \notin StorageModel
  <2>1. ~j.lapped => tempFile = j.metadata.model_id
    BY <1>1 DEF ModelsStoredInv, JobOk, Loads
  <2>2. QED
    BY <1>1, <1>2, <1>4, <2>1, FailsStep
<1>5. QED
  BY <1>3, <1>4

\* Only calls that overlapped the one that ends lose their file by that.
LEMMA CleanedStep ==
  ASSUME ModelsStoredInv, NEW w \in Worker, CleanedUp(w)
  PROVE  ModelsStoredInv'
<1> DEFINE Cut(v) == [jobs[v] EXCEPT !.linked = FALSE]
<1>1. /\ w \in Busy /\ jobs[w].stage = "cleaning" /\ ipfs' = ipfs
      /\ jobs' = [v \in Worker |-> IF v = w \/ v \notin Busy THEN <<>> ELSE Cut(v)]
      /\ (jobs[w].ok /\ returned' = jobs[w]) \/ returned' = returned
  BY DEF CleanedUp
<1>2. ASSUME NEW v \in Busy PROVE JobOk(Cut(v), ipfs) /\ Cut(v).lapped = jobs[v].lapped /\ Cut(v) # <<>>
  BY CutJob DEF ModelsStoredInv
<1> HIDE DEF Cut
<1>3. Busy' = Busy \ {w}
  BY <1>1, <1>2 DEF Busy
<1>4. \A v \in Busy : v # w => jobs[v].lapped
  BY <1>1 DEF ModelsStoredInv
<1>5. \A v \in Busy' : JobOk(jobs'[v], ipfs) /\ jobs'[v].lapped
  BY <1>1, <1>2, <1>3, <1>4 DEF Busy
<1>6. returned' # <<>> => JobOk(returned', ipfs) /\ returned'.ok /\ returned'.stage = "cleaning"
  BY <1>1 DEF ModelsStoredInv
<1>7. jobs' = [v \in Worker |-> jobs'[v]]
  BY <1>1
<1>8. QED
  BY <1>1, <1>5, <1>6, <1>7 DEF ModelsStoredInv

LEMMA KilledStep ==
  ASSUME ModelsStoredInv, NEW w \in Worker, Killed(w)
  PROVE  ModelsStoredInv'
<1>1. w \in Busy /\ jobs' = [jobs EXCEPT ![w] = <<>>] /\ UNCHANGED <<tempFile, ipfs, returned>>
  BY DEF Killed
<1>2. /\ jobs' = [v \in Worker |-> jobs'[v]]
      /\ \A v \in Worker : jobs'[v] = IF v = w THEN <<>> ELSE jobs[v]
  BY <1>1 DEF ModelsStoredInv
<1>3. Busy' = Busy \ {w}
  BY <1>2 DEF Busy
<1>4. \A v \in Busy' : v \in Busy /\ v # w /\ jobs'[v] = jobs[v]
  BY <1>2, <1>3 DEF Busy
<1>5. \A v \in Busy' : jobs[v].lapped
  BY <1>1, <1>4 DEF ModelsStoredInv
<1>6. QED
  BY <1>1, <1>2, <1>4, <1>5 DEF ModelsStoredInv

LEMMA StorageNextInv ==
  ASSUME ModelsStoredInv, StorageNext
  PROVE  ModelsStoredInv'
<1>1. ASSUME NEW w \in Worker, NEW d \in Durations, NEW m \in StorageModel, StoreModel(w, m, d)
      PROVE  ModelsStoredInv'
  <2> DEFINE metadata == [name |-> m, model_id |-> Torn]
             job == NewJob("store", d, m, metadata)
  <2> HIDE DEF metadata
  <2>1. /\ job.op = "store" /\ job.stage = "writing" /\ job.duration = d /\ job.model = m
        /\ job.metadata = metadata /\ job.ok = TRUE /\ job.linked = TRUE /\ job.lapped = FALSE
        /\ DOMAIN job = JobField
    BY DEF NewJob, JobField
  <2>2. metadata.name = m /\ {"name", "model_id"} \subseteq DOMAIN metadata
    BY DEF metadata
  <2>3. Begin(w, job)
    BY <1>1 DEF StoreModel, metadata
  <2> HIDE DEF job
  <2>4. JobOk(job, ipfs)
    BY <2>1, <2>2 DEF JobOk, IsJob, Stores
  <2>5. QED
    BY <2>1, <2>3, <2>4, BeginStep
<1>2. ASSUME NEW w \in Worker, NEW d \in Durations, NEW metadata \in ipfs \cap Metadata,
             LoadModel(w, metadata, d)
      PROVE  ModelsStoredInv'
  <2> DEFINE job == NewJob("load", d, metadata.model_id, metadata)
  <2>1. /\ job.op = "load" /\ job.stage = "writing" /\ job.duration = d
        /\ job.model = metadata.model_id
        /\ job.metadata = metadata /\ job.ok = TRUE /\ job.linked = TRUE /\ job.lapped = FALSE
        /\ DOMAIN job = JobField
    BY DEF NewJob, JobField
  <2>2. {"name", "model_id"} \subseteq DOMAIN metadata
    BY DEF Metadata
  <2>3. Begin(w, job) /\ HasRetrieve(d) /\ {metadata, metadata.model_id} \subseteq ipfs
    BY <1>2 DEF LoadModel, Retrievable, HasRetrieve
  <2> HIDE DEF job
  <2>4. JobOk(job, ipfs)
    BY <2>1, <2>2, <2>3 DEF JobOk, IsJob, Loads
  <2>5. QED
    BY <2>1, <2>3, <2>4, BeginStep
<1>3. QED
  BY <1>1, <1>2, WrittenStep, ModelStoredStep, MetadataStoredStep, ModelReadStep, CleanedStep,
     KilledStep DEF StorageNext

LEMMA ModelsStoredInvLoads == ModelsStoredInv => ModelsLoad
<1> SUFFICES ASSUME ModelsStoredInv PROVE ModelsLoad
  OBVIOUS
<1>1. ASSUME returned # <<>>, returned.duration # "long"
      PROVE  /\ HasRetrieve(returned.duration)
             /\ {returned.metadata, returned.metadata.model_id} \subseteq ipfs
             /\ ~returned.lapped => returned.model = returned.metadata.model_id
             /\ ~returned.lapped /\ returned.op = "store" =>
                  returned.metadata.model_id = returned.metadata.name
  <2>1. JobOk(returned, ipfs) /\ returned.ok /\ returned.stage = "cleaning"
    BY <1>1 DEF ModelsStoredInv
  <2>2. CASE returned.op = "store"
    BY <1>1, <2>1, <2>2 DEF JobOk, Stores
  <2>3. CASE returned.op = "load"
    BY <2>1, <2>3 DEF JobOk, Loads
  <2>4. QED
    BY <2>1, <2>2, <2>3 DEF JobOk, IsJob
<1>2. \A w \in Busy :
        jobs[w].op = "load" /\ ~jobs[w].lapped /\ jobs[w].metadata.model_id \in StorageModel
          => jobs[w].ok
  BY DEF ModelsStoredInv, JobOk, Loads
<1>3. QED
  BY <1>1, <1>2 DEF ModelsLoad, Retrievable, HasRetrieve

-----------------------------------------------------------------------------
(* The cache: any nodes, stakes and contents.                              *)

\* Some node that was active holds the content, and no other had more at stake.
Served(a, nodes, holds) ==
  a.active # {} =>
    \E i \in DOMAIN nodes :
      /\ nodes[i].id \in a.active /\ a.content \in holds[nodes[i].id]
      /\ \A x \in a.active : \E k \in DOMAIN nodes :
           nodes[k].id = x /\ nodes[k].stake <= nodes[i].stake

\* Every node is registered once.
CacheInv ==
  /\ cdnNodes \in Seq([id : CdnNode, stake : Stake, since : Nat]) /\ cdnNow \in Nat
  /\ \A i, k \in DOMAIN cdnNodes : cdnNodes[i].id = cdnNodes[k].id => i = k
  /\ \A a \in asked : a.active \subseteq CdnNode /\ Served(a, cdnNodes, cached)

\* If a node is active, the one with the highest stake is selected.
LEMMA BestSelected ==
  ASSUME CacheInv, Active # {}
  PROVE  \E i \in Active : /\ cdnNodes[i].id \in SelectNodes
                           /\ \A k \in Active : cdnNodes[k].stake <= cdnNodes[i].stake
<1> DEFINE stakes == [k \in Active |-> cdnNodes[k].stake]
<1>1. /\ Active \subseteq 1 .. Len(cdnNodes) /\ Len(cdnNodes) \in Nat
      /\ \A k \in 1 .. Len(cdnNodes) : cdnNodes[k] \in [id : CdnNode, stake : Stake, since : Nat]
  <2>1. /\ cdnNodes \in Seq([id : CdnNode, stake : Stake, since : Nat])
        /\ Active \subseteq DOMAIN cdnNodes
    BY DEF CacheInv, Active
  <2>2. DOMAIN cdnNodes = 1 .. Len(cdnNodes) /\ Len(cdnNodes) \in Nat
    BY <2>1
  <2>3. \A k \in DOMAIN cdnNodes : cdnNodes[k] \in [id : CdnNode, stake : Stake, since : Nat]
    BY <2>1, <2>2, ElementOfSeq
  <2>4. QED
    BY <2>1, <2>2, <2>3
<1>2. IsFiniteSet(Active)
  <2>1. 1 \in Int /\ Len(cdnNodes) \in Int
    BY <1>1
  <2>2. IsFiniteSet(1 .. Len(cdnNodes))
    BY <2>1, FS_Interval
  <2>3. QED
    BY <1>1, <2>2, FS_Subset
<1>3. \A k \in Active : cdnNodes[k].stake \in Int
  BY <1>1, StorageAssumption
<1>4. stakes \in [Active -> Int]
  BY <1>3
<1>5. PICK b \in Active : \A k \in Active : stakes[k] <= stakes[b]
  <2> HIDE DEF stakes
  <2> QED
    BY <1>2, <1>4, BestExists
<1>6. \A k \in Active : cdnNodes[k].stake <= cdnNodes[b].stake
  BY <1>5
<1> DEFINE Tops == {k \in Active : cdnNodes[k].stake = cdnNodes[b].stake}
<1>7. Tops \in SUBSET Nat /\ Tops # {}
  <2>1. 1 .. Len(cdnNodes) \subseteq Nat
    BY <1>1
  <2>2. b \in Tops
    OBVIOUS
  <2>3. QED
    BY <1>1, <2>1, <2>2
<1>8. PICK i \in Tops : \A k \in Tops : i <= k
  <2> HIDE DEF Tops
  <2> QED
    BY <1>7, LeastExists
<1>9. \A k \in Active : ~Ahead(k, i)
  <2> SUFFICES ASSUME NEW k \in Active, Ahead(k, i) PROVE FALSE
    OBVIOUS
  <2>1. /\ cdnNodes[k].stake \in Int /\ cdnNodes[i].stake \in Int
        /\ cdnNodes[k].stake <= cdnNodes[i].stake /\ i \in Int /\ k \in Int
        /\ cdnNodes[i].stake = cdnNodes[b].stake
    BY <1>1, <1>3, <1>6
  <2>2. cdnNodes[k].stake = cdnNodes[i].stake /\ k < i
    BY <2>1 DEF Ahead
  <2>3. k \in Tops
    BY <2>1, <2>2
  <2>4. QED
    BY <1>8, <2>1, <2>2, <2>3
<1>10. {k \in Active : Ahead(k, i)} = {}
  BY <1>9
<1>11. Cardinality({k \in Active : Ahead(k, i)}) < Copies
  BY <1>10, FS_EmptySet, StorageAssumption
<1>12. cdnNodes[i].id \in SelectNodes
  BY <1>8, <1>11 DEF SelectNodes
<1>13. QED
  BY <1>6, <1>8, <1>12

LEMMA RegisterNodeStep ==
  ASSUME CacheInv, NEW n \in CdnNode, NEW stake \in Stake, RegisterNode(n, stake)
  PROVE  CacheInv'
<1> DEFINE node == [id |-> n, stake |-> stake, since |-> cdnNow]
<1>1. /\ \A i \in DOMAIN cdnNodes : cdnNodes[i].id # n
      /\ cdnNodes' = Append(cdnNodes, node) /\ UNCHANGED <<cdnNow, cached, asked>>
  BY DEF RegisterNode
<1>2. node \in [id : CdnNode, stake : Stake, since : Nat] /\ node.id = n
  BY DEF CacheInv
<1> HIDE DEF node
<1>3. /\ cdnNodes' \in Seq([id : CdnNode, stake : Stake, since : Nat])
      /\ DOMAIN cdnNodes' = 1 .. (Len(cdnNodes) + 1) /\ DOMAIN cdnNodes = 1 .. Len(cdnNodes)
      /\ Len(cdnNodes) \in Nat
      /\ \A i \in DOMAIN cdnNodes : cdnNodes'[i] = cdnNodes[i]
      /\ cdnNodes'[Len(cdnNodes) + 1] = node
  BY <1>1, <1>2, AppendProperties DEF CacheInv
<1>4. \A i, k \in DOMAIN cdnNodes' : cdnNodes'[i].id = cdnNodes'[k].id => i = k
  <2> SUFFICES ASSUME NEW i \in DOMAIN cdnNodes', NEW k \in DOMAIN cdnNodes',
                      cdnNodes'[i].id = cdnNodes'[k].id
               PROVE  i = k
    OBVIOUS
  <2>1. (i \in DOMAIN cdnNodes \/ i = Len(cdnNodes) + 1)
        /\ (k \in DOMAIN cdnNodes \/ k = Len(cdnNodes) + 1)
    BY <1>3
  <2>2. QED
    BY <1>1, <1>2, <1>3, <2>1 DEF CacheInv
<1>5. ASSUME NEW a \in asked PROVE Served(a, cdnNodes', cached)
  <2> SUFFICES ASSUME a.active # {} PROVE Served(a, cdnNodes', cached)
    BY DEF Served
  <2>1. PICK i \in DOMAIN cdnNodes :
          /\ cdnNodes[i].id \in a.active /\ a.content \in cached[cdnNodes[i].id]
          /\ \A x \in a.active : \E k \in DOMAIN cdnNodes :
               cdnNodes[k].id = x /\ cdnNodes[k].stake <= cdnNodes[i].stake
    BY DEF CacheInv, Served
  <2>2. \A k \in DOMAIN cdnNodes : k \in DOMAIN cdnNodes' /\ cdnNodes'[k] = cdnNodes[k]
    BY <1>3
  <2>3. /\ cdnNodes'[i].id \in a.active /\ a.content \in cached[cdnNodes'[i].id]
        /\ \A x \in a.active : \E k \in DOMAIN cdnNodes' :
             cdnNodes'[k].id = x /\ cdnNodes'[k].stake <= cdnNodes'[i].stake
    BY <2>1, <2>2
  <2>4. i \in DOMAIN cdnNodes'
    BY <2>2
  <2> HIDE <1>3, <2>2
  <2>5. QED
    BY <2>3, <2>4 DEF Served
<1>6. QED
  BY <1>1, <1>3, <1>4, <1>5 DEF CacheInv

LEMMA StoreContentStep ==
  ASSUME CacheInv, NEW c \in CdnContent, StoreContent(c)
  PROVE  CacheInv'
<1> DEFINE new == [content |-> c, active |-> {cdnNodes[i].id : i \in Active}]
<1>1. /\ cached' = [n \in CdnNode |-> cached[n] \cup (IF n \in SelectNodes THEN {c} ELSE {})]
      /\ asked' = asked \cup {new} /\ UNCHANGED <<cdnNow, cdnNodes>>
  <2>1. UNCHANGED <<cdnNow, cdnNodes>>
    BY DEF StoreContent
  <2>2. cached' = [n \in CdnNode |-> cached[n] \cup (IF n \in SelectNodes THEN {c} ELSE {})]
    BY DEF StoreContent
  <2>3. asked' = asked \cup {new}
    BY Zenon DEF StoreContent
  <2>4. QED
    BY <2>1, <2>2, <2>3
<1>2. \A i \in DOMAIN cdnNodes : cdnNodes[i].id \in CdnNode
  <2>1. cdnNodes \in Seq([id : CdnNode, stake : Stake, since : Nat])
    BY DEF CacheInv
  <2>2. DOMAIN cdnNodes = 1 .. Len(cdnNodes)
    BY <2>1
  <2>3. \A i \in DOMAIN cdnNodes : cdnNodes[i] \in [id : CdnNode, stake : Stake, since : Nat]
    BY <2>1, <2>2, ElementOfSeq
  <2>4. QED
    BY <2>3
<1>3. Active \subseteq DOMAIN cdnNodes
  BY DEF Active
<1>4. new.content = c /\ new.active = {cdnNodes[i].id : i \in Active}
  OBVIOUS
<1> HIDE DEF new
<1>5. new.active \subseteq CdnNode
  BY <1>2, <1>3, <1>4
<1>6. \A a \in asked : Served(a, cdnNodes, cached')
  <2> SUFFICES ASSUME NEW a \in asked, a.active # {} PROVE Served(a, cdnNodes, cached')
    BY DEF Served
  <2>1. PICK i \in DOMAIN cdnNodes :
          /\ cdnNodes[i].id \in a.active /\ a.content \in cached[cdnNodes[i].id]
          /\ \A x \in a.active : \E k \in DOMAIN cdnNodes :
               cdnNodes[k].id = x /\ cdnNodes[k].stake <= cdnNodes[i].stake
    BY DEF CacheInv, Served
  <2>2. a.content \in cached'[cdnNodes[i].id]
    BY <1>1, <1>2, <2>1
  <2>3. QED
    BY <2>1, <2>2 DEF Served
<1>7. Served(new, cdnNodes, cached')
  <2> SUFFICES ASSUME new.active # {} PROVE Served(new, cdnNodes, cached')
    BY DEF Served
  <2>1. PICK i \in Active : /\ cdnNodes[i].id \in SelectNodes
                            /\ \A k \in Active : cdnNodes[k].stake <= cdnNodes[i].stake
    BY <1>4, BestSelected
  <2>2. cdnNodes[i].id \in new.active /\ i \in DOMAIN cdnNodes
    BY <1>3, <1>4
  <2>3. c \in cached'[cdnNodes[i].id]
    BY <1>1, <1>2, <2>1, <2>2
  <2>4. \A x \in new.active : \E k \in DOMAIN cdnNodes :
          cdnNodes[k].id = x /\ cdnNodes[k].stake <= cdnNodes[i].stake
    BY <1>3, <1>4, <2>1
  <2>5. QED
    BY <1>4, <2>2, <2>3, <2>4 DEF Served
<1>8. QED
  BY <1>1, <1>5, <1>6, <1>7 DEF CacheInv

LEMMA CdnNextInv ==
  ASSUME CacheInv, CdnNext
  PROVE  CacheInv'
<1>1. CASE CdnTick
  BY <1>1 DEF CdnTick, CacheInv
<1>2. QED
  BY <1>1, RegisterNodeStep, StoreContentStep DEF CdnNext

LEMMA CacheInvServes == CacheInv => CachedIsServed
<1> DEFINE StakeOf(x) == (CHOOSE node \in ToSet(cdnNodes) : node.id = x).stake
<1> SUFFICES ASSUME CacheInv, NEW a \in asked, a.active # {}
             PROVE  \E n \in a.active \cap Available(a.content) :
                      \A x \in a.active : StakeOf(x) <= StakeOf(n)
  BY DEF CachedIsServed
<1>1. PICK i \in DOMAIN cdnNodes :
        /\ cdnNodes[i].id \in a.active /\ a.content \in cached[cdnNodes[i].id]
        /\ \A x \in a.active : \E k \in DOMAIN cdnNodes :
             cdnNodes[k].id = x /\ cdnNodes[k].stake <= cdnNodes[i].stake
  BY DEF CacheInv, Served
<1>2. ASSUME NEW k \in DOMAIN cdnNodes PROVE StakeOf(cdnNodes[k].id) = cdnNodes[k].stake
  <2> DEFINE node == CHOOSE y \in ToSet(cdnNodes) : y.id = cdnNodes[k].id
  <2>1. ToSet(cdnNodes) = {cdnNodes[m] : m \in DOMAIN cdnNodes}
    BY DEF ToSet
  <2>2. node \in ToSet(cdnNodes) /\ node.id = cdnNodes[k].id
    BY <2>1
  <2> HIDE DEF node
  <2>3. PICK m \in DOMAIN cdnNodes : node = cdnNodes[m]
    BY <2>1, <2>2
  <2>4. m = k
    BY <2>2, <2>3 DEF CacheInv
  <2>5. QED
    BY <2>3, <2>4 DEF node
<1> HIDE DEF StakeOf
<1>3. cdnNodes[i].id \in a.active \cap Available(a.content)
  BY <1>1 DEF CacheInv, Available
<1>4. \A x \in a.active : StakeOf(x) <= StakeOf(cdnNodes[i].id)
  BY <1>1, <1>2
<1>5. QED
  BY <1>3, <1>4

-----------------------------------------------------------------------------
\* Storage and cache share no variable.
StorageInv == ModelsStoredInv /\ CacheInv

LEMMA StorageInitInv == StorageInit => StorageInv
<1> SUFFICES ASSUME StorageInit PROVE StorageInv
  OBVIOUS
<1>1. ModelsStoredInv
  BY DEF StorageInit, ModelsStoredInv, Busy
<1>2. CacheInv
  <2>1. cdnNodes \in Seq([id : CdnNode, stake : Stake, since : Nat]) /\ DOMAIN cdnNodes = {}
    BY DEF StorageInit
  <2>2. QED
    BY <2>1 DEF StorageInit, CacheInv
<1>3. QED
  BY <1>1, <1>2 DEF StorageInv

LEMMA StorageInvNext ==
  StorageInv /\ ([StorageNext]_storageVars \/ [CdnNext]_storageVars) => StorageInv'
<1> SUFFICES ASSUME StorageInv, [StorageNext]_storageVars \/ [CdnNext]_storageVars
             PROVE  StorageInv'
  OBVIOUS
<1>1. ASSUME UNCHANGED tempVars PROVE ModelsStoredInv'
  BY <1>1 DEF tempVars, StorageInv, ModelsStoredInv, Busy
<1>2. ASSUME UNCHANGED cdnVars PROVE CacheInv'
  BY <1>2 DEF cdnVars, StorageInv, CacheInv
<1>3. CASE StorageNext
  <2>1. UNCHANGED cdnVars
    BY <1>3 DEF StorageNext, StoreModel, LoadModel, Begin, TempWritten, ModelStored, MetadataStored,
       ModelRead, CleanedUp, Killed, Step, Fails
  <2>2. QED
    BY <1>2, <1>3, <2>1, StorageNextInv DEF StorageInv
<1>4. CASE CdnNext
  <2>1. UNCHANGED tempVars
    BY <1>4 DEF CdnNext, RegisterNode, StoreContent, CdnTick
  <2>2. QED
    BY <1>1, <1>4, <2>1, CdnNextInv DEF StorageInv
<1>5. QED
  BY <1>1, <1>2, <1>3, <1>4 DEF storageVars, StorageInv

\* Messages are listed as often as they were stored and read in plain text; a returned
\* file is in IPFS, pinned and described as configured and asked for; what a call on
\* models returned can be retrieved, and a lone one has its model and reads what was
\* stored whole; contents are where the stakes are highest: any users, configurations,
\* workers, nodes and contents (StoredIsHad).
THEOREM UsersHaveStored == ServicesSpec => []StoredIsHad
<1>1. ServicesInit => MsgInv /\ StorageInv
  BY MsgInitInv, StorageInitInv DEF ServicesInit
<1>2. [ServicesNext]_serviceVars => [MsgNext]_msgVars \/ [FileNext]_msgVars
  BY DEF ServicesNext, OthersIdle, serviceVars
<1>3. [ServicesNext]_serviceVars => [StorageNext]_storageVars \/ [CdnNext]_storageVars
  BY DEF ServicesNext, OthersIdle, serviceVars
<1>4. MsgInv /\ StorageInv /\ [ServicesNext]_serviceVars => MsgInv' /\ StorageInv'
  BY <1>2, <1>3, MsgNextInv, StorageInvNext
<1>5. MsgInv /\ StorageInv => StoredIsHad
  BY MsgInvKeeps, ModelsStoredInvLoads, CacheInvServes DEF StorageInv, StoredIsHad
<1>6. QED
  BY <1>1, <1>4, <1>5, PTL DEF ServicesSpec

-----------------------------------------------------------------------------
(* Advice: any models, questions and preferences.                          *)

\* What Sorted can rank: no two have the same place.
Sortable(scored) ==
  /\ IsFiniteSet(DOMAIN scored)
  /\ \A x \in DOMAIN scored : scored[x].score \in Nat /\ scored[x].place \in Nat
  /\ \A x, y \in DOMAIN scored : scored[x].place = scored[y].place => x = y

Above(scored, x) == {y \in DOMAIN scored : Outranks(scored, y, x)}

LEMMA AboveFinite ==
  ASSUME NEW scored, Sortable(scored), NEW x \in DOMAIN scored
  PROVE  /\ IsFiniteSet(Above(scored, x)) /\ Cardinality(Above(scored, x)) \in Nat
         /\ Cardinality(DOMAIN scored) \in Nat
         /\ Rank(scored, x) \in 1 .. Cardinality(DOMAIN scored)
<1> DEFINE S == DOMAIN scored
<1>1. IsFiniteSet(S) /\ Cardinality(S) \in Nat
  BY FS_CardinalityType DEF Sortable
<1>2. Above(scored, x) \subseteq S \ {x}
  BY DEF Above, Outranks, Sortable
<1>3. IsFiniteSet(S \ {x}) /\ Cardinality(S \ {x}) = Cardinality(S) - 1
  BY <1>1, FS_RemoveElement
<1>4. /\ IsFiniteSet(Above(scored, x))
      /\ Cardinality(Above(scored, x)) <= Cardinality(S \ {x})
  BY <1>2, <1>3, FS_Subset
<1>5. Cardinality(Above(scored, x)) \in Nat
  BY <1>4, FS_CardinalityType
<1>6. Rank(scored, x) = Cardinality(Above(scored, x)) + 1
  BY DEF Rank, Above
<1>7. QED
  BY <1>1, <1>3, <1>4, <1>5, <1>6

\* Who comes first has the lower rank.
LEMMA RankFollows ==
  ASSUME NEW scored, Sortable(scored), NEW x \in DOMAIN scored, NEW y \in DOMAIN scored,
         Outranks(scored, x, y)
  PROVE  Rank(scored, x) < Rank(scored, y)
<1>1. x \notin Above(scored, x) /\ Above(scored, x) \cup {x} \subseteq Above(scored, y)
  BY DEF Above, Outranks, Sortable
<1>2. /\ IsFiniteSet(Above(scored, x)) /\ Cardinality(Above(scored, x)) \in Nat
      /\ IsFiniteSet(Above(scored, y)) /\ Cardinality(Above(scored, y)) \in Nat
  BY AboveFinite
<1>3. /\ IsFiniteSet(Above(scored, x) \cup {x})
      /\ Cardinality(Above(scored, x) \cup {x}) = Cardinality(Above(scored, x)) + 1
  BY <1>1, <1>2, FS_AddElement
<1>4. Cardinality(Above(scored, x) \cup {x}) <= Cardinality(Above(scored, y))
  BY <1>1, <1>2, FS_Subset
<1>5. QED
  BY <1>2, <1>3, <1>4 DEF Rank, Above

\* One of two comes first.
LEMMA RankTells ==
  ASSUME NEW scored, Sortable(scored), NEW x \in DOMAIN scored, NEW y \in DOMAIN scored
  PROVE  /\ Rank(scored, x) = Rank(scored, y) => x = y
         /\ Rank(scored, x) < Rank(scored, y) => Outranks(scored, x, y)
<1>1. x = y \/ Outranks(scored, x, y) \/ Outranks(scored, y, x)
  BY DEF Outranks, Sortable
<1>2. Rank(scored, x) \in Nat /\ Rank(scored, y) \in Nat
  BY AboveFinite
<1>3. QED
  BY <1>1, <1>2, RankFollows

\* Everything scored is in the sorted list, once, at its rank.
LEMMA SortedAtRank ==
  ASSUME NEW scored, Sortable(scored)
  PROVE  /\ DOMAIN Sorted(scored) = 1 .. Cardinality(DOMAIN scored)
         /\ \A x \in DOMAIN scored : /\ Rank(scored, x) \in DOMAIN Sorted(scored)
                                     /\ Sorted(scored)[Rank(scored, x)] = scored[x]
         /\ \A k \in DOMAIN Sorted(scored) : \E x \in DOMAIN scored : Rank(scored, x) = k
<1> DEFINE S == DOMAIN scored
           T == 1 .. Cardinality(S)
           r == [x \in S |-> Rank(scored, x)]
<1>1. DOMAIN Sorted(scored) = T
  BY DEF Sorted
<1>2. /\ IsFiniteSet(S) /\ Cardinality(S) \in Nat
  BY FS_CardinalityType DEF Sortable
<1>3. IsFiniteSet(T) /\ Cardinality(T) = Cardinality(S)
  BY <1>2, FS_Interval
<1>4. \A x \in S : Rank(scored, x) \in T
  BY AboveFinite
<1>5. \A x, y \in S : Rank(scored, x) = Rank(scored, y) => x = y
  BY RankTells
<1>6. r \in Injection(S, T)
  BY <1>4, <1>5 DEF Injection, IsInjective
<1>7. r \in Surjection(S, T)
  <2> HIDE DEF r, S, T
  <2> QED
    BY <1>3, <1>6, FS_Injection
<1>8. \A k \in T : \E x \in S : Rank(scored, x) = k
  BY <1>7 DEF Surjection
<1>9. ASSUME NEW x \in S PROVE Sorted(scored)[Rank(scored, x)] = scored[x]
  <2>1. Sorted(scored)[Rank(scored, x)] = scored[CHOOSE y \in S : Rank(scored, y) = Rank(scored, x)]
    BY <1>4 DEF Sorted
  <2>2. (CHOOSE y \in S : Rank(scored, y) = Rank(scored, x)) = x
    BY <1>5
  <2>3. QED
    BY <2>1, <2>2
<1>10. QED
  BY <1>1, <1>4, <1>8, <1>9

-----------------------------------------------------------------------------
Catalogued ==
  /\ catalogue \in Seq(Offer)
  /\ \A i, j \in DOMAIN catalogue : catalogue[i].id = catalogue[j].id => i = j

\* An answer is the one of the catalogue and the preferences there are.
AnsweredNow ==
  /\ answer.kind = "models" =>
       answer.question \in Question /\ answer = Recommended(answer.question)
  /\ answer.kind = "pairs" =>
       /\ answer.chosen \subseteq answer.asked
       /\ answer = Suggested(answer.asked, answer.chosen, answer.answered)
  /\ ConfiguredIsDirect

LEMMA PlacesFinite ==
  ASSUME Catalogued
  PROVE  /\ DOMAIN catalogue = 1 .. Len(catalogue) /\ Len(catalogue) \in Nat
         /\ IsFiniteSet(DOMAIN catalogue)
<1>1. DOMAIN catalogue = 1 .. Len(catalogue) /\ Len(catalogue) \in Nat
  BY LenProperties DEF Catalogued
<1>2. IsFiniteSet(1 .. Len(catalogue))
  BY <1>1, FS_Interval
<1>3. QED
  BY <1>1, <1>2

LEMMA RelevanceNat ==
  ASSUME NEW q \in Question, NEW m
  PROVE  /\ Relevance(m, q) \in Nat
         /\ IsFiniteSet(q.task \cap m.words) /\ Cardinality(q.task \cap m.words) \in Nat
<1>1. IsFiniteSet(q.task)
  BY AssistantAssumption
<1>2. IsFiniteSet(q.task \cap m.words)
  BY <1>1, FS_Subset
<1>3. Cardinality(q.task \cap m.words) \in Nat
  BY <1>2, FS_CardinalityType
<1>4. QED
  BY <1>2, <1>3 DEF Relevance

\* Common words, preferences and benchmarks more never lower the score.
LEMMA RelevanceGrows ==
  ASSUME NEW q \in Question, NEW a, NEW b,
         q.task \cap b.words \subseteq a.words,
         Preferred(b, q.user) => Preferred(a, q.user),
         UsedBefore(b, q.user) => UsedBefore(a, q.user),
         q.priority \in b.strong => q.priority \in a.strong
  PROVE  Relevance(b, q) <= Relevance(a, q)
<1>1. /\ IsFiniteSet(q.task \cap a.words) /\ Cardinality(q.task \cap a.words) \in Nat
      /\ Cardinality(q.task \cap b.words) \in Nat
  BY RelevanceNat
<1>2. Cardinality(q.task \cap b.words) <= Cardinality(q.task \cap a.words)
  <2>1. q.task \cap b.words \subseteq q.task \cap a.words
    OBVIOUS
  <2>2. QED
    BY <1>1, <2>1, FS_Subset
<1>3. QED
  BY <1>1, <1>2 DEF Relevance

LEMMA ModelsSortable ==
  ASSUME Catalogued, NEW q \in Question
  PROVE  /\ Sortable(ScoredModels(q))
         /\ DOMAIN ScoredModels(q) = {n \in DOMAIN catalogue : Fits(catalogue[n], q)}
         /\ \A i \in DOMAIN ScoredModels(q) :
              ScoredModels(q)[i] = [model |-> catalogue[i], score |-> Relevance(catalogue[i], q),
                                    place |-> i]
<1> DEFINE S == {n \in DOMAIN catalogue : Fits(catalogue[n], q)}
<1>1. /\ DOMAIN ScoredModels(q) = S
      /\ \A i \in S : ScoredModels(q)[i] =
           [model |-> catalogue[i], score |-> Relevance(catalogue[i], q), place |-> i]
  BY DEF ScoredModels
<1>2. S \subseteq DOMAIN catalogue /\ DOMAIN catalogue \subseteq Nat
  BY PlacesFinite
<1>3. IsFiniteSet(S)
  BY <1>2, PlacesFinite, FS_Subset
<1>4. \A i \in S : Relevance(catalogue[i], q) \in Nat /\ i \in Nat
  BY <1>2, RelevanceNat
<1> HIDE DEF S
<1>5. Sortable(ScoredModels(q))
  BY <1>1, <1>3, <1>4 DEF Sortable
<1>6. QED
  BY <1>1, <1>5 DEF S

LEMMA RankedFairly == Catalogued /\ AnsweredNow => BetterIsNotBehind
<1> SUFFICES ASSUME Catalogued, AnsweredNow, answer.kind = "models"
             PROVE  BetterIsNotBehind
  BY DEF BetterIsNotBehind
<1> DEFINE q == answer.question
           scored == ScoredModels(q)
           ranked == answer.ranked
           atLeast(a, b) ==
             /\ q.task \cap b.words \subseteq a.words
             /\ Preferred(b, q.user) => Preferred(a, q.user)
             /\ UsedBefore(b, q.user) => UsedBefore(a, q.user)
             /\ q.priority \in b.strong => q.priority \in a.strong
           place(m) == {i \in DOMAIN ranked : ranked[i].model = m}
           listed(m) == {i \in DOMAIN catalogue : catalogue[i] = m}
<1>1. q \in Question /\ ranked = Sorted(scored)
  BY DEF AnsweredNow, Recommended
<1>2. /\ Sortable(scored)
      /\ DOMAIN scored = {n \in DOMAIN catalogue : Fits(catalogue[n], q)}
      /\ \A i \in DOMAIN scored : /\ scored[i].model = catalogue[i] /\ scored[i].place = i
                                  /\ scored[i].score = Relevance(catalogue[i], q)
  <2> HIDE DEF q
  <2>1. /\ Sortable(scored)
        /\ DOMAIN scored = {n \in DOMAIN catalogue : Fits(catalogue[n], q)}
        /\ \A i \in DOMAIN scored : scored[i] =
             [model |-> catalogue[i], score |-> Relevance(catalogue[i], q), place |-> i]
    BY <1>1, ModelsSortable
  <2> HIDE DEF scored
  <2>2. QED
    BY <2>1
<1>3. /\ \A x \in DOMAIN scored : /\ Rank(scored, x) \in DOMAIN ranked
                                  /\ ranked[Rank(scored, x)] = scored[x]
      /\ \A k \in DOMAIN ranked : \E x \in DOMAIN scored : Rank(scored, x) = k
  BY <1>1, <1>2, SortedAtRank
<1>4. DOMAIN catalogue \subseteq Nat
  BY PlacesFinite
<1> HIDE DEF scored, ranked, q
<1>5. ASSUME NEW i \in DOMAIN catalogue
      PROVE  /\ listed(catalogue[i]) = {i}
             /\ place(catalogue[i]) = IF Fits(catalogue[i], q) THEN {Rank(scored, i)} ELSE {}
  <2>1. \A j \in DOMAIN catalogue : catalogue[j] = catalogue[i] => j = i
    BY DEF Catalogued
  <2>2. \A k \in place(catalogue[i]) : i \in DOMAIN scored /\ k = Rank(scored, i)
    <3> SUFFICES ASSUME NEW k \in place(catalogue[i])
                 PROVE  i \in DOMAIN scored /\ k = Rank(scored, i)
      OBVIOUS
    <3>1. PICK x \in DOMAIN scored : Rank(scored, x) = k
      BY <1>3
    <3>2. catalogue[x] = catalogue[i] /\ x \in DOMAIN catalogue
      BY <1>2, <1>3, <3>1
    <3>3. QED
      BY <2>1, <3>1, <3>2
  <2>3. Fits(catalogue[i], q) => Rank(scored, i) \in place(catalogue[i])
    BY <1>2, <1>3
  <2>4. i \in DOMAIN scored => Fits(catalogue[i], q)
    BY <1>2
  <2>5. listed(catalogue[i]) = {i}
    BY <2>1
  <2>6. QED
    BY <2>2, <2>3, <2>4, <2>5
<1>6. ASSUME NEW a \in ToSet(catalogue), NEW b \in ToSet(catalogue)
      PROVE  /\ Cardinality(place(a)) = IF Fits(a, q) THEN 1 ELSE 0
             /\ \A i \in place(a), j \in place(b) : (atLeast(a, b) /\ j < i) =>
                  /\ ranked[i].score = ranked[j].score
                  /\ \A k \in listed(a), l \in listed(b) : l < k
  <2>1. PICK m \in DOMAIN catalogue, n \in DOMAIN catalogue : catalogue[m] = a /\ catalogue[n] = b
    BY DEF ToSet
  <2>2. /\ listed(a) = {m} /\ listed(b) = {n}
        /\ place(a) = IF Fits(a, q) THEN {Rank(scored, m)} ELSE {}
        /\ place(b) = IF Fits(b, q) THEN {Rank(scored, n)} ELSE {}
    BY <1>5, <2>1
  <2> HIDE DEF place, listed
  <2>3. Cardinality(place(a)) = IF Fits(a, q) THEN 1 ELSE 0
    BY <2>2, FS_Singleton, FS_EmptySet
  <2>4. ASSUME NEW i \in place(a), NEW j \in place(b), atLeast(a, b), j < i
        PROVE  /\ ranked[i].score = ranked[j].score
               /\ \A k \in listed(a), l \in listed(b) : l < k
    <3>1. /\ m \in DOMAIN scored /\ n \in DOMAIN scored
          /\ i = Rank(scored, m) /\ j = Rank(scored, n)
      BY <1>2, <2>1, <2>2
    <3>2. /\ ranked[i] = scored[m] /\ ranked[j] = scored[n]
          /\ scored[m].score = Relevance(a, q) /\ scored[n].score = Relevance(b, q)
          /\ scored[m].place = m /\ scored[n].place = n
      BY <1>2, <1>3, <2>1, <3>1
    <3>3. Outranks(scored, n, m)
      BY <1>2, <2>4, <3>1, RankTells
    <3>4. Relevance(b, q) <= Relevance(a, q)
      BY <1>1, <2>4, RelevanceGrows
    <3>5. Relevance(a, q) \in Nat /\ Relevance(b, q) \in Nat
      BY <1>1, RelevanceNat
    <3>6. Relevance(a, q) = Relevance(b, q) /\ n < m
      BY <3>2, <3>3, <3>4, <3>5 DEF Outranks
    <3>7. QED
      BY <2>2, <3>2, <3>6
  <2>5. QED
    BY <2>3, <2>4
<1>7. QED
  BY <1>6 DEF BetterIsNotBehind, ranked, q

-----------------------------------------------------------------------------
LEMMA LinksFinite ==
  ASSUME NEW infos, IsFiniteSet(DOMAIN infos)
  PROVE  /\ IsFiniteSet(Links(infos)) /\ Cardinality(Links(infos)) \in Nat
         /\ CompatibilityScore(infos) \in Nat
         /\ CompatibilityScore(infos) > 60 => Links(infos) # {}
<1>1. IsFiniteSet((DOMAIN infos) \X (DOMAIN infos))
  BY FS_Product
<1>2. Links(infos) \subseteq (DOMAIN infos) \X (DOMAIN infos)
  BY DEF Links
<1>3. IsFiniteSet(Links(infos)) /\ Cardinality(Links(infos)) \in Nat
  <2>1. IsFiniteSet(Links(infos))
    BY <1>1, <1>2, FS_Subset
  <2>2. QED
    BY <2>1, FS_CardinalityType
<1>4. Links(infos) = {} => Cardinality(Links(infos)) = 0
  BY FS_EmptySet
<1> DEFINE links == Cardinality(Links(infos))
<1> HIDE DEF links
<1>5. /\ CompatibilityScore(infos) \in Nat
      /\ CompatibilityScore(infos) > 60 => links # 0
  <2>1. links \in Nat
    BY <1>3 DEF links
  <2>2. CompatibilityScore(infos) =
          LET raw == (IF Bridges(infos) THEN 30 ELSE 0) + (IF Extracts(infos) THEN 25 ELSE 0)
                     + 20 * links
          IN  IF raw > 100 THEN 100 ELSE raw
    BY DEF CompatibilityScore, links
  <2>3. QED
    BY <2>1, <2>2
<1>6. QED
  BY <1>3, <1>4, <1>5 DEF links

\* Models that are all among others, at places of their own, do not score higher.
LEMMA ScoreGrows ==
  ASSUME NEW infos, NEW others, IsFiniteSet(DOMAIN infos), IsFiniteSet(DOMAIN others),
         NEW h \in Injection(DOMAIN infos, DOMAIN others),
         \A i \in DOMAIN infos : others[h[i]] = infos[i]
  PROVE  CompatibilityScore(infos) <= CompatibilityScore(others)
<1> DEFINE A == Links(infos)
           B == Links(others)
           g == [ij \in A |-> <<h[ij[1]], h[ij[2]]>>]
<1>1. /\ \A i \in DOMAIN infos : h[i] \in DOMAIN others
      /\ \A i, j \in DOMAIN infos : h[i] = h[j] => i = j
  BY DEF Injection, IsInjective
<1>2. \A ij \in A : /\ ij = <<ij[1], ij[2]>> /\ ij[1] \in DOMAIN infos /\ ij[2] \in DOMAIN infos
                    /\ ij[1] # ij[2] /\ infos[ij[1]].output = infos[ij[2]].input
  BY DEF Links
<1>3. \A i, j \in DOMAIN others :
        i # j /\ others[i].output = others[j].input => <<i, j>> \in B
  BY DEF Links
<1> HIDE DEF A, B
<1>4. \A ij \in A : g[ij] \in B
  BY <1>1, <1>2, <1>3
<1>5. \A ij, kl \in A : g[ij] = g[kl] => ij = kl
  BY <1>1, <1>2
<1>6. g \in Injection(A, B)
  BY <1>4, <1>5 DEF Injection, IsInjective
<1>7. /\ IsFiniteSet(A) /\ Cardinality(A) \in Nat
      /\ IsFiniteSet(B) /\ Cardinality(B) \in Nat
  BY LinksFinite DEF A, B
<1>8. Cardinality(A) <= Cardinality(B)
  <2> HIDE DEF g
  <2> QED
    BY <1>6, <1>7, FS_Injection
<1>9. \A w : Somewhere(infos, w) => Somewhere(others, w)
  BY <1>1 DEF Somewhere
<1>10. (Bridges(infos) => Bridges(others)) /\ (Extracts(infos) => Extracts(others))
  BY <1>9 DEF Bridges, Extracts
<1>11. QED
  BY <1>7, <1>8, <1>10 DEF CompatibilityScore, A, B

\* Whatever the order in which the same models are given, each is at one place.
LEMMA OrderScoresSame ==
  ASSUME NEW infos, IsFiniteSet(DOMAIN infos), NEW p \in Bijection(DOMAIN infos, DOMAIN infos)
  PROVE  CompatibilityScore([i \in DOMAIN infos |-> infos[p[i]]]) = CompatibilityScore(infos)
<1> DEFINE D == DOMAIN infos
           others == [i \in D |-> infos[p[i]]]
           back == [i \in D |-> CHOOSE j \in D : p[j] = i]
<1>1. DOMAIN others = D
  OBVIOUS
<1>2. p \in Injection(D, D) /\ \A i \in D : \E j \in D : p[j] = i
  BY DEF Bijection, Injection, Surjection
<1>3. \A i \in D : back[i] \in D /\ p[back[i]] = i
  BY <1>2
<1>4. back \in Injection(D, D)
  BY <1>3 DEF Injection, IsInjective
<1>5. \A i \in D : infos[p[i]] = others[i] /\ others[back[i]] = infos[i]
  BY <1>3
<1> HIDE DEF others, back
<1>6. CompatibilityScore(others) <= CompatibilityScore(infos)
  BY <1>1, <1>2, <1>5, ScoreGrows
<1>7. CompatibilityScore(infos) <= CompatibilityScore(others)
  BY <1>1, <1>4, <1>5, ScoreGrows
<1>8. CompatibilityScore(infos) \in Nat /\ CompatibilityScore(others) \in Nat
  BY <1>1, LinksFinite
<1>9. QED
  BY <1>6, <1>7, <1>8 DEF others

LEMMA OneLessScoresLess ==
  ASSUME NEW S, NEW infos \in Seq(S), NEW i \in DOMAIN infos
  PROVE  CompatibilityScore(SubSeq(infos, 1, i - 1) \o SubSeq(infos, i + 1, Len(infos)))
           <= CompatibilityScore(infos)
<1> DEFINE n == Len(infos)
           before == SubSeq(infos, 1, i - 1)
           after == SubSeq(infos, i + 1, n)
           rest == before \o after
           h == [k \in 1 .. n - 1 |-> IF k < i THEN k ELSE k + 1]
<1>1. n \in Nat /\ DOMAIN infos = 1 .. n
  BY LenProperties
<1>2. /\ before \in Seq(S) /\ Len(before) = i - 1
      /\ \A k \in 1 .. i - 1 : before[k] = infos[k]
  BY <1>1
<1>3. /\ after \in Seq(S) /\ Len(after) = n - i
      /\ \A k \in 1 .. n - i : after[k] = infos[k + i]
  BY <1>1
<1> HIDE DEF before, after, n
<1>4. /\ DOMAIN rest = 1 .. n - 1
      /\ \A k \in 1 .. n - 1 : rest[k] = IF k < i THEN infos[k] ELSE infos[k + 1]
  <2>1. /\ rest \in Seq(S) /\ Len(rest) = n - 1
        /\ \A k \in 1 .. n - 1 : rest[k] = IF k <= i - 1 THEN before[k] ELSE after[k - (i - 1)]
    <3>1. /\ rest \in Seq(S) /\ Len(rest) = Len(before) + Len(after)
          /\ \A k \in 1 .. Len(before) + Len(after) :
               rest[k] = IF k <= Len(before) THEN before[k] ELSE after[k - Len(before)]
      BY <1>2, <1>3, ConcatProperties
    <3>2. Len(before) + Len(after) = n - 1
      BY <1>1, <1>2, <1>3
    <3>3. QED
      BY <1>2, <3>1, <3>2
  <2>2. DOMAIN rest = 1 .. n - 1
    BY <2>1, LenProperties
  <2>3. ASSUME NEW k \in 1 .. n - 1 PROVE rest[k] = IF k < i THEN infos[k] ELSE infos[k + 1]
    <3>1. CASE k < i
      BY <1>1, <1>2, <2>1, <3>1
    <3>2. CASE ~(k < i)
      <4>1. k - (i - 1) \in 1 .. n - i /\ rest[k] = after[k - (i - 1)]
        BY <1>1, <2>1, <3>2
      <4>2. (k - (i - 1)) + i = k + 1
        BY <1>1
      <4>3. QED
        BY <1>3, <3>2, <4>1, <4>2
    <3>3. QED
      BY <3>1, <3>2
  <2>4. QED
    BY <2>2, <2>3
<1> HIDE DEF rest
<1>5. IsFiniteSet(1 .. n) /\ IsFiniteSet(1 .. n - 1)
  BY <1>1, FS_Interval
<1>6. \A k \in 1 .. n - 1 : h[k] \in 1 .. n /\ h[k] = (IF k < i THEN k ELSE k + 1)
  BY <1>1
<1>7. h \in Injection(1 .. n - 1, 1 .. n)
  BY <1>6 DEF Injection, IsInjective
<1>8. \A k \in 1 .. n - 1 : infos[h[k]] = rest[k]
  BY <1>4, <1>6
<1> HIDE DEF h
<1>9. CompatibilityScore(rest) <= CompatibilityScore(infos)
  BY <1>1, <1>4, <1>5, <1>7, <1>8, ScoreGrows
<1>10. QED
  BY <1>9 DEF rest, before, after, n

\* What the engine last answered is the score of what it was asked about.
FairInv ==
  /\ compatibility.of \in Seq(ModelInfo)
  /\ compatibility.score = CompatibilityScore(compatibility.of)
  /\ compatibility.is_compatible = (CompatibilityScore(compatibility.of) > 60)
  /\ compatibility.is_compatible => compatibility.points = ConnectionPoints(compatibility.of)

LEMMA FairInvSuffices == FairInv => ScoreIsFair
<1> SUFFICES ASSUME FairInv PROVE ScoreIsFair
  OBVIOUS
<1> DEFINE infos == compatibility.of
<1>1. infos \in Seq(ModelInfo) /\ compatibility.score = CompatibilityScore(infos)
  BY DEF FairInv
<1>2. ASSUME NEW p \in Bijection(DOMAIN infos, DOMAIN infos)
      PROVE  CompatibilityScore([i \in DOMAIN infos |-> infos[p[i]]]) = compatibility.score
  <2>1. IsFiniteSet(DOMAIN infos)
    <3>1. Len(infos) \in Nat /\ DOMAIN infos = 1 .. Len(infos)
      BY <1>1, LenProperties
    <3>2. QED
      BY <3>1, FS_Interval
  <2>2. QED
    BY <1>1, <2>1, OrderScoresSame
<1>3. \A i \in DOMAIN infos :
        CompatibilityScore(SubSeq(infos, 1, i - 1) \o SubSeq(infos, i + 1, Len(infos)))
          <= compatibility.score
  BY <1>1, OneLessScoresLess
<1>4. ASSUME compatibility.is_compatible
      PROVE  \E point \in compatibility.points : point.link # <<>>
  <2>1. IsFiniteSet(DOMAIN infos)
    <3>1. Len(infos) \in Nat /\ DOMAIN infos = 1 .. Len(infos)
      BY <1>1, LenProperties
    <3>2. QED
      BY <3>1, FS_Interval
  <2>2. PICK ij : ij \in Links(infos)
    BY <1>4, <2>1, LinksFinite DEF FairInv
  <2>3. Point("Data Pipeline", ij, 90) \in ConnectionPoints(infos)
    BY <2>2 DEF ConnectionPoints
  <2>4. Point("Data Pipeline", ij, 90).link = ij /\ ij # <<>>
    BY <2>2 DEF Point, Links
  <2>5. QED
    BY <1>4, <2>3, <2>4 DEF FairInv
<1>5. QED
  BY <1>2, <1>3, <1>4 DEF ScoreIsFair

LEMMA FairInvInit == FusInit => FairInv
<1> SUFFICES ASSUME FusInit PROVE FairInv
  OBVIOUS
<1>1. /\ compatibility.of = <<>> /\ compatibility.score = 0
      /\ compatibility.is_compatible = FALSE
  BY DEF FusInit
<1>2. Links(<<>>) = {} /\ ~Bridges(<<>>) /\ ~Extracts(<<>>)
  BY DEF Links, Bridges, Extracts, Somewhere
<1>3. CompatibilityScore(<<>>) = 0
  BY <1>2, FS_EmptySet DEF CompatibilityScore
<1>4. QED
  <2>1. <<>> \in Seq(ModelInfo)
    OBVIOUS
  <2>2. (0 > 60) = FALSE
    OBVIOUS
  <2>3. QED
    BY <1>1, <1>3, <2>1, <2>2, Zenon DEF FairInv

LEMMA FairInvNext == FairInv /\ ([FusNext]_fusVars \/ [CompatNext]_fusVars) => FairInv'
<1> SUFFICES ASSUME FairInv, [FusNext]_fusVars \/ [CompatNext]_fusVars PROVE FairInv'
  OBVIOUS
<1>1. CASE compatibility' = compatibility
  BY <1>1 DEF FairInv
<1>2. CASE \E infos \in Collections : CheckCompatibility(infos)
  <2>1. PICK infos \in Collections : CheckCompatibility(infos)
    BY <1>2
  <2>2. infos \in Seq(ModelInfo)
    BY FusionAssumption
  <2>3. /\ compatibility'.of = infos /\ compatibility'.score = CompatibilityScore(infos)
        /\ compatibility'.is_compatible = (CompatibilityScore(infos) > 60)
        /\ compatibility'.points = ConnectionPoints(infos)
    BY <2>1 DEF CheckCompatibility
  <2>4. QED
    BY <2>2, <2>3 DEF FairInv
<1>3. QED
  BY <1>1, <1>2 DEF FusNext, CompatNext, fusVars, FusionReturns, FusionRequest, MineFusion

-----------------------------------------------------------------------------
\* Positions of two loops, one in the other, come one after the other.
LEMMA LoopPlaces ==
  ASSUME NEW n \in Nat, NEW i \in Nat, NEW j \in 1 .. n, NEW k \in Nat, NEW l \in 1 .. n,
         i * n + j = k * n + l
  PROVE  i = k /\ j = l
<1>1. ASSUME NEW a \in Nat, NEW b \in Nat, NEW c \in 1 .. n, NEW d \in 1 .. n, a < b
      PROVE  a * n + c < b * n + d
  <2>1. PICK e \in Nat : b = a + 1 + e
    <3>1. b - a - 1 \in Nat /\ b = a + 1 + (b - a - 1)
      BY <1>1
    <3>2. QED
      BY <3>1
  <2>2. b * n = a * n + n + e * n
    BY <2>1
  <2>3. e * n \in Nat /\ a * n \in Nat
    OBVIOUS
  <2>4. QED
    BY <2>2, <2>3
<1>2. i = k
  <2>1. ~(i < k) /\ ~(k < i)
    BY <1>1
  <2>2. QED
    BY <2>1
<1>3. QED
  <2>1. i * n \in Nat
    OBVIOUS
  <2>2. QED
    BY <1>2, <2>1

LEMMA PairScoreNat ==
  ASSUME NEW a, NEW b, NEW known
  PROVE  /\ PairScore(a, b, known) \in Nat
         /\ PairScore(a, b, known) > 60 =>
              IF <<a.id, b.id>> \in known THEN Links(<<a, b>>) # {} ELSE Complements(a, b)
         /\ (<<a.id, b.id>> \notin known /\ Complements(a, b)) =>
              PairScore(a, b, known) > 60
<1>1. IsFiniteSet(DOMAIN <<a, b>>)
  <2> DEFINE pair == <<a, b>>
  <2>1. pair \in Seq({a, b}) /\ Len(pair) = 2
    OBVIOUS
  <2> HIDE DEF pair
  <2>2. DOMAIN pair = 1 .. 2
    BY <2>1, LenProperties
  <2>3. 1 \in Int /\ 2 \in Int
    OBVIOUS
  <2>4. IsFiniteSet(1 .. 2)
    BY <2>3, FS_Interval
  <2>5. QED
    BY <2>2, <2>4 DEF pair
<1>2. /\ CompatibilityScore(<<a, b>>) \in Nat
      /\ CompatibilityScore(<<a, b>>) > 60 => Links(<<a, b>>) # {}
  BY <1>1, LinksFinite
<1>3. RuleScore(a, b) \in Nat /\ (RuleScore(a, b) > 60 <=> Complements(a, b))
  BY DEF RuleScore, Complements
<1>4. QED
  BY <1>2, <1>3 DEF PairScore

LEMMA PairsSortable ==
  ASSUME Catalogued, NEW about, NEW chosen, NEW known
  PROVE  /\ Sortable(ScoredPairs(about, chosen, known))
         /\ DOMAIN ScoredPairs(about, chosen, known) =
              {c \in Candidates(about, chosen) : ScoreAt(c, known) > 60}
         /\ \A ij \in DOMAIN ScoredPairs(about, chosen, known) :
              /\ ScoredPairs(about, chosen, known)[ij].pair =
                   <<catalogue[ij[1]], catalogue[ij[2]]>>
              /\ ij[1] \in DOMAIN catalogue /\ ij[2] \in DOMAIN catalogue
<1> DEFINE n == Len(catalogue)
           D == {c \in Candidates(about, chosen) : ScoreAt(c, known) > 60}
           scored == ScoredPairs(about, chosen, known)
<1>1. n \in Nat /\ DOMAIN catalogue = 1 .. n /\ IsFiniteSet(DOMAIN catalogue)
  BY PlacesFinite
<1>2. DOMAIN scored = D
  BY DEF ScoredPairs
<1>3. \A ij \in D : scored[ij] =
        [pair |-> <<catalogue[ij[1]], catalogue[ij[2]]>>, score |-> ScoreAt(ij, known),
         place |-> ij[1] * n + ij[2]]
  BY DEF ScoredPairs
<1>4. D \subseteq (1 .. n) \X (1 .. n)
  BY <1>1 DEF Candidates
<1>5. IsFiniteSet(D)
  <2>1. IsFiniteSet((1 .. n) \X (1 .. n))
    BY <1>1, FS_Product
  <2>2. QED
    BY <1>4, <2>1, FS_Subset
<1>6. \A ij \in D : ScoreAt(ij, known) \in Nat
  BY PairScoreNat DEF ScoreAt
<1> HIDE DEF D, scored, n
<1>7. \A ij \in D : /\ scored[ij].pair = <<catalogue[ij[1]], catalogue[ij[2]]>>
                    /\ scored[ij].score = ScoreAt(ij, known)
                    /\ scored[ij].place = ij[1] * n + ij[2]
  <2> SUFFICES ASSUME NEW ij \in D
               PROVE  /\ scored[ij].pair = <<catalogue[ij[1]], catalogue[ij[2]]>>
                      /\ scored[ij].score = ScoreAt(ij, known)
                      /\ scored[ij].place = ij[1] * n + ij[2]
    OBVIOUS
  <2> DEFINE place == ij[1] * n + ij[2]
  <2>1. scored[ij] = [pair |-> <<catalogue[ij[1]], catalogue[ij[2]]>>,
                      score |-> ScoreAt(ij, known), place |-> place]
    BY <1>3
  <2> HIDE DEF place
  <2>2. /\ scored[ij].pair = <<catalogue[ij[1]], catalogue[ij[2]]>>
        /\ scored[ij].score = ScoreAt(ij, known)
        /\ scored[ij].place = place
    BY <2>1
  <2>3. QED
    BY <2>2 DEF place
<1>8. \A ij \in D : /\ ij = <<ij[1], ij[2]>> /\ ij[1] \in 1 .. n /\ ij[2] \in 1 .. n
                    /\ ij[1] \in Nat
  BY <1>1, <1>4
<1>9. \A ij \in D : ij[1] * n + ij[2] \in Nat
  BY <1>1, <1>8
<1>10. ASSUME NEW ij \in D, NEW kl \in D, scored[ij].place = scored[kl].place
       PROVE  ij = kl
  <2>1. ij[1] = kl[1] /\ ij[2] = kl[2]
    BY <1>1, <1>7, <1>8, <1>10, LoopPlaces
  <2>2. QED
    BY <1>8, <2>1
<1>11. Sortable(scored)
  <2>1. \A ij \in D : scored[ij].score \in Nat /\ scored[ij].place \in Nat
    BY <1>6, <1>7, <1>9
  <2>2. QED
    BY <1>2, <1>5, <1>10, <2>1 DEF Sortable
<1>12. QED
  BY <1>1, <1>2, <1>7, <1>8, <1>11 DEF D, scored, n

LEMMA SuggestedForReason == Catalogued /\ AnsweredNow => SuggestedHasReason
<1> SUFFICES ASSUME Catalogued, AnsweredNow, answer.kind = "pairs"
             PROVE  SuggestedHasReason
  BY DEF SuggestedHasReason
<1> DEFINE about == answer.asked
           chosen == answer.chosen
           known == answer.answered
           ranked == answer.ranked
           scored == ScoredPairs(about, chosen, known)
           suggested == {ranked[i].pair : i \in DOMAIN ranked}
<1>1. chosen \subseteq about /\ answer = Suggested(about, chosen, known)
  BY DEF AnsweredNow
<1>2. ranked = Sorted(scored)
  BY <1>1 DEF Suggested
<1> HIDE DEF about, chosen, known, ranked
<1>3. /\ Sortable(scored)
      /\ DOMAIN scored = {c \in Candidates(about, chosen) : ScoreAt(c, known) > 60}
      /\ \A ij \in DOMAIN scored : /\ scored[ij].pair = <<catalogue[ij[1]], catalogue[ij[2]]>>
                                   /\ ij[1] \in DOMAIN catalogue /\ ij[2] \in DOMAIN catalogue
  BY PairsSortable
<1> HIDE DEF scored
<1>4. /\ \A x \in DOMAIN scored : /\ Rank(scored, x) \in DOMAIN ranked
                                  /\ ranked[Rank(scored, x)] = scored[x]
      /\ \A k \in DOMAIN ranked : \E x \in DOMAIN scored : Rank(scored, x) = k
  BY <1>2, <1>3, SortedAtRank
<1>5. suggested = {scored[ij].pair : ij \in DOMAIN scored}
  BY <1>4
<1> HIDE DEF suggested
<1>6. ASSUME NEW ab \in suggested
      PROVE  /\ ab[1].id \in chosen /\ ab[2].id \notin about
             /\ IF <<ab[1].id, ab[2].id>> \in known THEN Links(ab) # {}
                ELSE Complements(ab[1], ab[2])
  <2>1. PICK ij \in DOMAIN scored : ab = <<catalogue[ij[1]], catalogue[ij[2]]>>
    BY <1>3, <1>5
  <2>2. /\ catalogue[ij[1]].id \in chosen /\ catalogue[ij[2]].id \notin about
        /\ ScoreAt(ij, known) > 60
    BY <1>3 DEF Candidates
  <2>3. PairScore(ab[1], ab[2], known) > 60 /\ ab = <<ab[1], ab[2]>>
    BY <2>1, <2>2 DEF ScoreAt
  <2>4. IF <<ab[1].id, ab[2].id>> \in known THEN Links(<<ab[1], ab[2]>>) # {}
        ELSE Complements(ab[1], ab[2])
    BY <2>3, PairScoreNat
  <2>5. QED
    BY <2>1, <2>2, <2>3, <2>4
<1>7. ASSUME NEW a \in ToSet(catalogue), NEW b \in ToSet(catalogue),
             a.id \in chosen, b.id \notin about, Complements(a, b),
             <<a.id, b.id>> \notin known
      PROVE  <<a, b>> \in suggested
  <2>1. PICK i \in DOMAIN catalogue, j \in DOMAIN catalogue :
          catalogue[i] = a /\ catalogue[j] = b
    BY DEF ToSet
  <2>2. OfId(a.id) = a
    <3>1. \A m \in ToSet(catalogue) : m.id = a.id => m = a
      BY <2>1 DEF Catalogued, ToSet
    <3>2. QED
      BY <3>1 DEF OfId
  <2>3. Complements(b, a)
    BY <1>7 DEF Complements, Pairing
  <2>4. IsComplementary(b, chosen)
    BY <1>1, <1>7, <2>2, <2>3 DEF IsComplementary, about, chosen
  <2>5. <<i, j>> \in Candidates(about, chosen)
    BY <1>7, <2>1, <2>4 DEF Candidates
  <2>6. ScoreAt(<<i, j>>, known) > 60
    BY <1>7, <2>1, PairScoreNat DEF ScoreAt
  <2>7. <<i, j>> \in DOMAIN scored
    BY <1>3, <2>5, <2>6
  <2>8. QED
    BY <1>3, <1>5, <2>1, <2>7
<1>8. QED
  BY <1>6, <1>7 DEF SuggestedHasReason, suggested, ranked, about, chosen, known

-----------------------------------------------------------------------------
LEMMA ConfiguredDirectly ==
  ASSUME NEW infos, IsFiniteSet(DOMAIN infos), Configured(infos).success
  PROVE  \E connection \in Configured(infos).config :
           connection.type = "direct" /\ connection.point.link # <<>>
<1>1. CompatibilityScore(infos) > 60
  BY DEF Configured
<1>2. PICK ij : ij \in Links(infos)
  BY <1>1, LinksFinite
<1> DEFINE point == Point("Data Pipeline", ij, 90)
<1>3. point \in ConnectionPoints(infos)
  BY <1>2 DEF ConnectionPoints
<1>4. point.link = ij /\ ij # <<>> /\ point.compatibility = 90
  <2>1. ij # <<>>
    BY <1>2 DEF Links
  <2>2. point.link = ij /\ point.compatibility = 90
    BY DEF Point
  <2>3. QED
    BY <2>1, <2>2
<1> HIDE DEF point
<1>5. [point |-> point, type |-> "direct"] \in Configured(infos).config
  BY <1>1, <1>3, <1>4 DEF Configured
<1>6. QED
  BY <1>4, <1>5

-----------------------------------------------------------------------------
\* What the assistant knows and last answered.
AiInv == Catalogued /\ AnsweredNow /\ suggesting.chosen \subseteq suggesting.asked

LEMMA AiInvInit == AiInit => AiInv
<1> SUFFICES ASSUME AiInit PROVE AiInv
  OBVIOUS
<1>1. catalogue = <<>> /\ answer.kind = "none" /\ suggesting.chosen = {}
  BY DEF AiInit, NoAnswer, NotSuggesting
<1>2. catalogue \in Seq(Offer) /\ DOMAIN catalogue = {}
  BY <1>1
<1>3. QED
  BY <1>1, <1>2 DEF AiInv, Catalogued, AnsweredNow, ConfiguredIsDirect

LEMMA NoAnswerIsSound == answer' = NoAnswer => AnsweredNow'
BY DEF AnsweredNow, NoAnswer, ConfiguredIsDirect

LEMMA ListModelStep ==
  ASSUME AiInv, NEW m \in Offer, ListModel(m)
  PROVE  AiInv'
<1> DEFINE n == Len(catalogue)
<1>1. n \in Nat /\ DOMAIN catalogue = 1 .. n /\ catalogue \in Seq(Offer)
  BY PlacesFinite DEF AiInv, Catalogued
<1>2. /\ catalogue' = Append(catalogue, m) /\ answer' = NoAnswer
      /\ suggesting' = suggesting
      /\ \A i \in DOMAIN catalogue : catalogue[i].id # m.id
  BY DEF ListModel, Ids
<1> HIDE DEF n
<1>3. /\ catalogue' \in Seq(Offer) /\ DOMAIN catalogue' = 1 .. n + 1
      /\ \A i \in 1 .. n : catalogue'[i] = catalogue[i]
      /\ catalogue'[n + 1] = m
  BY <1>1, <1>2 DEF n
<1>4. \A i \in DOMAIN catalogue' : i \in DOMAIN catalogue \/ i = n + 1
  BY <1>1, <1>3
<1>5. Catalogued'
  BY <1>1, <1>2, <1>3, <1>4 DEF AiInv, Catalogued
<1>6. QED
  BY <1>2, <1>5, NoAnswerIsSound DEF AiInv

LEMMA RecommendedNow ==
  ASSUME NEW q, UNCHANGED <<catalogue, user_preferences>>
  PROVE  Recommended(q)' = Recommended(q)
BY DEF Recommended, Sorted, Rank, Outranks, ScoredModels, Fits, Relevance, Preferred, UsedBefore

LEMMA RecommendModelsStep ==
  ASSUME AiInv, NEW q \in Question, RecommendModels(q)
  PROVE  AiInv'
<1>1. answer' = Recommended(q) /\ UNCHANGED <<catalogue, user_preferences, suggesting>>
  BY DEF RecommendModels
<1>2. answer'.kind = "models" /\ answer'.question = q
  BY <1>1 DEF Recommended
<1>3. answer' = Recommended(q)'
  BY <1>1, RecommendedNow
<1>4. AnsweredNow'
  BY <1>2, <1>3 DEF AnsweredNow, ConfiguredIsDirect
<1>5. QED
  BY <1>1, <1>4 DEF AiInv, Catalogued

LEMMA SuggestedNow ==
  ASSUME NEW about, NEW chosen, NEW known, UNCHANGED catalogue
  PROVE  Suggested(about, chosen, known)' = Suggested(about, chosen, known)
BY DEF Suggested, ScoredPairs, Candidates, ScoreAt, PairScore, RuleScore, IsComplementary, OfId

LEMMA SuggestionEndsStep ==
  ASSUME AiInv, SuggestionEnds
  PROVE  AiInv'
<1>1. PICK about, chosen, known :
        /\ about = suggesting.asked /\ chosen = suggesting.chosen
        /\ answer' = Suggested(about, chosen, known)
  BY DEF SuggestionEnds
<1>2. suggesting' = NotSuggesting /\ UNCHANGED catalogue
  BY DEF SuggestionEnds
<1>3. chosen \subseteq about
  BY <1>1 DEF AiInv
<1>4. /\ answer'.kind = "pairs" /\ answer'.asked = about /\ answer'.chosen = chosen
      /\ answer'.answered = known
  BY <1>1 DEF Suggested
<1>5. answer' = Suggested(about, chosen, known)'
  BY <1>1, <1>2, SuggestedNow
<1>6. AnsweredNow'
  BY <1>3, <1>4, <1>5 DEF AnsweredNow, ConfiguredIsDirect
<1>7. QED
  BY <1>2, <1>6 DEF AiInv, Catalogued, NotSuggesting

LEMMA ConnectionConfigStep ==
  ASSUME AiInv, NEW n \in Nat, NEW ids, DOMAIN ids = 1 .. n, SuggestConnectionConfig(ids)
  PROVE  AiInv'
<1> DEFINE infos == [i \in DOMAIN ids |-> OfId(ids[i])]
<1>1. answer' = Configured(infos) /\ UNCHANGED <<catalogue, user_preferences, suggesting>>
  BY DEF SuggestConnectionConfig
<1>2. IsFiniteSet(DOMAIN infos)
  BY FS_Interval
<1> HIDE DEF infos
<1>3. answer'.kind = "connections"
  BY <1>1 DEF Configured
<1>4. answer'.success =>
        \E connection \in answer'.config : connection.type = "direct" /\ connection.point.link # <<>>
  BY <1>1, <1>2, ConfiguredDirectly
<1>5. AnsweredNow'
  BY <1>3, <1>4 DEF AnsweredNow, ConfiguredIsDirect
<1>6. QED
  BY <1>1, <1>5 DEF AiInv, Catalogued

\* What was answered is right until something changes.
LEMMA AnswerStands ==
  ASSUME AiInv, UNCHANGED <<catalogue, user_preferences, answer>>
  PROVE  AnsweredNow'
<1>1. \A q : Recommended(q)' = Recommended(q)
  BY RecommendedNow
<1>2. \A about, chosen, known :
        Suggested(about, chosen, known)' = Suggested(about, chosen, known)
  BY SuggestedNow
<1>3. AnsweredNow
  BY DEF AiInv
<1>4. QED
  BY <1>1, <1>2, <1>3 DEF AnsweredNow, ConfiguredIsDirect

LEMMA AiInvNext == AiInv /\ [AiNext]_aiVars => AiInv'
<1> SUFFICES ASSUME AiInv, [AiNext]_aiVars PROVE AiInv'
  OBVIOUS
<1>1. ASSUME NEW u, NEW given, StoreUserPreference(u, given) PROVE AiInv'
  <2>1. answer' = NoAnswer /\ UNCHANGED <<catalogue, suggesting>>
    BY <1>1 DEF StoreUserPreference
  <2>2. QED
    BY <2>1, NoAnswerIsSound DEF AiInv, Catalogued
<1>2. ASSUME NEW ids, NEW task, SuggestFusionCombinations(ids, task) PROVE AiInv'
  <2>1. /\ suggesting'.chosen \subseteq suggesting'.asked
        /\ UNCHANGED <<catalogue, user_preferences, answer>>
    BY <1>2 DEF SuggestFusionCombinations
  <2>2. QED
    BY <2>1, AnswerStands DEF AiInv, Catalogued
<1>3. ASSUME UNCHANGED aiVars PROVE AiInv'
  <2>1. UNCHANGED <<catalogue, user_preferences, suggesting, answer>>
    BY <1>3 DEF aiVars
  <2>2. QED
    BY <2>1, AnswerStands DEF AiInv, Catalogued
<1>4. QED
  BY <1>1, <1>2, <1>3, ListModelStep, RecommendModelsStep, SuggestionEndsStep, ConnectionConfigStep
     DEF AiNext

\* The score of the engine is the same for every order of the models, and no further
\* model lowers it; nothing
\* that fits is lost or put behind what is worse; a pair is suggested for a reason, and
\* a configuration connects some model directly: any models, questions, preferences
\* and answers of the engine (AdviceHolds).
THEOREM AdviceIsSound == ServicesSpec => []AdviceHolds
<1>1. ServicesInit => FairInv /\ AiInv
  BY FairInvInit, AiInvInit DEF ServicesInit
<1>2. [ServicesNext]_serviceVars => [FusNext]_fusVars \/ [CompatNext]_fusVars
  BY DEF ServicesNext, OthersIdle, serviceVars
<1>3. [ServicesNext]_serviceVars => [AiNext]_aiVars
  BY DEF ServicesNext, OthersIdle, serviceVars
<1>4. FairInv /\ AiInv /\ [ServicesNext]_serviceVars => FairInv' /\ AiInv'
  BY <1>2, <1>3, FairInvNext, AiInvNext
<1>5. FairInv /\ AiInv => AdviceHolds
  BY FairInvSuffices, RankedFairly, SuggestedForReason DEF AiInv, AnsweredNow, AdviceHolds
<1>6. QED
  BY <1>1, <1>4, <1>5, PTL DEF ServicesSpec

-----------------------------------------------------------------------------
(* Types: what is left of them.                                            *)

\* A key that is new goes to the end of a dictionary.
LEMMA AppendNew ==
  ASSUME NEW S, NEW s \in Seq(S), IsInjective(s), NEW x \in S, x \notin ToSet(s)
  PROVE  /\ Append(s, x) \in Seq(S) /\ IsInjective(Append(s, x))
         /\ Len(Append(s, x)) = Len(s) + 1
         /\ ToSet(Append(s, x)) = ToSet(s) \cup {x}
         /\ \A i \in DOMAIN s : i \in DOMAIN Append(s, x) /\ Append(s, x)[i] = s[i]
<1> DEFINE n == Len(s)
           t == Append(s, x)
<1>1. n \in Nat /\ DOMAIN s = 1 .. n
  BY LenProperties
<1>2. /\ t \in Seq(S) /\ Len(t) = n + 1 /\ DOMAIN t = 1 .. n + 1
      /\ \A i \in 1 .. n : t[i] = s[i]
      /\ t[n + 1] = x
  BY AppendProperties, LenProperties
<1> HIDE DEF n, t
<1>3. \A i \in DOMAIN t : i \in DOMAIN s \/ i = n + 1
  BY <1>1, <1>2
<1>4. \A i \in DOMAIN s : i \in DOMAIN t /\ s[i] # x
  BY <1>1, <1>2 DEF ToSet
<1>5. IsInjective(t)
  BY <1>1, <1>2, <1>3, <1>4 DEF IsInjective
<1>6. ToSet(t) = ToSet(s) \cup {x}
  BY <1>1, <1>2, <1>3, <1>4 DEF ToSet
<1>7. QED
  BY <1>1, <1>2, <1>4, <1>5, <1>6 DEF n, t

\* The loop is asleep, or at a key of the dictionary.
RpcInv ==
  /\ RpcTypeOK /\ pinned_data \in Seq(Cid)
  /\ pass = Asleep \/ /\ pass = [at |-> pass.at, size |-> pass.size]
                      /\ pass.at \in 1 .. pass.size /\ pass.size \in 1 .. Len(pinned_data)

LEMMA PinnedKeys ==
  ASSUME RpcInv
  PROVE  Len(pinned_data) \in Nat /\ DOMAIN pinned_data = 1 .. Len(pinned_data)
BY LenProperties DEF RpcInv

LEMMA RpcInitInv == RpcInit => RpcInv
<1> SUFFICES ASSUME RpcInit PROVE RpcInv
  OBVIOUS
<1>1. pinned_data = <<>> /\ pinned_data \in Seq(Cid) /\ Len(pinned_data) = 0
  BY DEF RpcInit
<1>2. IsInjective(pinned_data) /\ ToSet(pinned_data) = {}
  BY <1>1 DEF IsInjective, ToSet
<1>3. QED
  BY <1>1, <1>2 DEF RpcInit, RpcInv, RpcTypeOK, Asleep

LEMMA RpcNextInv == RpcInv /\ [RpcNext]_rpcVars => RpcInv'
<1> SUFFICES ASSUME RpcInv, [RpcNext]_rpcVars PROVE RpcInv'
  OBVIOUS
<1> DEFINE n == Len(pinned_data)
<1>1. n \in Nat /\ DOMAIN pinned_data = 1 .. n
  BY PinnedKeys
<1>2. ASSUME UNCHANGED <<pinned_data, pass>>, rpcNow' \in Nat, adding' \subseteq Cid,
             data_providers' = data_providers, providers' = providers,
             rpc_cache' \in [Cid -> Nat], failedAt' = failedAt
      PROVE  RpcInv'
  BY <1>2 DEF RpcInv, RpcTypeOK
<1>3. \A c \in Cid : PinnedBy(c) \subseteq [Cid -> SUBSET Peer]
  BY DEF PinnedBy, RpcInv, RpcTypeOK
<1>4. ASSUME NEW c \in Cid, StoredLocally(c) PROVE RpcInv'
  <2>1. /\ adding' \subseteq Cid /\ providers' \in [Cid -> SUBSET Peer]
        /\ UNCHANGED <<rpcNow, data_providers, rpc_cache, pass, failedAt>>
    BY <1>3, <1>4 DEF StoredLocally, RpcInv, RpcTypeOK
  <2>2. /\ pinned_data' \in Seq(Cid) /\ IsInjective(pinned_data')
        /\ ToSet(pinned_data) \subseteq ToSet(pinned_data') /\ ToSet(pinned_data') \subseteq Cid
        /\ Len(pinned_data') \in Nat /\ n <= Len(pinned_data')
    <3>1. CASE c \in ToSet(pinned_data)
      BY <1>1, <1>4, <3>1 DEF StoredLocally, RpcInv, RpcTypeOK
    <3>2. CASE c \notin ToSet(pinned_data)
      <4>1. pinned_data' = Append(pinned_data, c)
        BY <1>4, <3>2 DEF StoredLocally
      <4>2. pinned_data \in Seq(Cid) /\ IsInjective(pinned_data) /\ ToSet(pinned_data) \subseteq Cid
        BY DEF RpcInv, RpcTypeOK
      <4>3. QED
        BY <1>1, <3>2, <4>1, <4>2, AppendNew
    <3>3. QED
      BY <3>1, <3>2
  <2>3. QED
    BY <1>1, <2>1, <2>2 DEF RpcInv, RpcTypeOK
<1>5. CASE BeginPass
  <2>1. /\ pass' = [at |-> 1, size |-> n] /\ pinned_data # <<>>
        /\ UNCHANGED <<rpcNow, adding, pinned_data, data_providers, providers, rpc_cache, failedAt>>
    BY <1>5 DEF BeginPass
  <2>2. n > 0
    BY <1>1, <2>1, EmptySeq DEF RpcInv
  <2>3. QED
    BY <1>1, <2>1, <2>2 DEF RpcInv, RpcTypeOK
<1>6. CASE CheckProviders
  <2>1. pass.at \in 1 .. pass.size /\ pass.size \in 1 .. n
    BY <1>6 DEF CheckProviders, RpcInv
  <2>2. pinned_data[pass.at] \in ToSet(pinned_data) /\ pinned_data[pass.at] \in Cid
    BY <1>1, <2>1 DEF ToSet, RpcInv, RpcTypeOK
  <2>3. /\ providers' \in [Cid -> SUBSET Peer]
        /\ data_providers' \subseteq ToSet(pinned_data)
        /\ UNCHANGED <<rpcNow, adding, pinned_data, rpc_cache, failedAt>>
    BY <1>3, <1>6, <2>2 DEF CheckProviders, RpcInv, RpcTypeOK
  <2>4. \/ pass' = Asleep
        \/ pass' = [pass EXCEPT !.at = @ + 1] /\ pass.at < pass.size
    BY <1>6 DEF CheckProviders, Advanced
  <2>5. QED
    BY <1>1, <1>6, <2>1, <2>3, <2>4 DEF CheckProviders, RpcInv, RpcTypeOK, Asleep
<1>7. CASE LookupRaises
  <2>1. pass.at \in 1 .. pass.size /\ pass.size \in 1 .. n
    BY <1>7 DEF LookupRaises, RpcInv
  <2>2. pinned_data[pass.at] \in Cid
    BY <1>1, <2>1 DEF RpcInv
  <2>3. QED
    BY <1>1, <1>7, <2>2 DEF LookupRaises, RpcInv, RpcTypeOK, Asleep
<1>8. ASSUME NEW c \in Cid, StoreData(c) \/ StoreRaises(c) \/ RetrieveData(c) PROVE RpcInv'
  BY <1>2, <1>8, RpcAssumption DEF StoreData, StoreRaises, RetrieveData, RpcInv, RpcTypeOK
<1>9. CASE RpcTick
  BY <1>2, <1>9 DEF RpcTick, RpcInv, RpcTypeOK
<1>10. CASE UNCHANGED rpcVars
  BY <1>2, <1>10 DEF rpcVars, RpcInv, RpcTypeOK
<1>11. QED
  BY <1>4, <1>5, <1>6, <1>7, <1>8, <1>9, <1>10 DEF RpcNext, ReplicationStep

-----------------------------------------------------------------------------
\* What a proposal says, at a time.
TermsOk(x, time) ==
  /\ x.proposer \in Node /\ x.created \in 0 .. time
  /\ [quorum |-> x.quorum, threshold |-> x.threshold, period |-> x.period] \in Terms

ProposalsOk ==
  /\ now \in 0 .. MaxTime
  /\ \A p \in Proposal : Made(p) => TermsOk(terms[p], now)
  /\ \A n \in Node : IsInjective(proposals[n])

RolesOk ==
  /\ roles \in [Role -> SUBSET Member]
  /\ approvals \in [Proposal -> [Member -> {"none", "yes", "no"}]]
  /\ freeze_active \in BOOLEAN
  /\ removals \in 0 .. MaxRemovals

LEMMA DaoTypesInit == LolInit => ProposalsOk /\ RolesOk
<1> SUFFICES ASSUME LolInit PROVE ProposalsOk /\ RolesOk
  OBVIOUS
<1>1. ProposalsOk
  BY GovernanceAssumption DEF LolInit, GovInit, ProposalsOk, Made, IsInjective
<1>2. RolesOk
  <2>1. /\ roles = [r \in Role |-> {}] /\ approvals = [p \in Proposal |-> NoApprovals]
        /\ freeze_active = FALSE /\ removals = 0
    BY DEF LolInit
  <2>2. 0 \in 0 .. MaxRemovals
    BY DaoAssumption
  <2>3. NoApprovals \in [Member -> {"none", "yes", "no"}]
    BY DEF NoApprovals
  <2>4. QED
    BY <2>1, <2>2, <2>3 DEF RolesOk
<1>3. QED
  BY <1>1, <1>2

LEMMA StoredOnce ==
  ASSUME DaoInv, ProposalsOk, NEW n \in Node, NEW p \in Proposal,
         proposals' = [proposals EXCEPT ![n] = Stored(n, p)]
  PROVE  \A k \in Node : IsInjective(proposals'[k])
<1>1. proposals[n] \in Seq(Proposal) /\ IsInjective(proposals[n])
  BY DEF DaoInv, GovTypes, ProposalsOk
<1>2. IsInjective(Stored(n, p))
  BY <1>1, AppendNew DEF Stored, Knows
<1>3. proposals'[n] = Stored(n, p) /\ \A k \in Node \ {n} : proposals'[k] = proposals[k]
  BY DEF DaoInv, GovTypes
<1>4. QED
  BY <1>2, <1>3 DEF ProposalsOk

LEMMA ProposalsOkNext == DaoInv /\ ProposalsOk /\ [LolNext]_lolVars => ProposalsOk'
<1> SUFFICES ASSUME DaoInv, ProposalsOk, [LolNext]_lolVars PROVE ProposalsOk'
  OBVIOUS
<1>1. ASSUME UNCHANGED <<now, terms, proposals>> PROVE ProposalsOk'
  BY <1>1 DEF ProposalsOk, Made
<1>2. deployment.nodes \subseteq Node /\ deployment.proposals \subseteq Proposal
  BY DaoAssumption DEF DaoInv, GovTypes
<1>3. ASSUME NEW n \in Node, NEW p \in Proposal, NEW t \in Terms, CreateProposal(n, p, t)
      PROVE  ProposalsOk'
  <2> DEFINE new == [proposer |-> n, created |-> now, quorum |-> t.quorum,
                     threshold |-> t.threshold, period |-> t.period]
  <2>1. /\ terms' = [terms EXCEPT ![p] = new] /\ now' = now
        /\ proposals' = [proposals EXCEPT ![n] = Stored(n, p)]
    BY <1>3 DEF CreateProposal
  <2>2. TermsOk(new, now)
    <3>1. t = [quorum |-> t.quorum, threshold |-> t.threshold, period |-> t.period]
      BY GovernanceAssumption
    <3>2. now \in 0 .. now
      BY DEF ProposalsOk
    <3>3. QED
      BY <3>1, <3>2 DEF TermsOk
  <2> HIDE DEF new
  <2>3. terms'[p] = new /\ \A q \in Proposal \ {p} : terms'[q] = terms[q]
    BY <2>1 DEF DaoInv, GovTypes
  <2>4. QED
    BY <2>1, <2>2, <2>3, StoredOnce DEF ProposalsOk, Made
<1>4. ASSUME NEW n \in Node, NEW p \in Proposal, HandleProposal(n, p)
      PROVE  ProposalsOk'
  BY <1>4, StoredOnce DEF HandleProposal, ProposalsOk, Made
<1>5. CASE GovTick
  <2>1. now \in 0 .. MaxTime /\ now < MaxTime /\ now' = now + 1 /\ MaxTime \in Nat
    BY <1>5, GovernanceAssumption DEF GovTick, ProposalsOk
  <2>2. now' \in 0 .. MaxTime /\ \A x : TermsOk(x, now) => TermsOk(x, now')
    BY <2>1 DEF TermsOk
  <2>3. QED
    BY <1>5, <2>2 DEF GovTick, ProposalsOk, Made
<1>6. ASSUME NEW n \in Node, GovStep(n, deployment.proposals) PROVE ProposalsOk'
  <2>1. ASSUME NEW p, NEW vote, VoteOnProposal(n, p, vote) PROVE ProposalsOk'
    BY <1>1, <2>1 DEF VoteOnProposal
  <2>2. ASSUME NEW c, HandleVote(n, c) PROVE ProposalsOk'
    BY <1>1, <2>2 DEF HandleVote
  <2>3. CASE ProcessReadyProposals(n)
    BY <1>1, <2>3 DEF ProcessReadyProposals
  <2>4. QED
    BY <1>2, <1>3, <1>4, <1>6, <2>1, <2>2, <2>3 DEF GovStep
<1>7. ASSUME NEW p, Announce(p) \/ AnnounceFails(p) PROVE ProposalsOk'
  BY <1>1, <1>7 DEF Announce, AnnounceFails
<1>8. CASE Base
  BY <1>2, <1>5, <1>6, <1>7, <1>8 DEF Base
<1>9. CASE UNCHANGED govVars \/ AdvanceProposalStages
  BY <1>1, <1>9 DEF govVars, AdvanceProposalStages
<1>10. QED
  BY <1>8, <1>9 DEF LolNext, lolVars

LEMMA RolesOkNext == DaoInv /\ RolesOk /\ [LolNext]_lolVars => RolesOk'
<1> SUFFICES ASSUME DaoInv, RolesOk, [LolNext]_lolVars PROVE RolesOk'
  OBVIOUS
<1> USE DEF RolesOk
<1>1. CASE UNCHANGED daoVars
  BY <1>1 DEF daoVars
<1>2. ASSUME NEW m \in Member, NEW r \in Role, AssignRole(m, r) \/ RemoveRole(m, r)
      PROVE  RolesOk'
  BY <1>2, DaoAssumption DEF AssignRole, RemoveRole
<1>3. ASSUME NEW p \in Proposal, NEW m \in Member, NEW reply \in {"yes", "no"},
             Approve(p, m, reply)
      PROVE  RolesOk'
  BY <1>3 DEF Approve
<1>4. ASSUME NEW p, InitStages(p) \/ HandleFreezeProposal(p) PROVE RolesOk'
  BY <1>4 DEF InitStages, HandleFreezeProposal
<1>5. CASE MonitorFreezeProtocol
  BY <1>5 DEF MonitorFreezeProtocol
<1>6. CASE AdvanceProposalStages
  BY <1>6 DEF AdvanceProposalStages, NoApprovals
<1>7. deployment.proposals \subseteq Proposal
  BY DaoAssumption DEF DaoInv, GovTypes
<1>8. QED
  BY <1>1, <1>2, <1>3, <1>4, <1>5, <1>6, <1>7 DEF LolNext, lolVars, Base, LolStep

LEMMA DaoTyped == DaoInv /\ ProposalsOk /\ RolesOk => GovTypeOK /\ LolTypeOK
<1> SUFFICES ASSUME DaoInv, ProposalsOk, RolesOk PROVE GovTypeOK /\ LolTypeOK
  OBVIOUS
<1>1. \A n \in Node : ToSet(proposals[n]) \subseteq Proposal
  BY ElementOfSeq, LenProperties DEF ToSet, DaoInv, GovTypes
<1>2. GovTypeOK
  BY <1>1 DEF GovTypeOK, DaoInv, GovTypes, ProposalsOk, TermsOk, Answer
<1>3. LolTypeOK
  BY DEF LolTypeOK, DaoInv, GovTypes, FreezersApproved, RolesOk
<1>4. QED
  BY <1>2, <1>3

-----------------------------------------------------------------------------
\* Nobody contributed more than everybody together.
CountsOk ==
  /\ contributed \in 0 .. MaxContributions
  /\ contribution_count = [p \in Participant |-> contribution_count[p]]
  /\ \A p \in Participant :
       contribution_count[p] = NotRegistered \/ contribution_count[p] \in 0 .. contributed

LEMMA CountsOkInit == FedInit => CountsOk
BY FedAssumption DEF FedInit, CountsOk

LEMMA CountStep ==
  ASSUME CountsOk, NEW updates \in Seq(Update), CountContributions(updates),
         contributed + Cardinality(Counted(updates)) <= MaxContributions
  PROVE  CountsOk'
<1> DEFINE places == Counted(updates)
           of(p) == {i \in DOMAIN updates : updates[i].from = p}
<1>1. IsFiniteSet(DOMAIN updates)
  BY LenProperties, FS_Interval, 0 \in Int, 1 \in Int
<1>2. places \subseteq DOMAIN updates
      /\ \A p \in Participant : contribution_count[p] # NotRegistered => of(p) \subseteq places
  BY DEF Counted
<1>3. /\ contributed' = contributed + Cardinality(places)
      /\ contribution_count' =
           [p \in Participant |-> IF contribution_count[p] = NotRegistered THEN NotRegistered
                                  ELSE contribution_count[p] + Cardinality(of(p))]
  BY DEF CountContributions
<1>4. contributed + Cardinality(places) <= MaxContributions
  OBVIOUS
<1> HIDE DEF places, of
<1>5. IsFiniteSet(places) /\ Cardinality(places) \in Nat
  BY <1>1, <1>2, FS_Subset, FS_CardinalityType
<1>6. ASSUME NEW p \in Participant, contribution_count[p] # NotRegistered
      PROVE  Cardinality(of(p)) \in 0 .. Cardinality(places)
  <2>1. of(p) \subseteq places
    BY <1>2, <1>6
  <2>2. IsFiniteSet(of(p)) /\ Cardinality(of(p)) <= Cardinality(places)
    BY <1>5, <2>1, FS_Subset
  <2>3. QED
    BY <1>5, <2>2, FS_CardinalityType
<1>7. contributed \in Nat /\ MaxContributions \in Nat
  BY FedAssumption DEF CountsOk
<1>8. contributed' \in 0 .. MaxContributions
  BY <1>3, <1>4, <1>5, <1>7
<1>9. ASSUME NEW p \in Participant
      PROVE  contribution_count'[p] = NotRegistered \/ contribution_count'[p] \in 0 .. contributed'
  <2>1. CASE contribution_count[p] = NotRegistered
    BY <1>3, <2>1
  <2>2. CASE contribution_count[p] # NotRegistered
    <3>1. /\ contribution_count'[p] = contribution_count[p] + Cardinality(of(p))
          /\ contribution_count[p] \in 0 .. contributed
      BY <1>3, <2>2 DEF CountsOk
    <3>2. QED
      BY <1>3, <1>5, <1>6, <1>7, <2>2, <3>1
  <2>3. QED
    BY <2>1, <2>2
<1>10. contribution_count' = [p \in Participant |-> contribution_count'[p]]
  BY <1>3
<1>11. QED
  BY <1>8, <1>9, <1>10 DEF CountsOk

LEMMA CountsOkNext == CountsOk /\ [FedNext]_fedVars => CountsOk'
<1> SUFFICES ASSUME CountsOk, [FedNext]_fedVars PROVE CountsOk'
  OBVIOUS
<1>1. ASSUME UNCHANGED <<contributed, contribution_count>> PROVE CountsOk'
  BY <1>1 DEF CountsOk
<1>2. ASSUME NEW p \in Participant, RegisterParticipant(p) PROVE CountsOk'
  BY <1>2, FedAssumption DEF RegisterParticipant, CountsOk
<1>3. ASSUME NEW updates \in SeqOf(Update, MaxUpdates), SecureAggregate(updates)
      PROVE  CountsOk'
  <2>1. updates \in Seq(Update)
    BY DEF SeqOf
  <2>2. \/ UNCHANGED <<contributed, contribution_count>>
        \/ /\ contributed + Cardinality(Counted(updates)) <= MaxContributions
           /\ CountContributions(updates)
    BY <1>3 DEF SecureAggregate
  <2>3. QED
    BY <1>1, <2>1, <2>2, CountStep
<1>4. CASE Review \/ FedTick \/ (\E p \in Participant : GetCurrentModel(p)) \/ UNCHANGED fedVars
  BY <1>1, <1>4 DEF Review, FedTick, GetCurrentModel, fedVars
<1>5. QED
  BY <1>2, <1>3, <1>4 DEF FedNext

LEMMA FedTyped == FedInv /\ CountsOk => FedTypeOK
<1> SUFFICES ASSUME FedInv, CountsOk PROVE FedTypeOK
  OBVIOUS
<1>1. \A i \in DOMAIN current_model_weights : current_model_weights[i].updates \in Nat
  <2>1. \A i \in DOMAIN current_model_weights : current_model_weights[i] \in Weight
    BY LenProperties, ElementOfSeq DEF FedInv, RoundsTypes
  <2>2. QED
    BY <2>1 DEF Weight
<1>2. \A p \in Participant :
        contribution_count[p] = NotRegistered \/ contribution_count[p] \in 0 .. MaxContributions
  BY FedAssumption DEF CountsOk
<1>3. /\ fedNow \in Nat /\ approvedUntil \in 0 .. fedNow /\ isApproved \in BOOLEAN
      /\ ethics.approved \in BOOLEAN /\ ethics.checked \in Nat
  BY DEF FedInv, ApprovalKnown
<1>4. QED
  BY <1>1, <1>2, <1>3 DEF FedTypeOK, FedInv, RoundsTypes, CountsOk

-----------------------------------------------------------------------------
\* Every call for a message is one of those that were made.
CallsOk ==
  /\ handed \in [Message -> 0 .. MaxHanded]
  /\ storing \in [Channel \X Message -> Nat] /\ finished \in [Channel \X Message -> Nat]
  /\ \A c \in Channel, m \in Message : storing[<<c, m>>] + finished[<<c, m>>] <= handed[m]
  /\ \A m \in DOMAIN shown : shown[m] \in Nat

FilesOk ==
  /\ retention \in RetentionConfig /\ ipfsConfig \in IpfsConfig
  /\ fileAt \in [File -> {"new", "adding", "pinning", "describing", "stored", "raised"}]
  /\ withMetadata \in [File -> BOOLEAN]
  /\ added \subseteq File /\ pinned \subseteq File /\ described \subseteq File

LEMMA CallsOkInit == MsgInit => CallsOk /\ FilesOk
BY RetentionAssumption DEF MsgInit, CallsOk, FilesOk

LEMMA CallsOkStep ==
  ASSUME MsgsInv, CallsOk, NEW c \in Channel, NEW m \in Message,
         StoreMessage(c, m) \/ MessageUploaded(c, m) \/ MessageUploadRaises(c, m)
  PROVE  CallsOk'
<1> USE RetentionAssumption
<1>1. /\ handed' \in [Message -> 0 .. MaxHanded]
      /\ storing' \in [Channel \X Message -> Nat] /\ finished' \in [Channel \X Message -> Nat]
      /\ shown' = shown
  <2>1. CASE StoreMessage(c, m)
    BY <2>1 DEF StoreMessage, CallsOk
  <2>2. CASE MessageUploaded(c, m)
    BY <2>2 DEF MessageUploaded, CallsOk
  <2>3. CASE MessageUploadRaises(c, m)
    BY <2>3 DEF MessageUploadRaises, CallsOk
  <2>4. QED
    BY <2>1, <2>2, <2>3
<1>2. \A d \in Channel, k \in Message :
        d # c \/ k # m => /\ storing'[<<d, k>>] = storing[<<d, k>>]
                          /\ finished'[<<d, k>>] = finished[<<d, k>>]
  BY DEF StoreMessage, MessageUploaded, MessageUploadRaises, CallsOk
<1>3. /\ \A k \in Message : handed[k] \in Nat /\ handed'[k] \in Nat /\ handed[k] <= handed'[k]
      /\ storing'[<<c, m>>] + finished'[<<c, m>>] <= handed'[m]
  BY DEF StoreMessage, MessageUploaded, MessageUploadRaises, CallsOk
<1>4. ASSUME NEW d \in Channel, NEW k \in Message
      PROVE  storing'[<<d, k>>] + finished'[<<d, k>>] <= handed'[k]
  <2>1. CASE d # c \/ k # m
    <3>1. /\ storing[<<d, k>>] \in Nat /\ finished[<<d, k>>] \in Nat
          /\ storing[<<d, k>>] + finished[<<d, k>>] <= handed[k]
      BY DEF CallsOk
    <3>2. QED
      BY <1>2, <1>3, <2>1, <3>1
  <2>2. QED
    BY <1>3, <2>1
<1>5. QED
  BY <1>1, <1>4 DEF CallsOk

LEMMA MsgTypesNext ==
  MsgInv /\ CallsOk /\ FilesOk /\ ([MsgNext]_msgVars \/ [FileNext]_msgVars) => CallsOk' /\ FilesOk'
<1> SUFFICES ASSUME MsgInv, CallsOk, FilesOk, [MsgNext]_msgVars \/ [FileNext]_msgVars
             PROVE  CallsOk' /\ FilesOk'
  OBVIOUS
<1>1. ASSUME UNCHANGED <<handed, storing, finished, shown>> PROVE CallsOk'
  BY <1>1 DEF CallsOk
<1>2. ASSUME UNCHANGED <<msgConfig, fileVars>> PROVE FilesOk'
  BY <1>2 DEF FilesOk, msgConfig, fileVars
<1>3. ASSUME NEW c \in Channel, NEW m \in Message,
             StoreMessage(c, m) \/ MessageUploaded(c, m) \/ MessageUploadRaises(c, m)
      PROVE  CallsOk' /\ FilesOk'
  <2>1. CallsOk'
    BY <1>3, CallsOkStep DEF MsgInv
  <2>2. QED
    BY <1>2, <1>3, <2>1 DEF StoreMessage, MessageUploaded, MessageUploadRaises
<1>4. ASSUME NEW c \in Channel, NEW wanted \in SUBSET Message, GetMessages(c, wanted)
      PROVE  CallsOk' /\ FilesOk'
  <2>1. \A m \in Message : Decrypted(channels[c][m], m) \in Nat
    BY DEF Decrypted, MsgInv, MsgsInv
  <2>2. \A m \in DOMAIN shown' : shown'[m] \in Nat
    BY <1>4, <2>1 DEF GetMessages
  <2>3. QED
    BY <1>2, <1>4, <2>2 DEF GetMessages, CallsOk
<1>5. CASE MsgTick \/ UNCHANGED msgVars
  BY <1>1, <1>2, <1>5 DEF MsgTick, msgVars, messageVars
<1>6. CASE FileNext
  <2>1. UNCHANGED <<msgConfig, messageVars>>
    BY <1>6 DEF FileNext, StoreFile, FileStep
  <2>2. PICK f \in File : StoreFile(f) \/ FileStep(f)
    BY <1>6 DEF FileNext
  <2>3. /\ \E at \in {"adding", "pinning", "describing", "stored", "raised"} :
             fileAt' = [fileAt EXCEPT ![f] = at]
        /\ \E given \in BOOLEAN : withMetadata' = [withMetadata EXCEPT ![f] = given]
        /\ added' \subseteq File /\ pinned' \subseteq File /\ described' \subseteq File
    <3>1. CASE StoreFile(f)
      BY <3>1 DEF StoreFile, FilesOk
    <3>2. CASE FileStep(f)
      BY <3>2 DEF FileStep, IpfsCall, Following, FilesOk
    <3>3. QED
      BY <2>2, <3>1, <3>2
  <2>4. FilesOk'
    BY <2>1, <2>3 DEF FilesOk, msgConfig
  <2>5. QED
    BY <1>1, <2>1, <2>4 DEF messageVars
<1>7. QED
  BY <1>3, <1>4, <1>5, <1>6 DEF MsgNext

LEMMA MsgTyped == MsgInv /\ CallsOk /\ FilesOk => MsgTypeOK
<1> SUFFICES ASSUME MsgInv, CallsOk, FilesOk PROVE MsgTypeOK
  OBVIOUS
<1>1. ASSUME NEW cm \in Channel \X Message
      PROVE  storing[cm] \in 0 .. MaxHanded /\ finished[cm] \in 0 .. MaxHanded
  <2>1. PICK c \in Channel, m \in Message : cm = <<c, m>>
    OBVIOUS
  <2>2. /\ storing[cm] \in Nat /\ finished[cm] \in Nat /\ handed[m] \in 0 .. MaxHanded
        /\ storing[cm] + finished[cm] <= handed[m]
    BY <2>1 DEF CallsOk
  <2>3. QED
    BY <2>2, RetentionAssumption
<1>2. /\ storing \in [Channel \X Message -> 0 .. MaxHanded]
      /\ finished \in [Channel \X Message -> 0 .. MaxHanded]
  BY <1>1 DEF CallsOk
<1>3. QED
  BY <1>2 DEF MsgTypeOK, MsgInv, MsgsInv, CallsOk, FilesOk

-----------------------------------------------------------------------------
AgesOk ==
  /\ age \in [BatchModel -> 0 .. MaxLatency]
  /\ \A e \in executing : e.messages \subseteq InferenceRequest

LEMMA AgesOkInit == IotaInit => AgesOk
BY BatchAssumption DEF IotaInit, AgesOk

LEMMA AgesOkStep ==
  ASSUME AgesOk, NEW m \in BatchModel, NEW who, NEW ended,
         NEW batch \in Seq(InferenceRequest) \cup {NoBatch},
         ExecuteBatch(who, m, batch, ended)
  PROVE  AgesOk'
<1>1. batch # NoBatch => ToSet(batch) \subseteq InferenceRequest
  BY ElementOfSeq, LenProperties DEF ToSet
<1>2. /\ age' \in {age, [age EXCEPT ![m] = 0]}
      /\ \/ executing' = executing
         \/ /\ batch # NoBatch
            /\ executing' = executing \cup {[by |-> who, model |-> m, messages |-> ToSet(batch)]}
  BY DEF ExecuteBatch, ShouldExecuteBatch, Replace
<1>3. age' \in [BatchModel -> 0 .. MaxLatency]
  BY <1>2, BatchAssumption DEF AgesOk
<1>4. \A e \in executing' : e.messages \subseteq InferenceRequest
  <2>1. [by |-> who, model |-> m, messages |-> ToSet(batch)].messages = ToSet(batch)
    OBVIOUS
  <2>2. QED
    BY <1>1, <1>2, <2>1 DEF AgesOk
<1>5. QED
  BY <1>3, <1>4 DEF AgesOk

LEMMA AgesOkNext == IotaInv /\ AgesOk /\ [IotaNext]_iotaVars => AgesOk'
<1> SUFFICES ASSUME IotaInv, AgesOk, [IotaNext]_iotaVars PROVE AgesOk'
  OBVIOUS
<1>1. /\ \A r \in InferenceRequest : modelOf[r] \in BatchModel
      /\ \A m \in BatchModel : batches[m] \in Seq(InferenceRequest) \cup {NoBatch}
  BY BatchAssumption DEF IotaInv
<1>2. ASSUME NEW r \in InferenceRequest, AddRequest(r) PROVE AgesOk'
  BY <1>1, <1>2, BatchAssumption DEF AddRequest, AgesOk
<1>3. ASSUME NEW r \in InferenceRequest, RequestSent(r) PROVE AgesOk'
  <2> DEFINE m == modelOf[r]
             ended == [adds EXCEPT ![r] = "done"]
  <2>1. CASE adds[r] = "sending" /\ ExecuteBatch(r, m, Append(batches[m], r), ended)
    <3>1. batches[m] \in Seq(InferenceRequest)
      BY <1>1, <2>1 DEF IotaInv
    <3>2. Append(batches[m], r) \in Seq(InferenceRequest) \cup {NoBatch}
      BY <3>1, AppendProperties
    <3> HIDE DEF ended
    <3>3. QED
      BY <1>1, <2>1, <3>2, AgesOkStep
  <2>2. CASE adds[r] = "sending to a replaced batch" /\ ExecuteBatch(r, m, batches[m], ended)
    <3> HIDE DEF ended
    <3>1. QED
      BY <1>1, <2>2, AgesOkStep
  <2>3. QED
    BY <1>3, <2>1, <2>2 DEF RequestSent
<1>4. ASSUME NEW r \in InferenceRequest, RequestRaises(r) PROVE AgesOk'
  BY <1>4 DEF RequestRaises, AgesOk
<1>5. ASSUME NEW e \in executing, ExecutionEnds(e) PROVE AgesOk'
  <2> DEFINE m == e.model
  <2>1. age' = [age EXCEPT ![m] = 0] /\ executing' \subseteq executing
    BY <1>5 DEF ExecutionEnds, Replace
  <2> HIDE DEF m
  <2>2. age \in [BatchModel -> 0 .. MaxLatency] /\ 0 \in 0 .. MaxLatency
    BY BatchAssumption DEF AgesOk
  <2>3. age' \in [BatchModel -> 0 .. MaxLatency]
    BY <2>1, <2>2
  <2>4. QED
    BY <2>1, <2>3 DEF AgesOk
<1>6. CASE ProcessBatches
  <2>1. \/ UNCHANGED <<age, executing>>
        \/ \E m \in checking : ExecuteBatch(Loop, m, batches[m], adds)
    BY <1>6 DEF ProcessBatches
  <2>2. QED
    BY <1>1, <2>1, AgesOkStep DEF IotaInv, AgesOk
<1>7. CASE LatencyTick
  BY <1>7, BatchAssumption DEF LatencyTick, AgesOk
<1>8. CASE UNCHANGED iotaVars
  BY <1>8 DEF iotaVars, AgesOk
<1>9. QED
  BY <1>2, <1>3, <1>4, <1>5, <1>6, <1>7, <1>8 DEF IotaNext

LEMMA IotaTyped == IotaInv /\ AgesOk => IotaTypeOK
<1> SUFFICES ASSUME IotaInv, AgesOk PROVE IotaTypeOK
  OBVIOUS
<1>1. \A m \in BatchModel : batches[m] = NoBatch \/ ToSet(batches[m]) \subseteq InferenceRequest
  BY BatchedRequests DEF InBatch
<1>2. QED
  BY <1>1 DEF IotaTypeOK, IotaInv, AgesOk

-----------------------------------------------------------------------------
\* A model of the store with the whole of its fields, written at most once by every
\* transaction and once before.
ModelOk(x, last) ==
  DOMAIN x.data = Field /\ x.isActive \in BOOLEAN /\ x.writes \in 1 .. last + 1

StoreOk ==
  /\ store \in BOOLEAN /\ storeModels \in Seq(MarketModel)
  /\ \A m \in MarketModel :
       Registered(m) => ModelOk(models[m], mined) /\ m \in ToSet(storeModels)

\* What is to be written has all fields.
CarriesFields(x) ==
  x.call.op \in {"register_model", "update_model"} =>
    x.call.model \in MarketModel /\ DOMAIN x.data = Field

CarriedOk ==
  /\ sent <= MaxMined
  /\ \A p \in Process : calls[p].at \in {"ready", "built"} => CarriesFields(calls[p])
  /\ pendingTx # NoTx => CarriesFields(pendingTx)
  /\ \A x \in fused : x.tx \in 1 .. MaxMined

LEMMA StoreOkInit == FusInit => StoreOk /\ CarriedOk
<1> SUFFICES ASSUME FusInit PROVE StoreOk /\ CarriedOk
  OBVIOUS
<1>1. CarriedOk
  BY MarketAssumption DEF FusInit, MktInit, CarriedOk, Idle
<1>2. mined = 0
  BY DEF FusInit, MktInit
<1>3. CASE store = FALSE /\ storeModels = <<>> /\ models = [m \in MarketModel |-> NoModelYet]
  <2>1. storeModels \in Seq(MarketModel) /\ store \in BOOLEAN
    BY <1>3, EmptySeq
  <2>2. \A m \in MarketModel : ~Registered(m)
    BY <1>3 DEF Registered
  <2>3. QED
    BY <1>1, <2>1, <2>2 DEF StoreOk
<1>4. ASSUME NEW m \in MarketModel, store = TRUE, storeModels = <<m>>,
             models = [x \in MarketModel |->
               IF x = m THEN [data |-> [f \in Field |-> Empty], isActive |-> TRUE, writes |-> 1]
               ELSE NoModelYet]
      PROVE  StoreOk
  <2>1. storeModels \in Seq(MarketModel) /\ m \in ToSet(storeModels)
    BY <1>4 DEF ToSet
  <2>2. ModelOk(models[m], mined)
    <3>1. models[m] = [data |-> [f \in Field |-> Empty], isActive |-> TRUE, writes |-> 1]
      BY <1>4
    <3>2. 1 \in 1 .. mined + 1
      BY <1>2
    <3>3. QED
      BY <3>1, <3>2 DEF ModelOk
  <2>3. \A x \in MarketModel : Registered(x) => x = m
    BY <1>4 DEF Registered
  <2>4. QED
    BY <1>4, <2>1, <2>2, <2>3 DEF StoreOk
<1>5. QED
  BY <1>1, <1>3, <1>4 DEF FusInit, MktInit

\* The call of one process changes.
LEMMA CarriedFrame ==
  ASSUME FusInv, CarriedOk, NEW p \in Process, NEW new,
         new.at \in {"ready", "built"} => CarriesFields(new),
         calls' = [calls EXCEPT ![p] = new],
         UNCHANGED <<pendingTx, sent, fused>>
  PROVE  CarriedOk'
<1>1. \A q \in Process : calls'[q] = IF q = p THEN new ELSE calls[q]
  BY DEF FusInv, CallsInv
<1>2. QED
  BY <1>1 DEF CarriedOk

LEMMA ClientCarries ==
  ASSUME FusInv, StoreOk, CarriedOk, NEW p \in Process,
         \/ /\ ClientStep(p) \/ \E c \in MarketCall : Call(p, c)
            /\ UNCHANGED fused
         \/ FusionReturns(p)
         \/ \E c \in FusionCall : FusionRequest(p, c)
  PROVE  CarriedOk'
<1>1. ASSUME NEW c \in MarketCall, Call(p, c), UNCHANGED fused PROVE CarriedOk'
  <2> DEFINE new == [at |-> IF c.op = "update_model" THEN "called" ELSE "ready", call |-> c,
                     data |-> c.given, read |-> 0]
  <2>1. calls' = [calls EXCEPT ![p] = new] /\ UNCHANGED <<pendingTx, sent, fused>>
    BY <1>1 DEF Call
  <2>2. new.at \in {"ready", "built"} => CarriesFields(new)
    BY MarketAssumption DEF CarriesFields
  <2> HIDE DEF new
  <2>3. QED
    BY <2>1, <2>2, CarriedFrame
<1>2. ASSUME NEW c \in FusionCall, FusionRequest(p, c) PROVE CarriedOk'
  <2> DEFINE new == [at |-> "ready", call |-> c, data |-> <<>>, read |-> 0]
  <2>1. calls' = [calls EXCEPT ![p] = new] /\ UNCHANGED <<pendingTx, sent, fused>>
    BY <1>2 DEF FusionRequest
  <2>2. CarriesFields(new)
    BY FusionAssumption DEF CarriesFields, FusionOp
  <2> HIDE DEF new
  <2>3. QED
    BY <2>1, <2>2, CarriedFrame
<1>3. ASSUME ReadModel(p), UNCHANGED fused PROVE CarriedOk'
  <2> DEFINE x == calls[p]
             merged == Merged(models[x.call.model].data, x.call.given)
             writes == models[x.call.model].writes
             new == [x EXCEPT !.at = "ready", !.read = writes, !.data = merged]
  <2>1. /\ x.at = "called"
        /\ calls' = [calls EXCEPT ![p].at = "ready", ![p].read = writes, ![p].data = merged]
        /\ UNCHANGED <<pendingTx, sent, fused>>
    BY <1>3 DEF ReadModel
  <2>2. /\ {"at", "call", "data", "read"} \subseteq DOMAIN x /\ x.call.model \in MarketModel
    BY <2>1 DEF FusInv, CallsInv, CallOk
  <2>3. DOMAIN merged = Field
    BY DEF Merged
  <2>4. calls' = [calls EXCEPT ![p] = new]
    BY <2>1 DEF FusInv, CallsInv
  <2> HIDE DEF merged, writes
  <2>5. new.call = x.call /\ new.data = merged
    BY <2>2
  <2>6. CarriesFields(new)
    BY <2>2, <2>3, <2>5 DEF CarriesFields
  <2> HIDE DEF new
  <2>7. QED
    BY <2>1, <2>4, <2>6, CarriedFrame
<1>4. ASSUME BuildTransaction(p), UNCHANGED fused PROVE CarriedOk'
  <2> DEFINE new == [at |-> "built", call |-> calls[p].call, data |-> calls[p].data,
                     read |-> calls[p].read, nonce |-> mined]
  <2>1. /\ calls[p].at = "ready" /\ calls' = [calls EXCEPT ![p] = new]
        /\ UNCHANGED <<pendingTx, sent, fused>>
    BY <1>4 DEF BuildTransaction
  <2>2. CarriesFields(new)
    BY <2>1 DEF CarriedOk, CarriesFields
  <2> HIDE DEF new
  <2>3. QED
    BY <2>1, <2>2, CarriedFrame
<1>5. ASSUME SendRawTransaction(p), UNCHANGED fused PROVE CarriedOk'
  <2> DEFINE t == [tx |-> sent + 1, by |-> p, call |-> calls[p].call, data |-> calls[p].data,
                   read |-> calls[p].read]
             new == [at |-> "sent", call |-> calls[p].call, tx |-> sent + 1]
  <2>1. /\ calls[p].at = "built" /\ sent < MaxMined /\ sent' = sent + 1 /\ pendingTx' = t
        /\ calls' = [calls EXCEPT ![p] = new] /\ fused' = fused
    BY <1>5 DEF SendRawTransaction
  <2>2. CarriesFields(t) /\ new.at = "sent"
    BY <2>1 DEF CarriedOk, CarriesFields
  <2> HIDE DEF t, new
  <2>3. \A q \in Process : calls'[q] = IF q = p THEN new ELSE calls[q]
    BY <2>1 DEF FusInv, CallsInv
  <2>4. sent' <= MaxMined
    BY <2>1, MarketAssumption DEF FusInv, ChainInv
  <2>5. QED
    BY <2>1, <2>2, <2>3, <2>4 DEF CarriedOk
<1>6. ASSUME \/ (CallFails(p) \/ CallReturns(p) \/ ReceiptTimesOut(p)) /\ UNCHANGED fused
             \/ FusionReturns(p)
      PROVE  CarriedOk'
  <2>1. calls' = [calls EXCEPT ![p] = Idle] /\ UNCHANGED <<pendingTx, sent, fused>>
    BY <1>6 DEF CallFails, CallReturns, ReceiptTimesOut, FusionReturns
  <2>2. Idle.at = "idle"
    BY DEF Idle
  <2>3. QED
    BY <2>1, <2>2, CarriedFrame
<1>7. QED
  BY <1>1, <1>2, <1>3, <1>4, <1>5, <1>6 DEF ClientStep

\* A transaction is mined: what it writes has all fields, and counts.
LEMMA ExecuteKeepsStore ==
  ASSUME FusInv, StoreOk, CarriedOk, Mine
  PROVE  StoreOk'
<1> DEFINE t == pendingTx
           m == t.call.model
<1>1. PICK ok \in Accepts(t) :
        /\ IsMined(t, ok)
        /\ IF ok THEN Execute(t) ELSE UNCHANGED <<store, storeModels, models>>
  BY DEF Mine
<1>2. t # NoTx /\ t.call.op \in MarketOp /\ CarriesFields(t)
  BY DEF Mine, CarriedOk
<1>3. mined \in Nat /\ mined' = mined + 1
  BY <1>1 DEF IsMined, FusInv, ChainInv
<1>4. \A x : ModelOk(x, mined) => ModelOk(x, mined')
  BY <1>3 DEF ModelOk
<1>5. CASE UNCHANGED <<store, storeModels, models>>
  BY <1>4, <1>5 DEF StoreOk, Registered
<1>6. CASE ok /\ Execute(t)
  <2>1. store' \in BOOLEAN
    BY <1>6 DEF Execute, StoreOk
  <2>2. ASSUME storeModels' = storeModels, models' = models PROVE StoreOk'
    BY <1>4, <2>1, <2>2 DEF StoreOk, Registered
  <2>3. ASSUME m \in MarketModel, NEW new, models' = [models EXCEPT ![m] = new],
               ModelOk(new, mined'), Registered(m), storeModels' = storeModels
        PROVE  StoreOk'
    <3>1. \A k \in MarketModel : models'[k] = IF k = m THEN new ELSE models[k]
      BY <2>3 DEF FusInv, ModelsInv
    <3> HIDE DEF t, m
    <3>2. QED
      BY <1>4, <2>1, <2>3, <3>1 DEF StoreOk, Registered
  <2>4. CASE t.call.op = "register_model"
    <3> DEFINE new == [data |-> t.data, isActive |-> TRUE, writes |-> Writes(m) + 1]
    <3>1. /\ models' = [models EXCEPT ![m] = new] /\ storeModels' = Append(storeModels, m)
          /\ m \in MarketModel /\ DOMAIN t.data = Field
      BY <1>2, <1>6, <2>4 DEF Execute, CarriesFields
    <3>2. Writes(m) \in 0 .. mined + 1
      BY <1>3, <3>1 DEF StoreOk, ModelOk, Writes
    <3>3. ModelOk(new, mined')
      BY <1>3, <3>1, <3>2 DEF ModelOk
    <3> HIDE DEF new
    <3>4. \A k \in MarketModel : models'[k] = IF k = m THEN new ELSE models[k]
      BY <3>1 DEF FusInv, ModelsInv
    <3>5. /\ storeModels' \in Seq(MarketModel)
          /\ ToSet(storeModels') = ToSet(storeModels) \cup {m}
      <4>1. storeModels \in Seq(MarketModel)
        BY DEF StoreOk
      <4> HIDE DEF t, m
      <4>2. QED
        BY <3>1, <4>1, AppendProperties, LenProperties DEF ToSet
    <3> HIDE DEF t, m
    <3>6. QED
      BY <1>4, <2>1, <3>3, <3>4, <3>5 DEF StoreOk, Registered
  <2>5. CASE t.call.op = "update_model"
    <3> DEFINE new == [models[m] EXCEPT !.data = t.data, !.writes = @ + 1]
    <3>1. Registered(m) /\ m \in MarketModel /\ DOMAIN t.data = Field
      BY <1>1, <1>2, <1>6, <2>5 DEF Accepts, CarriesFields
    <3>2. /\ models' = [models EXCEPT ![m].data = t.data, ![m].writes = @ + 1]
          /\ storeModels' = storeModels
      BY <1>6, <2>5 DEF Execute
    <3>3. models' = [models EXCEPT ![m] = new]
      BY <3>1, <3>2 DEF FusInv, ModelsInv
    <3>4. ModelWritten(models[m]) /\ ModelOk(models[m], mined)
      BY <3>1 DEF FusInv, ModelsInv, StoreOk
    <3>5. /\ new.data = t.data /\ new.isActive = models[m].isActive
          /\ new.writes = models[m].writes + 1
      BY <3>4 DEF ModelWritten
    <3> HIDE DEF new
    <3>6. ModelOk(new, mined')
      BY <1>3, <3>1, <3>4, <3>5 DEF ModelOk
    <3>7. QED
      BY <2>3, <3>1, <3>2, <3>3, <3>6
  <2>6. CASE t.call.op = "deactivate_model"
    <3> DEFINE new == [models[m] EXCEPT !.isActive = FALSE]
    <3>1. Registered(m) /\ storeModels' = storeModels
          /\ models' = [models EXCEPT ![m].isActive = FALSE]
      BY <1>1, <1>6, <2>6 DEF Accepts, Execute
    <3>2. CASE m \notin MarketModel
      <4>1. models' = models
        BY <3>1, <3>2 DEF FusInv, ModelsInv
      <4>2. QED
        BY <2>2, <3>1, <4>1
    <3>3. CASE m \in MarketModel
      <4>1. models' = [models EXCEPT ![m] = new]
        BY <3>1, <3>3 DEF FusInv, ModelsInv
      <4>2. ModelWritten(models[m]) /\ ModelOk(models[m], mined)
        BY <3>1, <3>3 DEF FusInv, ModelsInv, StoreOk
      <4>3. /\ new.data = models[m].data /\ new.isActive = FALSE
            /\ new.writes = models[m].writes
        BY <4>2 DEF ModelWritten
      <4> HIDE DEF new
      <4>4. ModelOk(new, mined)
        BY <4>2, <4>3 DEF ModelOk
      <4>5. QED
        BY <1>4, <2>3, <3>1, <3>3, <4>1, <4>4
    <3>4. QED
      BY <3>2, <3>3
  <2>7. CASE t.call.op \in {"create_store", "update_store", "use_model"}
    <3>1. storeModels' = storeModels /\ models' = models
      BY <1>6, <2>7 DEF Execute
    <3>2. QED
      BY <2>2, <3>1
  <2>8. QED
    BY <1>2, <2>4, <2>5, <2>6, <2>7 DEF MarketOp
<1>7. QED
  BY <1>1, <1>5, <1>6

LEMMA MinedCarries ==
  ASSUME FusInv, CarriedOk, (Mine /\ UNCHANGED fused) \/ MineFusion
  PROVE  CarriedOk'
<1> DEFINE t == pendingTx
<1>1. /\ t # NoTx /\ sent' = sent /\ pendingTx' = NoTx
      /\ calls' = IF calls[t.by].at = "sent" /\ calls[t.by].tx = t.tx
                  THEN [calls EXCEPT ![t.by].at = "mined"] ELSE calls
  BY DEF Mine, MineFusion, IsMined
<1>2. t.by \in Process /\ t.tx \in 1 .. sent /\ sent \in Nat
  BY <1>1 DEF FusInv, ChainInv
<1>3. \A x \in fused' : x.tx \in 1 .. MaxMined
  <2>1. \A x \in fused' \ fused : x.tx = t.tx
    BY DEF MineFusion
  <2>2. t.tx \in 1 .. MaxMined
    BY <1>2, MarketAssumption DEF CarriedOk
  <2>3. QED
    BY <2>1, <2>2 DEF CarriedOk
<1>4. ASSUME NEW q \in Process, calls'[q].at \in {"ready", "built"} PROVE calls'[q] = calls[q]
  <2>1. CASE q = t.by /\ calls' = [calls EXCEPT ![t.by].at = "mined"]
    <3>1. "at" \in DOMAIN calls[q] /\ calls'[q] = [calls[q] EXCEPT !.at = "mined"]
      BY <2>1 DEF FusInv, CallsInv, CallOk
    <3>2. calls'[q].at = "mined"
      BY <3>1
    <3>3. QED
      BY <1>4, <3>2
  <2>2. QED
    BY <1>1, <1>2, <2>1 DEF FusInv, CallsInv
<1>5. QED
  BY <1>1, <1>3, <1>4 DEF CarriedOk

LEMMA StoreOkNext ==
  FusInv /\ StoreOk /\ CarriedOk /\ ([FusNext]_fusVars \/ [CompatNext]_fusVars)
    => StoreOk' /\ CarriedOk'
<1> SUFFICES ASSUME FusInv, StoreOk, CarriedOk, [FusNext]_fusVars \/ [CompatNext]_fusVars
             PROVE  StoreOk' /\ CarriedOk'
  OBVIOUS
<1>1. ASSUME UNCHANGED <<store, storeModels, models, mined>> PROVE StoreOk'
  BY <1>1 DEF StoreOk, Registered
<1>2. ASSUME NEW p \in Process,
             \/ /\ ClientStep(p) \/ \E c \in MarketCall : Call(p, c)
                /\ UNCHANGED fused
             \/ FusionReturns(p)
             \/ \E c \in FusionCall : FusionRequest(p, c)
      PROVE  StoreOk' /\ CarriedOk'
  <2>1. UNCHANGED <<store, storeModels, models, mined>>
    BY <1>2 DEF ClientStep, Call, FusionReturns, FusionRequest, ReadModel, CallFails,
       BuildTransaction, SendRawTransaction, CallReturns, ReceiptTimesOut
  <2>2. QED
    BY <1>1, <1>2, <2>1, ClientCarries
<1>3. CASE Mine /\ UNCHANGED fused
  BY <1>3, ExecuteKeepsStore, MinedCarries
<1>4. CASE MineFusion
  <2>1. UNCHANGED <<store, storeModels, models>> /\ mined' = mined + 1 /\ mined \in Nat
    BY <1>4 DEF MineFusion, IsMined, FusInv, ChainInv
  <2>2. \A x : ModelOk(x, mined) => ModelOk(x, mined')
    BY <2>1 DEF ModelOk
  <2>3. QED
    BY <1>4, <2>1, <2>2, MinedCarries DEF StoreOk, Registered
<1>5. CASE UNCHANGED <<mktVars, fused>>
  BY <1>1, <1>5 DEF mktVars, CarriedOk
<1>6. QED
  BY <1>2, <1>3, <1>4, <1>5 DEF FusNext, MktNext, CompatNext, CheckCompatibility, fusVars

LEMMA AccountTyped ==
  FusInv /\ StoreOk /\ CarriedOk /\ FairInv => MktTypeOK /\ FusTypeOK
<1> SUFFICES ASSUME FusInv, StoreOk, CarriedOk, FairInv PROVE MktTypeOK /\ FusTypeOK
  OBVIOUS
<1>1. mined \in 0 .. sent
  <2>1. /\ mined \in Nat /\ sent \in Nat /\ Txs \subseteq 1 .. sent /\ Cardinality(Txs) = mined
    BY DEF FusInv, ChainInv
  <2>2. IsFiniteSet(1 .. sent) /\ Cardinality(1 .. sent) = sent
    <3>1. 1 \in Int /\ sent \in Int
      BY <2>1
    <3>2. Cardinality(1 .. sent) = IF 1 > sent THEN 0 ELSE sent - 1 + 1
      BY <3>1, FS_Interval
    <3>3. QED
      BY <2>1, <3>1, <3>2, FS_Interval
  <2>3. Cardinality(Txs) <= Cardinality(1 .. sent)
    BY <2>1, <2>2, FS_Subset
  <2>4. QED
    BY <2>1, <2>2, <2>3
<1>2. mined \in 0 .. MaxMined /\ sent \in mined .. MaxMined
  BY <1>1, MarketAssumption DEF FusInv, ChainInv, CarriedOk
<1>3. \A p \in Process : calls[p].at \in {"idle", "called", "ready", "built", "sent", "mined"}
  BY DEF FusInv, CallsInv, CallOk
<1>4. ToSet(storeModels) \subseteq MarketModel
  BY ElementOfSeq, LenProperties DEF ToSet, StoreOk
<1>5. MktTypeOK
  BY <1>2, <1>3, <1>4 DEF MktTypeOK, StoreOk, ModelOk
<1>6. compatibility.score \in 0 .. 100
  <2> DEFINE infos == compatibility.of
  <2>1. IsFiniteSet(DOMAIN infos)
    <3>1. Len(infos) \in Nat /\ DOMAIN infos = 1 .. Len(infos)
      BY LenProperties DEF FairInv
    <3>2. 1 \in Int /\ Len(infos) \in Int
      BY <3>1
    <3>3. QED
      BY <3>1, <3>2, FS_Interval
  <2>2. compatibility.score \in Nat
    BY <2>1, LinksFinite DEF FairInv
  <2>3. \E raw : compatibility.score = IF raw > 100 THEN 100 ELSE raw
    BY DEF FairInv, CompatibilityScore
  <2>4. QED
    BY <2>2, <2>3
<1>7. QED
  BY <1>5, <1>6 DEF FusTypeOK, CarriedOk

-----------------------------------------------------------------------------
\* Everybody prefers some types, and what was chosen is listed.
ChoicesOk ==
  /\ user_preferences = [u \in User |-> user_preferences[u]]
  /\ \A u \in User :
       /\ "preferred_model_types" \in DOMAIN user_preferences[u]
       /\ user_preferences[u].preferred_model_types \subseteq ArchWord
  /\ suggesting.chosen \subseteq Ids(catalogue)
  /\ answer.kind \in {"none", "models", "pairs", "connections"}

LEMMA ChoicesOkInit == AiInit => ChoicesOk
BY DEF AiInit, ChoicesOk, NotSuggesting, NoAnswer

LEMMA PreferenceStep ==
  ASSUME ChoicesOk, NEW u \in User, NEW given \in Preference, StoreUserPreference(u, given)
  PROVE  ChoicesOk'
<1> DEFINE new == [k \in DOMAIN given \cup DOMAIN user_preferences[u] |->
                    IF k \in DOMAIN given THEN given[k] ELSE user_preferences[u][k]]
<1>1. /\ user_preferences' = [user_preferences EXCEPT ![u] = new]
      /\ answer' = NoAnswer /\ UNCHANGED <<catalogue, suggesting>>
  BY DEF StoreUserPreference
<1>2. /\ DOMAIN new = DOMAIN given \cup DOMAIN user_preferences[u]
      /\ \A k \in DOMAIN new : new[k] = IF k \in DOMAIN given THEN given[k]
                                        ELSE user_preferences[u][k]
  OBVIOUS
<1> HIDE DEF new
<1>3. "preferred_model_types" \in DOMAIN new /\ new.preferred_model_types \subseteq ArchWord
  BY <1>2, AssistantAssumption DEF ChoicesOk
<1>4. /\ user_preferences' = [v \in User |-> user_preferences'[v]]
      /\ \A v \in User : user_preferences'[v] = IF v = u THEN new ELSE user_preferences[v]
  BY <1>1 DEF ChoicesOk
<1>5. QED
  BY <1>1, <1>3, <1>4 DEF ChoicesOk, NoAnswer, Ids

LEMMA ChoicesOkNext == AiInv /\ ChoicesOk /\ [AiNext]_aiVars => ChoicesOk'
<1> SUFFICES ASSUME AiInv, ChoicesOk, [AiNext]_aiVars PROVE ChoicesOk'
  OBVIOUS
<1>1. ASSUME NEW m \in Offer, ListModel(m) PROVE ChoicesOk'
  <2>1. /\ catalogue' = Append(catalogue, m) /\ answer' = NoAnswer
        /\ UNCHANGED <<user_preferences, suggesting>>
    BY <1>1 DEF ListModel
  <2>2. catalogue \in Seq(Offer)
    BY DEF AiInv, Catalogued
  <2>3. \A i \in DOMAIN catalogue : i \in DOMAIN catalogue' /\ catalogue'[i] = catalogue[i]
    BY <2>1, <2>2, AppendProperties, LenProperties
  <2>4. Ids(catalogue) \subseteq Ids(catalogue')
    BY <2>3 DEF Ids
  <2>5. QED
    BY <2>1, <2>4 DEF ChoicesOk, NoAnswer
<1>2. ASSUME NEW q, RecommendModels(q) PROVE ChoicesOk'
  BY <1>2 DEF RecommendModels, Recommended, ChoicesOk, Ids
<1>3. ASSUME NEW ids, NEW task, SuggestFusionCombinations(ids, task) PROVE ChoicesOk'
  <2>1. /\ suggesting'.chosen \subseteq Ids(catalogue)
        /\ UNCHANGED <<catalogue, user_preferences, answer>>
    BY <1>3 DEF SuggestFusionCombinations
  <2>2. QED
    BY <2>1 DEF ChoicesOk, Ids
<1>4. CASE SuggestionEnds
  <2>1. /\ answer'.kind = "pairs" /\ suggesting'.chosen = {}
        /\ UNCHANGED <<catalogue, user_preferences>>
    BY <1>4 DEF SuggestionEnds, Suggested, NotSuggesting
  <2>2. QED
    BY <2>1 DEF ChoicesOk, Ids
<1>5. ASSUME NEW ids, SuggestConnectionConfig(ids) PROVE ChoicesOk'
  <2>1. answer'.kind = "connections" /\ UNCHANGED <<catalogue, user_preferences, suggesting>>
    BY <1>5 DEF SuggestConnectionConfig, Configured
  <2>2. QED
    BY <2>1 DEF ChoicesOk, Ids
<1>6. CASE UNCHANGED aiVars
  BY <1>6 DEF aiVars, ChoicesOk, Ids
<1>7. QED
  BY <1>1, <1>2, <1>3, <1>4, <1>5, <1>6, PreferenceStep DEF AiNext

LEMMA AssistantTyped == AiInv /\ ChoicesOk => AiTypeOK
<1> SUFFICES ASSUME AiInv, ChoicesOk PROVE AiTypeOK
  OBVIOUS
<1> DEFINE n == Len(catalogue)
           f == [i \in 1 .. n |-> catalogue[i].id]
<1>1. n \in Nat /\ DOMAIN catalogue = 1 .. n /\ catalogue \in Seq(Offer)
  BY PlacesFinite DEF AiInv, Catalogued
<1>2. ToSet(catalogue) \subseteq Offer
  BY <1>1, ElementOfSeq DEF ToSet
<1>3. \A i, j \in 1 .. n : catalogue[i].id = catalogue[j].id => i = j
  BY <1>1 DEF AiInv, Catalogued
<1>4. Ids(catalogue) = {catalogue[i].id : i \in 1 .. n}
  BY <1>1 DEF Ids
<1> HIDE DEF n
<1>5. f \in Bijection(1 .. n, Ids(catalogue))
  <2>1. f \in [1 .. n -> Ids(catalogue)]
    BY <1>4
  <2>2. \A i, j \in 1 .. n : f[i] = f[j] => i = j
    BY <1>3
  <2>3. \A x \in Ids(catalogue) : \E i \in 1 .. n : f[i] = x
    BY <1>4
  <2> HIDE DEF f
  <2>4. QED
    BY <2>1, <2>2, <2>3 DEF Bijection, Injection, Surjection, IsInjective
<1>6. Cardinality(Ids(catalogue)) = n
  <2>1. IsFiniteSet(1 .. n) /\ Cardinality(1 .. n) = n
    <3>1. 1 \in Int /\ n \in Int
      BY <1>1
    <3>2. Cardinality(1 .. n) = IF 1 > n THEN 0 ELSE n - 1 + 1
      BY <3>1, FS_Interval
    <3>3. QED
      BY <1>1, <3>1, <3>2, FS_Interval
  <2>2. QED
    BY <1>5, <2>1, FS_Bijection DEF ExistsBijection
<1>7. QED
  BY <1>2, <1>6 DEF AiTypeOK, ChoicesOk, n

-----------------------------------------------------------------------------
\* What is in IPFS with an identifier of a model, and what will be: unless Arweave's
\* provider was asked, which stores nothing there.
CallTyped(j) ==
  /\ j \in Job
  /\ j.stage = "described" /\ j.duration # "long" => j.metadata.model_id \in Saved

TempOk ==
  /\ tempFile \in Saved \cup {Absent}
  /\ \A w \in Busy : CallTyped(jobs[w])
  /\ ipfs \subseteq Saved \cup Metadata
  /\ \A x \in ipfs \cap Metadata : x.model_id \in Saved
  /\ storageCalls \in 0 .. MaxStorageCalls
  /\ returned # <<>> => returned \in Job

LEMMA TempOkInit == StorageInit => TempOk
BY StorageAssumption DEF StorageInit, TempOk, Busy

\* A call goes on to another stage.
LEMMA StepTyped ==
  ASSUME ModelsStoredInv, TempOk, NEW w \in Busy, NEW new, Step(w, new), CallTyped(new)
  PROVE  \A v \in Busy' : CallTyped(jobs'[v])
<1>1. jobs' = [jobs EXCEPT ![w] = new] /\ w \in Worker
  BY DEF Step, Busy
<1>2. \A v \in Worker : jobs'[v] = IF v = w THEN new ELSE jobs[v]
  BY <1>1 DEF ModelsStoredInv
<1>3. QED
  BY <1>2 DEF TempOk, Busy

LEMMA BeginTyped ==
  ASSUME ModelsStoredInv, TempOk, NEW w \in Worker, NEW job \in Job, job.stage = "writing",
         Begin(w, job)
  PROVE  TempOk'
<1> DEFINE new == [job EXCEPT !.lapped = Busy # {}]
           Lap(v) == [jobs[v] EXCEPT !.lapped = TRUE]
<1>1. /\ storageCalls < MaxStorageCalls /\ storageCalls' = storageCalls + 1
      /\ tempFile' = Torn /\ returned' = <<>> /\ ipfs' = ipfs
      /\ jobs' = [v \in Worker |-> IF v = w THEN new ELSE IF v \in Busy THEN Lap(v) ELSE jobs[v]]
  BY DEF Begin
<1>2. CallTyped(new)
  <2>1. new \in Job
    BY DEF Job
  <2>2. new.stage = "writing"
    BY DEF Job
  <2>3. QED
    BY <2>1, <2>2 DEF CallTyped
<1>3. ASSUME NEW v \in Busy PROVE CallTyped(Lap(v))
  <2>1. jobs[v] \in Job /\ CallTyped(jobs[v])
    BY DEF TempOk, CallTyped
  <2>2. /\ Lap(v) \in Job /\ Lap(v).stage = jobs[v].stage
        /\ Lap(v).duration = jobs[v].duration /\ Lap(v).metadata = jobs[v].metadata
    BY <2>1 DEF Job
  <2>3. QED
    BY <2>1, <2>2 DEF CallTyped
<1> HIDE DEF new, Lap
<1>4. ASSUME NEW v \in Busy' PROVE CallTyped(jobs'[v])
  <2>1. v \in Worker /\ jobs'[v] # <<>>
    BY DEF Busy
  <2>2. v \in Busy \/ v = w
    BY <1>1, <2>1 DEF Busy
  <2>3. QED
    BY <1>1, <1>2, <1>3, <2>1, <2>2
<1>5. Torn \in Saved
  BY DEF Saved
<1>6. storageCalls' \in 0 .. MaxStorageCalls
  BY <1>1, StorageAssumption DEF TempOk
<1>7. QED
  BY <1>1, <1>4, <1>5, <1>6 DEF TempOk

\* What a provider adds is what it was given, and Arweave's adds nothing.
LEMMA ProviderAdds ==
  ASSUME NEW d, NEW content, NEW r \in Store(d, content)
  PROVE  r.adds \subseteq {content} /\ (d = "long" => r.adds = {})
<1>1. CASE d \notin Providers \ {"edge"}
  BY <1>1 DEF Store, Refused
<1>2. CASE d \in Providers /\ d \in {"short", "mid"}
  BY <1>2, IPFSOutcome DEF HasRetrieve
<1>3. CASE d \in Providers \ {"edge"} /\ d = "long"
  BY <1>3 DEF Store, ArweaveStore
<1>4. QED
  BY <1>1, <1>2, <1>3, StorageAssumption

LEMMA ProviderNames ==
  ASSUME NEW d, NEW content, NEW r \in Store(d, content)
  PROVE  r.id \in {content, Placeholder}
<1>1. CASE d \notin Providers \ {"edge"}
  BY <1>1 DEF Store, Refused
<1>2. CASE d \in Providers /\ d \in {"short", "mid"}
  BY <1>2, IPFSOutcome DEF HasRetrieve
<1>3. CASE d \in Providers \ {"edge"} /\ d = "long"
  BY <1>3 DEF Store, ArweaveStore
<1>4. QED
  BY <1>1, <1>2, <1>3, StorageAssumption

LEMMA FailsTyped ==
  ASSUME ModelsStoredInv, TempOk, NEW w \in Busy, Fails(w)
  PROVE  \A v \in Busy' : CallTyped(jobs'[v])
<1> DEFINE new == [jobs[w] EXCEPT !.stage = "cleaning", !.ok = FALSE]
<1>1. jobs[w] \in Job
  BY DEF TempOk, CallTyped
<1>2. new \in Job /\ new.stage = "cleaning"
  BY <1>1 DEF Job
<1>3. Step(w, new)
  BY DEF Fails
<1> HIDE DEF new
<1>4. QED
  BY <1>2, <1>3, StepTyped DEF CallTyped

LEMMA ModelStoredTyped ==
  ASSUME ModelsStoredInv, TempOk, NEW w \in Worker, ModelStored(w)
  PROVE  TempOk'
<1> DEFINE j == jobs[w]
<1>1. /\ w \in Busy /\ j.stage = "written" /\ tempFile' = tempFile
  BY DEF ModelStored
<1>2. PICK r \in IF tempFile = Absent THEN {Refused} ELSE Store(j.duration, tempFile) :
        /\ ipfs' = ipfs \cup r.adds
        /\ IF r.ok
           THEN Step(w, [j EXCEPT !.stage = "described", !.metadata.model_id = r.id])
           ELSE Fails(w)
  BY DEF ModelStored
<1>3. j \in Job
  BY <1>1 DEF TempOk, CallTyped
<1>4. r.adds \subseteq Saved
  <2>1. CASE tempFile = Absent
    BY <1>2, <2>1 DEF Refused
  <2>2. CASE tempFile # Absent
    BY <1>2, <2>2, ProviderAdds DEF TempOk
  <2>3. QED
    BY <2>1, <2>2
<1>5. ipfs' \subseteq Saved \cup Metadata /\ \A x \in ipfs' \cap Metadata : x.model_id \in Saved
  BY <1>2, <1>4, ModelIsNoMetadata DEF TempOk
<1>6. \A v \in Busy' : CallTyped(jobs'[v])
  <2>1. CASE ~r.ok
    BY <1>1, <1>2, <2>1, FailsTyped
  <2>2. CASE r.ok
    <3> DEFINE new == [j EXCEPT !.stage = "described", !.metadata.model_id = r.id]
    <3>1. tempFile # Absent /\ tempFile \in Saved
      <4>1. Refused.ok = FALSE
        BY DEF Refused
      <4>2. QED
        BY <1>2, <2>2, <4>1 DEF TempOk
    <3>2. /\ r.id \in Saved \cup {Placeholder}
          /\ j.duration # "long" => r.id \in Saved
      BY <1>2, <2>2, <3>1, ProviderNames, ProviderKeeps
    <3>3. /\ new.metadata = [j.metadata EXCEPT !.model_id = r.id]
          /\ new = [j EXCEPT !.stage = "described", !.metadata = [j.metadata EXCEPT !.model_id = r.id]]
      BY <1>3 DEF Job
    <3>4. j.metadata \in Metadata
      BY <1>3 DEF Job
    <3>5. /\ [j.metadata EXCEPT !.model_id = r.id] \in Metadata
          /\ [j.metadata EXCEPT !.model_id = r.id].model_id = r.id
      BY <3>2, <3>4 DEF Metadata, Saved
    <3>6. new \in Job /\ new.duration = j.duration
      BY <1>3, <3>3, <3>5 DEF Job
    <3>7. Step(w, new)
      BY <1>2, <2>2
    <3>8. CallTyped(new)
      BY <3>2, <3>3, <3>5, <3>6 DEF CallTyped
    <3> HIDE DEF new
    <3>9. QED
      BY <1>1, <3>7, <3>8, StepTyped
  <2>3. QED
    BY <2>1, <2>2
<1>7. UNCHANGED <<storageCalls, returned>>
  BY <1>2 DEF Step, Fails
<1>8. QED
  BY <1>1, <1>5, <1>6, <1>7 DEF TempOk

LEMMA MetadataStoredTyped ==
  ASSUME ModelsStoredInv, TempOk, NEW w \in Worker, MetadataStored(w)
  PROVE  TempOk'
<1> DEFINE j == jobs[w]
<1>1. /\ w \in Busy /\ j.stage = "described" /\ tempFile' = tempFile
  BY DEF MetadataStored
<1>2. PICK r \in Store(j.duration, j.metadata) :
        /\ ipfs' = ipfs \cup r.adds
        /\ IF r.ok THEN Step(w, [j EXCEPT !.stage = "cleaning"]) ELSE Fails(w)
  BY DEF MetadataStored
<1>3. j \in Job /\ CallTyped(j)
  BY <1>1 DEF TempOk, CallTyped
<1>4. r.adds \subseteq {j.metadata} /\ (j.duration = "long" => r.adds = {})
  BY <1>2, ProviderAdds
<1>5. j.metadata \in Metadata /\ (j.duration # "long" => j.metadata.model_id \in Saved)
  BY <1>1, <1>3 DEF CallTyped, Job
<1>6. ipfs' \subseteq Saved \cup Metadata /\ \A x \in ipfs' \cap Metadata : x.model_id \in Saved
  BY <1>2, <1>4, <1>5 DEF TempOk
<1>7. \A v \in Busy' : CallTyped(jobs'[v])
  <2>1. CASE ~r.ok
    BY <1>1, <1>2, <2>1, FailsTyped
  <2>2. CASE r.ok
    <3> DEFINE new == [j EXCEPT !.stage = "cleaning"]
    <3>1. new \in Job /\ new.stage = "cleaning"
      BY <1>3 DEF Job
    <3>2. Step(w, new)
      BY <1>2, <2>2
    <3> HIDE DEF new
    <3>3. QED
      BY <1>1, <3>1, <3>2, StepTyped DEF CallTyped
  <2>3. QED
    BY <2>1, <2>2
<1>8. UNCHANGED <<storageCalls, returned>>
  BY <1>2 DEF Step, Fails
<1>9. QED
  BY <1>1, <1>6, <1>7, <1>8 DEF TempOk

LEMMA FileTyped ==
  ASSUME ModelsStoredInv, TempOk, NEW w \in Worker, TempWritten(w) \/ ModelRead(w)
  PROVE  TempOk'
<1> DEFINE j == jobs[w]
           written == [j EXCEPT !.stage = "written"]
           read == [j EXCEPT !.stage = "cleaning", !.model = tempFile]
<1>1. w \in Busy /\ UNCHANGED <<ipfs, storageCalls, returned>>
  BY DEF TempWritten, ModelRead, Step, Fails
<1>2. j \in Job
  BY <1>1 DEF TempOk, CallTyped
<1>3. tempFile' \in Saved \cup {Absent}
  <2>1. j.model \in Saved /\ Torn \in Saved
    BY <1>2 DEF Job, Saved
  <2>2. tempFile' \in {tempFile, j.model, Torn}
    BY DEF TempWritten, ModelRead
  <2>3. QED
    BY <2>1, <2>2 DEF TempOk
<1>4. \/ Step(w, written)
      \/ tempFile \in StorageModel /\ Step(w, read)
      \/ Fails(w)
  BY DEF TempWritten, ModelRead
<1>5. written \in Job /\ written.stage = "written"
  BY <1>2 DEF Job
<1>6. tempFile \in StorageModel => read \in Job /\ read.stage = "cleaning"
  BY <1>2 DEF Job, Saved
<1> HIDE DEF written, read
<1>7. \A v \in Busy' : CallTyped(jobs'[v])
  BY <1>1, <1>4, <1>5, <1>6, StepTyped, FailsTyped DEF CallTyped
<1>8. QED
  BY <1>1, <1>3, <1>7 DEF TempOk

LEMMA CleanedTyped ==
  ASSUME ModelsStoredInv, TempOk, NEW w \in Worker, CleanedUp(w) \/ Killed(w)
  PROVE  TempOk'
<1>1. /\ UNCHANGED <<ipfs, storageCalls>> /\ tempFile' \in {Absent, tempFile} /\ w \in Busy
      /\ returned' \in {returned, jobs[w]}
  BY DEF CleanedUp, Killed
<1>2. returned' # <<>> => returned' \in Job
  BY <1>1 DEF TempOk, CallTyped
<1>3. ASSUME NEW v \in Busy' PROVE CallTyped(jobs'[v])
  <2> DEFINE cut == [jobs[v] EXCEPT !.linked = FALSE]
  <2>1. v \in Worker /\ jobs'[v] # <<>>
    BY DEF Busy
  <2>2. v \in Busy /\ jobs'[v] \in {cut, jobs[v]}
    BY <2>1 DEF CleanedUp, Killed, ModelsStoredInv, Busy
  <2>3. jobs[v] \in Job /\ CallTyped(jobs[v])
    BY <2>2 DEF TempOk, CallTyped
  <2>4. /\ cut \in Job /\ cut.stage = jobs[v].stage /\ cut.duration = jobs[v].duration
        /\ cut.metadata = jobs[v].metadata
    BY <2>3 DEF Job
  <2> HIDE DEF cut
  <2>5. QED
    BY <2>2, <2>3, <2>4 DEF CallTyped
<1>4. QED
  BY <1>1, <1>2, <1>3 DEF TempOk

LEMMA TempOkNext ==
  ModelsStoredInv /\ TempOk /\ ([StorageNext]_storageVars \/ [CdnNext]_storageVars) => TempOk'
<1> SUFFICES ASSUME ModelsStoredInv, TempOk, [StorageNext]_storageVars \/ [CdnNext]_storageVars
             PROVE  TempOk'
  OBVIOUS
<1>1. ASSUME NEW w \in Worker, NEW d \in Durations, NEW m \in StorageModel, StoreModel(w, m, d)
      PROVE  TempOk'
  <2> DEFINE job == NewJob("store", d, m, [name |-> m, model_id |-> Torn])
  <2>1. job \in Job /\ job.stage = "writing"
    BY DEF NewJob, Job, Metadata, Saved
  <2>2. Begin(w, job)
    BY <1>1 DEF StoreModel
  <2> HIDE DEF job
  <2>3. QED
    BY <2>1, <2>2, BeginTyped
<1>2. ASSUME NEW w \in Worker, NEW d \in Durations, NEW metadata \in ipfs \cap Metadata,
             LoadModel(w, metadata, d)
      PROVE  TempOk'
  <2> DEFINE job == NewJob("load", d, metadata.model_id, metadata)
  <2>1. metadata \in Metadata /\ metadata.model_id \in Saved
    BY DEF TempOk
  <2>2. job \in Job /\ job.stage = "writing"
    BY <2>1 DEF NewJob, Job
  <2>3. Begin(w, job)
    BY <1>2 DEF LoadModel
  <2> HIDE DEF job
  <2>4. QED
    BY <2>2, <2>3, BeginTyped
<1>3. CASE UNCHANGED tempVars
  BY <1>3 DEF tempVars, TempOk, Busy
<1>4. QED
  BY <1>1, <1>2, <1>3, ModelStoredTyped, MetadataStoredTyped, FileTyped, CleanedTyped
  DEF StorageNext, CdnNext, RegisterNode, StoreContent, CdnTick, storageVars

-----------------------------------------------------------------------------
CacheOk ==
  /\ cached \in [CdnNode -> SUBSET CdnContent]
  /\ asked \subseteq [content : CdnContent, active : SUBSET CdnNode]

LEMMA CacheOkNext ==
  CacheInv /\ CacheOk /\ ([StorageNext]_storageVars \/ [CdnNext]_storageVars) => CacheOk'
<1> SUFFICES ASSUME CacheInv, CacheOk, [StorageNext]_storageVars \/ [CdnNext]_storageVars
             PROVE  CacheOk'
  OBVIOUS
<1>1. CASE UNCHANGED <<cached, asked>>
  BY <1>1 DEF CacheOk
<1>2. ASSUME NEW c \in CdnContent, StoreContent(c) PROVE CacheOk'
  <2>1. \A i \in DOMAIN cdnNodes : cdnNodes[i].id \in CdnNode
    <3> DEFINE CdnEntry == [id : CdnNode, stake : Stake, since : Nat]
    <3>1. cdnNodes \in Seq(CdnEntry)
      BY DEF CacheInv
    <3> HIDE DEF CdnEntry
    <3>2. \A i \in DOMAIN cdnNodes : cdnNodes[i] \in CdnEntry
      BY <3>1, ElementOfSeq, LenProperties
    <3>3. QED
      BY <3>2 DEF CdnEntry
  <2>2. {cdnNodes[i].id : i \in Active} \subseteq CdnNode
    BY <2>1 DEF Active
  <2>3. cached' \in [CdnNode -> SUBSET CdnContent]
    BY <1>2 DEF StoreContent, CacheOk
  <2>4. asked' \subseteq [content : CdnContent, active : SUBSET CdnNode]
    BY <1>2, <2>2 DEF StoreContent, CacheOk
  <2>5. QED
    BY <2>3, <2>4 DEF CacheOk
<1>3. CASE StorageNext
  <2>1. UNCHANGED cdnVars
    BY <1>3 DEF StorageNext, StoreModel, LoadModel, Begin, TempWritten, ModelStored, MetadataStored,
       ModelRead, CleanedUp, Killed, Step, Fails
  <2>2. QED
    BY <1>1, <2>1 DEF cdnVars
<1>4. QED
  BY <1>1, <1>2, <1>3 DEF CdnNext, RegisterNode, CdnTick, storageVars, cdnVars

LEMMA StorageTyped == CacheInv /\ CacheOk /\ ModelsStoredInv /\ TempOk => StorageTypeOK
<1> SUFFICES ASSUME CacheInv, CacheOk, ModelsStoredInv, TempOk PROVE StorageTypeOK
  OBVIOUS
<1>1. \A w \in Worker : jobs[w] # <<>> => jobs[w] \in Job
  BY DEF TempOk, CallTyped, Busy
<1>2. QED
  BY <1>1 DEF StorageTypeOK, CacheInv, CacheOk, TempOk

LEMMA ConnectionsTyped == PeerInv /\ NetInv => PeerTypeOK /\ NetTypeOK
<1> SUFFICES ASSUME PeerInv, NetInv PROVE PeerTypeOK /\ NetTypeOK
  OBVIOUS
<1>1. \A p \in RtcPeer : connections[p] # Unconnected => connections[p] \in Connection
  BY DEF PeerInv, RtcInv
<1>2. /\ \A c \in DataChannel : dataChannels[c] \in RtcPeer \cup {Unconnected}
      /\ \A m \in RtcMessage : outgoing[m] # <<>> => outgoing[m] \in Sending
  BY DEF PeerInv, ChanInv
<1>3. PeerTypeOK
  BY <1>1, <1>2 DEF PeerTypeOK, PeerInv, RtcInv, Connection, Sending
<1>4. NetTypeOK
  <2>1. broadcast # <<>> =>
          /\ broadcast.size \in Nat /\ broadcast.done \subseteq NetPeer
          /\ broadcast.responses \in Seq(Result)
    BY DEF NetInv
  <2>2. QED
    BY <2>1 DEF NetInv, NetTypeOK
<1>5. QED
  BY <1>3, <1>4

-----------------------------------------------------------------------------
\* Every service with what types its state.
TypedDao       == DaoInv /\ ProposalsOk /\ RolesOk
TypedConsensus == RegInv /\ LicInv /\ IntInv /\ UseInv /\ EcoInv
TypedLearning  == FedInv /\ CountsOk /\ RpcInv /\ IotaInv /\ AgesOk
TypedMessages  == MsgInv /\ CallsOk /\ FilesOk
TypedClients   == FusInv /\ StoreOk /\ CarriedOk /\ FairInv /\ AiInv /\ ChoicesOk
TypedStorage   == StorageInv /\ TempOk /\ CacheOk
TypedPeers     == PeerInv /\ NetInv

TypedInv ==
  /\ TypedDao /\ TypedConsensus /\ TypedLearning /\ TypedMessages /\ TypedClients
  /\ TypedStorage /\ TypedPeers

LEMMA TypedInit == ServicesInit => TypedInv
<1> SUFFICES ASSUME ServicesInit PROVE TypedInv
  OBVIOUS
<1>1. TypedDao
  BY DaoInitInv, DaoTypesInit DEF ServicesInit, TypedDao
<1>2. TypedConsensus
  BY RegInitInv, LicInitInv, IntInitInv, UseInitInv, EcoInitInv DEF ServicesInit, TypedConsensus
<1>3. TypedLearning
  BY FedInitInv, CountsOkInit, RpcInitInv, IotaInitInv, AgesOkInit DEF ServicesInit, TypedLearning
<1>4. TypedMessages
  BY MsgInitInv, CallsOkInit DEF ServicesInit, TypedMessages
<1>5. TypedClients
  BY FusInitInv, StoreOkInit, FairInvInit, AiInvInit, ChoicesOkInit DEF ServicesInit, TypedClients
<1>6. TypedStorage
  <2>1. CacheOk
    BY DEF ServicesInit, StorageInit, CacheOk
  <2>2. QED
    BY <2>1, StorageInitInv, TempOkInit DEF ServicesInit, TypedStorage
<1>7. TypedPeers
  BY PeerInitInv, NetInitInv DEF ServicesInit, TypedPeers
<1>8. QED
  BY <1>1, <1>2, <1>3, <1>4, <1>5, <1>6, <1>7 DEF TypedInv

LEMMA TypedNext == TypedInv /\ [ServicesNext]_serviceVars => TypedInv'
<1> SUFFICES ASSUME TypedInv, [ServicesNext]_serviceVars PROVE TypedInv'
  OBVIOUS
<1>1. TypedDao'
  <2>1. [LolNext]_lolVars
    BY DEF ServicesNext, OthersIdle, serviceVars
  <2>2. QED
    BY <2>1, DaoNextInv, ProposalsOkNext, RolesOkNext DEF TypedInv, TypedDao
<1>2. TypedConsensus'
  <2>1. /\ [RegNext]_regVars /\ [LicNext]_licVars /\ [IntNext]_intVars /\ [UseNext]_useVars
        /\ [EcoNext]_ecoVars
    BY DEF ServicesNext, OthersIdle, serviceVars
  <2>2. QED
    BY <2>1, RegNextInv, LicNextInv, IntNextInv, UseNextInv, EcoNextInv DEF TypedInv, TypedConsensus
<1>3. TypedLearning'
  <2>1. [FedNext]_fedVars /\ [RpcNext]_rpcVars /\ [IotaNext]_iotaVars
    BY DEF ServicesNext, OthersIdle, serviceVars
  <2>2. QED
    BY <2>1, FedNextInv, CountsOkNext, RpcNextInv, IotaNextInv, AgesOkNext
    DEF TypedInv, TypedLearning
<1>4. TypedMessages'
  <2>1. [MsgNext]_msgVars \/ [FileNext]_msgVars
    BY DEF ServicesNext, OthersIdle, serviceVars
  <2>2. QED
    BY <2>1, MsgNextInv, MsgTypesNext DEF TypedInv, TypedMessages
<1>5. TypedClients'
  <2>1. [FusNext]_fusVars \/ [CompatNext]_fusVars
    BY DEF ServicesNext, OthersIdle, serviceVars
  <2>2. [AiNext]_aiVars
    BY DEF ServicesNext, OthersIdle, serviceVars
  <2>3. QED
    BY <2>1, <2>2, FusNextInv, StoreOkNext, FairInvNext, AiInvNext, ChoicesOkNext
    DEF TypedInv, TypedClients
<1>6. TypedStorage'
  <2>1. [StorageNext]_storageVars \/ [CdnNext]_storageVars
    BY DEF ServicesNext, OthersIdle, serviceVars
  <2>2. QED
    BY <2>1, StorageInvNext, TempOkNext, CacheOkNext DEF TypedInv, TypedStorage, StorageInv
<1>7. TypedPeers'
  <2>1. ([RtcNext]_peerVars \/ [ChannelNext]_peerVars) /\ [NetNext]_netVars
    BY DEF ServicesNext, OthersIdle, serviceVars
  <2>2. QED
    BY <2>1, RtcNextInv, ChannelNextInv, NetNextInv DEF TypedInv, TypedPeers
<1>8. QED
  BY <1>1, <1>2, <1>3, <1>4, <1>5, <1>6, <1>7 DEF TypedInv

\* The state of every service is of its type, whatever nodes, users, calls and bounds
\* there are (ServicesTypeOK).
THEOREM ServicesTyped == ServicesSpec => []ServicesTypeOK
<1>1. ServicesInit => TypedInv
  BY TypedInit
<1>2. TypedInv /\ [ServicesNext]_serviceVars => TypedInv'
  BY TypedNext
<1>3. TypedInv => ServicesTypeOK
  <2> SUFFICES ASSUME TypedInv PROVE ServicesTypeOK
    OBVIOUS
  <2>1. GovTypeOK /\ LolTypeOK
    BY DaoTyped DEF TypedInv, TypedDao
  <2>2. RegTypeOK /\ LicTypeOK /\ IntTypeOK /\ UseTypeOK /\ EcoTypeOK
    BY DEF TypedInv, TypedConsensus, RegInv, LicInv, IntInv, UseInv, EcoInv
  <2>3. FedTypeOK /\ RpcTypeOK /\ IotaTypeOK
    BY FedTyped, IotaTyped DEF TypedInv, TypedLearning, RpcInv
  <2>4. MsgTypeOK
    BY MsgTyped DEF TypedInv, TypedMessages
  <2>5. MktTypeOK /\ FusTypeOK /\ AiTypeOK
    BY AccountTyped, AssistantTyped DEF TypedInv, TypedClients
  <2>6. StorageTypeOK
    BY StorageTyped DEF TypedInv, TypedStorage, StorageInv
  <2>7. PeerTypeOK /\ NetTypeOK
    BY ConnectionsTyped DEF TypedInv, TypedPeers
  <2>8. QED
    BY <2>1, <2>2, <2>3, <2>4, <2>5, <2>6, <2>7 DEF ServicesTypeOK
<1>4. QED
  BY <1>1, <1>2, <1>3, PTL DEF ServicesSpec

=============================================================================
