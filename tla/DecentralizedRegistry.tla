------------------------ MODULE DecentralizedRegistry ------------------------
(***************************************************************************)
(* src/decentralized_registry.py: every node keeps a cache of the entries  *)
(* of all entities.  register_entity takes its time stamp, waits for an    *)
(* upload, overwrites the cache and broadcasts; a received entry waits in  *)
(* a queue and is dropped when the cache holds one at least as new.  The   *)
(* bus may lose, repeat and reorder what is broadcast.                     *)
(***************************************************************************)
EXTENDS Naturals, Sequences, SequencesExt

CONSTANTS
  RegNode, Entity,
  Registration,   \* calls of register_entity or update_entity there may be
  NoEntry,        \* a key that is not in the cache
  RegMaxTime,     \* bound on the clock
  MaxQueue        \* bound on the updates a node has waiting

ASSUME RegistryAssumption == NoEntry \notin Registration /\ RegMaxTime \in Nat

VARIABLES
  regNow,            \* time.time(), one clock for all nodes
  entry,             \* what each registration wrote
  registering,       \* registrations that wait for their upload
  published,         \* entries on the bus
  local_cache,
  registry_updates,
  seen,              \* history: entries a node has registered or taken from its queue
  overlapped         \* history: entities registered again within a registration or a tick

regVars == <<regNow, entry, registering, published, local_cache, registry_updates,
             seen, overlapped>>

Written == [entity : Entity, publisher : RegNode, timestamp : Nat]
Unused  == [timestamp |-> 0]
Begun(x) == entry[x] # Unused
About(x, e) == Begun(x) /\ entry[x].entity = e

RegTypeOK ==
  /\ regNow \in Nat
  /\ entry \in [Registration -> Written \cup {Unused}]
  /\ registering \subseteq Registration /\ published \subseteq Registration
  /\ local_cache \in [RegNode -> [Entity -> Registration \cup {NoEntry}]]
  /\ registry_updates \in [RegNode -> Seq(Registration)]
  /\ seen \in [RegNode -> SUBSET Registration]
  /\ overlapped \subseteq Entity

RegInit ==
  /\ regNow = 1
  /\ entry = [x \in Registration |-> Unused]
  /\ registering = {} /\ published = {}
  /\ local_cache = [n \in RegNode |-> [e \in Entity |-> NoEntry]]
  /\ registry_updates = [n \in RegNode |-> <<>>]
  /\ seen = [n \in RegNode |-> {}]
  /\ overlapped = {}

-----------------------------------------------------------------------------
RegisterEntity(n, e, x) ==
  /\ ~Begun(x)
  /\ entry' = [entry EXCEPT ![x] = [entity |-> e, publisher |-> n, timestamp |-> regNow]]
  /\ registering' = registering \cup {x}
  /\ overlapped' = IF \E y \in Registration :
                        About(y, e) /\ (y \in registering \/ entry[y].timestamp = regNow)
                   THEN overlapped \cup {e} ELSE overlapped
  /\ UNCHANGED <<regNow, published, local_cache, registry_updates, seen>>

\* The upload returns: the cache is overwritten whatever it holds, and the
\* broadcast that follows is made or raises.
Uploaded(x) ==
  LET n == entry[x].publisher
  IN  /\ x \in registering
      /\ registering' = registering \ {x}
      /\ local_cache' = [local_cache EXCEPT ![n][entry[x].entity] = x]
      /\ published' \in {published, published \cup {x}}
      /\ seen' = [seen EXCEPT ![n] = @ \cup {x}]
      /\ UNCHANGED <<regNow, entry, registry_updates, overlapped>>

UploadRaises(x) ==
  /\ x \in registering
  /\ registering' = registering \ {x}
  /\ UNCHANGED <<regNow, entry, published, local_cache, registry_updates, seen, overlapped>>

\* No signature is verified.
HandleRegistryUpdate(n, x) ==
  /\ x \in published
  /\ Len(registry_updates[n]) < MaxQueue
  /\ registry_updates' = [registry_updates EXCEPT ![n] = Append(@, x)]
  /\ UNCHANGED <<regNow, entry, registering, published, local_cache, seen, overlapped>>

\* Mutant of Newer: equal or not, what is there goes.
Newer_Always(n, x) == TRUE

\* _apply_update keeps what it has when that is as new.
Newer(n, x) ==
  LET known == local_cache[n][entry[x].entity]
  IN  known = NoEntry \/ entry[known].timestamp < entry[x].timestamp

ProcessUpdate(n) ==
  /\ registry_updates[n] # <<>>
  /\ LET x == Head(registry_updates[n])
     IN  /\ local_cache' = [local_cache EXCEPT ![n][entry[x].entity] =
                              IF Newer(n, x) THEN x ELSE @]
         /\ seen' = [seen EXCEPT ![n] = @ \cup {x}]
  /\ registry_updates' = [registry_updates EXCEPT ![n] = Tail(@)]
  /\ UNCHANGED <<regNow, entry, registering, published, overlapped>>

RegTick ==
  /\ regNow < RegMaxTime
  /\ regNow' = regNow + 1
  /\ UNCHANGED <<entry, registering, published, local_cache, registry_updates, seen,
                 overlapped>>

RegNext ==
  \/ \E x \in Registration :
       \/ \E n \in RegNode, e \in Entity : RegisterEntity(n, e, x)
       \/ Uploaded(x) \/ UploadRaises(x)
       \/ \E n \in RegNode : HandleRegistryUpdate(n, x)
  \/ \E n \in RegNode : ProcessUpdate(n)
  \/ RegTick

GetEntity(n, e) == local_cache[n][e]

-----------------------------------------------------------------------------
(* Properties.                                                             *)

\* As long as the registrations of an entity follow each other, a node holds
\* the newest of the entries it has seen, in whatever order, how often and how
\* late they reached it: replicas that have seen the same hold the same.
HoldsNewest ==
  \A n \in RegNode, e \in Entity : e \notin overlapped =>
    \A x \in seen[n] : About(x, e) =>
      /\ GetEntity(n, e) \in seen[n]
      /\ entry[GetEntity(n, e)].entity = e
      /\ entry[x].timestamp <= entry[GetEntity(n, e)].timestamp
=============================================================================
