--------------------------- MODULE SovereignRPCNode ---------------------------
(***************************************************************************)
(* src/sovereign_rpc_node.py: data stored at a node is pinned locally, and *)
(* a loop goes over the pinned data, looks up who provides each of it and  *)
(* asks peers to pin what has too few providers.  The loop goes over the   *)
(* dictionary itself, which a store between two of its lookups changes:    *)
(* the pass ends there.  start() fails before it creates the loop, for     *)
(* nothing sets the staking contract; the bodies are what is modelled.     *)
(***************************************************************************)
EXTENDS Naturals, Sequences, SequencesExt, FiniteSetsExt

CONSTANTS
  Cid,            \* data that may be stored
  Peer,
  MinProviders,   \* data.min_providers
  Replicas,       \* data.replication_factor
  CacheTtl, RpcMaxTime

ASSUME RpcAssumption == CacheTtl \in Nat

VARIABLES
  rpcNow,
  adding,             \* data whose proof of storage is being made
  pinned_data,        \* dictionary, in the order of its keys
  data_providers,     \* cids whose providers were tracked
  providers,          \* the network: which peers have each cid
  rpc_cache,          \* Redis: time at which a cached cid expires, 0 if not cached
  pass,               \* the loop: position, size of the dictionary when it began
  failedAt            \* history: cids whose lookup or pinning raised in the loop

rpcVars == <<rpcNow, adding, pinned_data, data_providers, providers, rpc_cache, pass, failedAt>>

Asleep == [at |-> 0, size |-> 0]

RpcTypeOK ==
  /\ rpcNow \in Nat
  /\ adding \subseteq Cid
  /\ IsInjective(pinned_data) /\ ToSet(pinned_data) \subseteq Cid
  /\ data_providers \subseteq ToSet(pinned_data)
  /\ providers \in [Cid -> SUBSET Peer]
  /\ rpc_cache \in [Cid -> Nat]
  /\ pass.at \in 0 .. Len(pinned_data) /\ pass.size \in 0 .. Len(pinned_data)
  /\ failedAt \subseteq Cid

RpcInit ==
  /\ rpcNow = 1
  /\ adding = {} /\ pinned_data = <<>> /\ data_providers = {}
  /\ providers = [c \in Cid |-> {}]
  /\ rpc_cache = [c \in Cid |-> 0]
  /\ pass = Asleep /\ failedAt = {}

-----------------------------------------------------------------------------
\* _request_pinning asks the first peers with room, as many as replicas are
\* wanted; each of them may do it or not.
PinnedBy(c) ==
  {[providers EXCEPT ![c] = @ \cup P] : P \in {Q \in SUBSET Peer : Cardinality(Q) <= Replicas}}

StoreData(c) ==
  /\ adding' = adding \cup {c}
  /\ UNCHANGED <<rpcNow, pinned_data, data_providers, providers, rpc_cache, pass, failedAt>>

\* Mutant of StoredLocally: a cid that is pinned already is entered again.
StoredLocally_Twice(c) ==
  /\ c \in adding
  /\ adding' = adding \ {c}
  /\ pinned_data' = Append(pinned_data, c)
  /\ providers' \in PinnedBy(c)
  /\ UNCHANGED <<rpcNow, data_providers, rpc_cache, pass, failedAt>>

\* The proof is there: a cid that is pinned already keeps its place.
StoredLocally(c) ==
  /\ c \in adding
  /\ adding' = adding \ {c}
  /\ pinned_data' = IF c \in ToSet(pinned_data) THEN pinned_data ELSE Append(pinned_data, c)
  /\ providers' \in PinnedBy(c)
  /\ UNCHANGED <<rpcNow, data_providers, rpc_cache, pass, failedAt>>

StoreRaises(c) ==
  /\ c \in adding
  /\ adding' = adding \ {c}
  /\ UNCHANGED <<rpcNow, pinned_data, data_providers, providers, rpc_cache, pass, failedAt>>

-----------------------------------------------------------------------------
(* _data_replication_loop.                                                 *)

BeginPass ==
  /\ pass = Asleep
  /\ pinned_data # <<>>
  /\ pass' = [at |-> 1, size |-> Len(pinned_data)]
  /\ UNCHANGED <<rpcNow, adding, pinned_data, data_providers, providers, rpc_cache, failedAt>>

\* Where the loop goes from here: to the next key, to sleep at the end, and to
\* sleep with an error when the dictionary has grown.
Advanced == IF Len(pinned_data) = pass.size /\ pass.at < pass.size
            THEN [pass EXCEPT !.at = @ + 1] ELSE Asleep

\* Mutant of CheckProviders: the loop sleeps after every key.
CheckProviders_OnlyFirst ==
  /\ pass # Asleep
  /\ LET c == pinned_data[pass.at]
     IN  /\ providers' \in IF Cardinality(providers[c]) < MinProviders
                            THEN PinnedBy(c) ELSE {providers}
         /\ data_providers' = data_providers \cup {c}
  /\ pass' = Asleep
  /\ UNCHANGED <<rpcNow, adding, pinned_data, rpc_cache, failedAt>>

CheckProviders ==
  /\ pass # Asleep
  /\ LET c == pinned_data[pass.at]
     IN  /\ providers' \in IF Cardinality(providers[c]) < MinProviders
                            THEN PinnedBy(c) ELSE {providers}
         /\ data_providers' = data_providers \cup {c}
  /\ pass' = Advanced
  /\ UNCHANGED <<rpcNow, adding, pinned_data, rpc_cache, failedAt>>

\* The lookup raises: the rest of the pass is left out.
LookupRaises ==
  /\ pass # Asleep
  /\ failedAt' = failedAt \cup {pinned_data[pass.at]}
  /\ pass' = Asleep
  /\ UNCHANGED <<rpcNow, adding, pinned_data, data_providers, providers, rpc_cache>>

-----------------------------------------------------------------------------
\* A miss reads from IPFS and caches what it got for a while; too few providers
\* are only warned of.
RetrieveData(c) ==
  /\ rpc_cache[c] <= rpcNow
  /\ c \in ToSet(pinned_data) \/ providers[c] # {}
  /\ rpc_cache' = [rpc_cache EXCEPT ![c] = rpcNow + CacheTtl]
  /\ UNCHANGED <<rpcNow, adding, pinned_data, data_providers, providers, pass, failedAt>>

RpcTick ==
  /\ rpcNow < RpcMaxTime
  /\ rpcNow' = rpcNow + 1
  /\ UNCHANGED <<adding, pinned_data, data_providers, providers, rpc_cache, pass, failedAt>>

ReplicationStep == BeginPass \/ CheckProviders \/ LookupRaises

RpcNext ==
  \/ \E c \in Cid : StoreData(c) \/ StoredLocally(c) \/ StoreRaises(c) \/ RetrieveData(c)
  \/ ReplicationStep
  \/ RpcTick

-----------------------------------------------------------------------------
(* Properties.                                                             *)

\* The lookup of c or of a cid before it in the dictionary has raised.
Blocked(c) ==
  \E i, j \in DOMAIN pinned_data :
    i <= j /\ pinned_data[i] \in failedAt /\ pinned_data[j] = c

\* Every pinned cid has its providers looked up in the end, although passes are
\* cut short by stores, unless the lookup of it or of one before it raised.
PinnedIsTracked ==
  \A c \in Cid :
    (c \in ToSet(pinned_data)) ~> (c \in data_providers \/ Blocked(c))
=============================================================================
