# TLA+ specifications of the Joy Sovereign platform

TLA+ modules for the parts of this repository that keep state over time: the
contracts that hold money and votes, and the Python services that run beside
them. TLC checks each on small instances; TLAPS proves the main safety
properties for every value of the constants. `PROJECT.json` lists the runs, the
source lines behind every definition, the mutants that show each property can
fail, the hazards of the code and the theorems.

To check: `tlc -config X.cfg M` for a run, `tlapm M_proofs.tla` for a proof
module. Paths below are relative to the repository root.

## 1. The system

### Parts, their state and their operations

Contracts, under `contracts/`:

| Part | State | Operations | What makes it correct |
|---|---|---|---|
| JSC bridge, `JSCBridge.sol` | limits, daily volume and time of its last reset, pause flag; balances in the token | deposit (mints JOY), withdraw (burns JOY), updateLimits, pause, unpause | the volume counts what moved; the daily limit bounds it |
| RPC node staking, `SovereignRPC.sol` | stake and status of each node, minimum stake, data records | register, heartbeat, record, increase, withdraw, slash, update parameters | the contract holds what it owes; slashing is final |
| General marketplace, `GeneralMarketplace.sol` | listings, ratings, escrows, balance | list, update, deactivate, purchase, release, refund, rate, withdraw fees | an escrow is paid once; money adds up; ratings are a true average |
| Self-healing flows, `SelfHealingOrchestrator.sol` | flows, agents with backups, failure counters | create, start, pause, resume, heartbeat, report step, health check | healing is bounded and ends; only complete flows complete |
| Marketplace governance, `MarketplaceGovernance.sol` | stakes, proposals with votes, policies | stake, unstake, propose, vote, execute, cancel | results are the recorded votes; decided is decided; a policy was voted for |
| Liquid democracy, `LiquidDemocracy.sol`, `LoveViceScore.sol` | scores, delegations, lists of delegators, voting power, ballots | move scores, delegate, revoke, create, vote, execute | lists and power follow the delegations; a decision is executed once |
| Task and model markets, `AgentMarketplace.sol`, `NodeCoordinator.sol`, `ModelMarketplace.sol`, `ModelLicense.sol`, `RevenueLogger.sol`, `DataMarketplace.sol`, `DataOwnership.sol` | tasks, stakes, loads, licences, revenue, grants | request, match, complete, license, use, grant | budgets are paid once; access follows payment |

Python services, under `src/` (and `POI/src/` for the batches):

| Part | State | Operations | What makes it correct |
|---|---|---|---|
| Bridge relay, `bridge_service.py` | block pointer in memory and in `/data/last_block.txt` | poll, query events, transfer JSC, save the pointer; crash and restart at any point | no deposit paid twice beyond what a crash causes, none left out between ranges |
| Mesh orchestrator, `mesh_network_orchestrator.py` | per node: known nodes, role, coordinator, election flag | heartbeat and election loops, three message handlers | a node has one coordinator; elections come to an end |
| Governance, `decentralized_governance.py`, `lol_dao.py` | per node: proposals, votes, what it executed; on the proposer's node the review stages, roles, the freeze | create, vote, receive both, decide in a loop, advance stages, freeze and lift | decisions have their quorum and stay; nothing runs in each round of a loop; what freezes was approved |
| Registry, `decentralized_registry.py` | cache of time-stamped entries per node, queue of updates | register, update, receive, apply | replicas that have seen the same hold the same |
| Licences and consensus workers, `validators/license_registry.py`, `consensus/*.py` | licences, active validators; queues and results of proofs; validators, activity, announced producers | issue, revoke; request, validate; register, act, select, announce | who validates has a licence; a proof has a request and a result; producers are listed |
| Federated learning, `federated_learning.py` | participants, contributions, weights, the kept answer of the ethics registry | register, aggregate, check approval | a counted round moved every layer; no training long after approval is withdrawn |
| RPC node, `sovereign_rpc_node.py` | pinned data, providers, cache | store, retrieve, replicate in a loop | whatever is pinned has its providers looked up |
| Token economics, `core/token_economics.py` | supply, treasury, fee pool | genesis, pay a fee | no fee is lost |
| Messages and files, `p2p/message_manager.py` | channels, pinned and described files | store, read and clean messages; add, pin and describe files | what was stored is kept and can be read |
| Model storage, `utils/decentralized_storage.py`, `utils/blockchain_cdn.py` | one temporary file per directory, IPFS; nodes of the cache and what they hold | store and load a model; register nodes, store content | a call gets its own model; what is cached is where it is looked for |
| Peer connections, `p2p/webrtc_manager.py`, `p2p/stun_turn_server.py` | candidates, connections, channels, TURN users | STUN and TURN requests, offers, answers, candidates; send through a channel | no candidate is lost; a message reaches the peer it is meant for |
| Requests to peers, `p2p/node_network.py` | set of peers, a broadcast under way | connect, broadcast, vote | all peers are asked; the result has the most votes |
| Batches, `POI/src/iota_batch_handler.py` | one batch per model shared by tasks | add, execute, check in a loop | what is in a batch has its result awaited |
| Model marketplace client and fusion, `model_marketplace.py`, `model_fusion.py` | one account with its nonces and the pending transaction; models on the chain | create and update stores and models, use, create and use fused models, score compatibility | who is told "done" has a transaction; an update leaves the rest alone; scores are fair |
| Assistant, `ai_assistant.py` | preferences of users | recommend, suggest fusions, configure connections | better is not ranked behind; suggestions have a reason |

### How they interact

* The relay reads the Deposit events of the bridge contract through a web3
  client and pays from its own JSC wallet; chain and wallet can each fail, and
  the relay remembers only the number in its file.
* Contracts call the JOY token (transfer, mint, burn) inside their own calls. A
  call that reverts changes nothing, so a contract is a sequence of successful
  calls; interleaving means that calls of several accounts alternate and time
  passes between them.
* Python services share a message bus (`broadcast_message`, `subscribe`) that no
  file of the repository implements. It is modelled from how it is called: a
  broadcast reaches any of the subscribers, in any order, at any later time, the
  sender included, more than once, or never.
* Inside one Python process the tasks of an event loop interleave at `await`
  and nowhere else; a step of a model is what lies between two of them.
* `lol_dao.py` is a subclass of the governance: its stages and the votes of the
  base class decide on the same proposals. `model_fusion.py` sends with the
  account of the marketplace client. The assistant asks the fusion engine and
  falls back to a rule of its own where that raises. Everything else in the
  second table has no state in common with its neighbours.

### What is hard

Crashes between a payment and the save of the pointer; a file that is truncated
before it is written; failed calls that count as done; parameters that change
between two calls of one account; ids that are re-used while records of the
first use live on; sentinels (stock 0, agent without report) that real values
reach; replacements of replacements; elections whose flag outlives its election;
states that arrive late and carry a time of their own; integer averages; a time
stamp taken before an upload it is compared after; a batch replaced while
another task holds on to it; two loops that decide on one proposal; messages
encrypted and decrypted in place by everybody who touches them; transactions of
one account that take each other's nonce; and passes over a list that end at the
first entry that raises. The list at its lines is `hazards` in `PROJECT.json`.

## 2. The modules

| Module | Models | State and actions against the code |
|---|---|---|
| `EventFeed` | what a relay of events promises | abstract: blocks arrive, a cursor moves forward, only deposits beyond it are paid |
| `BridgeService` | `src/bridge_service.py`, calls of `src/jsc_bridge.py` | `pc` is the point between two calls at which the loop may fail or be killed; one action per piece of `run()` between such points |
| `JSCBridge` | `contracts/JSCBridge.sol` | one action per function; `CountVolume` is the modifiers and requirements that deposit and withdraw share |
| `BridgeSystem` | relay and contract, each alone and both together (`scope`) | a contract call is a block of its own; a deposit leaves its event there for the relay |
| `SovereignRPC`, `Totals` | `contracts/SovereignRPC.sol` | one action per function; `Total` adds balances up without recursion so that it can be reasoned about |
| `GeneralMarketplace` | `contracts/GeneralMarketplace.sol` | one action per function, purchases split into escrowed and direct ones |
| `SelfHealingOrchestrator` | `contracts/SelfHealingOrchestrator.sol` | one action per function; ages instead of times, saturating just above the timeout |
| `MeshOrchestrator` | `src/mesh_network_orchestrator.py` | per node the two loops, split at their awaits, and the three handlers; `listed[n]` is what the election reads of the node table |
| `MarketplaceGovernance` | `contracts/MarketplaceGovernance.sol` | one action per function; the call of a proposal is one of the two policy setters, `Succeeds` says which arguments they accept |
| `LoveViceScore`, `LiquidDemocracy` | the contracts of these names | `UpdateScore` with decay; one action per function of the other, `Recounted`, `Revoked` and `Unlisted` are its internal functions on the `book` of delegations |
| `GovernanceContracts` | the two families in one specification | `contract` chooses which one a behaviour calls, they share nothing but the clock |
| `DecentralizedGovernance` | the module of this name | one action per handler and per pass of the loop; creating a proposal is two steps, around its upload; `announced` and `cast` are what the bus holds |
| `LolDAO` | `src/lol_dao.py`, on top of it | the reviews (`proposal_stages`), the roles, the freeze and its monitor; `deployment` says which nodes run, and which of them are a `LolDAO` |
| `DecentralizedRegistry` | the module of this name | registering is `RegisterEntity`, then `Uploaded` or `UploadRaises`; `Newer` is the comparison in `_apply_update` |
| `LicenseRegistry`, `ProofOfIntegrity`, `ProofOfUse` | the modules of these names | issuing and revoking are split at the decision they wait for; the validation worker takes one request per step |
| `FederatedLearning` | the module of this name | one action per method; a round that raises half way leaves the layers before the missing one updated |
| `SovereignRPCNode` | `src/sovereign_rpc_node.py` | `store_data`, retrieval, and the replication pass, one entry of the dictionary at a time |
| `TokenEconomics` | `src/core/token_economics.py` | genesis with any ratios, and fees; amounts counted in fixed fees |
| `MessageManager` | `src/p2p/message_manager.py` | storing in two steps around the upload, reading, cleaning; a file in its steps (`Following`); `retention` and `ipfsConfig` are the configuration |
| `ContentStorage` | `src/utils/decentralized_storage.py`, `src/utils/blockchain_cdn.py` | one action per step of a call between which another process can touch the file; `linked` is whether an open file is still the one at the path; a content stands for its hash |
| `PeerConnections` | `src/p2p/webrtc_manager.py`, `src/p2p/stun_turn_server.py` | one action per message; `aliased` is whether a connection and the server hold the same list |
| `NodeNetwork` | `src/p2p/node_network.py` | one action per peer that is asked; `Iterating` is Python's check that the set has not grown |
| `IOTABatchHandler` | `POI/src/iota_batch_handler.py` | `add_request` before and after its await, with the batch it holds on to; executions begin and end |
| `ModelMarketplace` | `src/model_marketplace.py`, the contract as its calls see it | a call reads, takes a nonce, sends, waits for a receipt; one pending transaction, replaced or refused |
| `ModelFusion` | `src/model_fusion.py`, on the same account | scores and connection points as operators, creating and using fused models as calls |
| `AIAssistant` | `src/ai_assistant.py` | catalogue and preferences change between the steps of an answer; scores as operators, sorting by the rank each entry gets (`Rank`) |
| `NodeServices` | all Python services from the governance on | `service` chooses which one a behaviour runs |
| `*_proofs` | | the theorems about the module they extend, see section 4 |
| `MC*` | | instances for TLC |

Definitions keep the names of the code. A *mutant* (`Foo_Variant`, placed before
`Foo`) is the definition with a plausible bug; `PROJECT.json` pairs every checked
property with one, and the property fails when the mutant takes the place of the
definition.

Parts that share no state are composed by a variable that chooses one of them at
the start (`contract`, `service`, `scope`). This is not an interleaving and does
not pretend to be one: a product of independent state machines has no behaviour
that one of them does not have. Where parts do share state (relay and bridge, the
DAO and the governance under it, the fusion engine and the marketplace client)
they interleave.

History variables (marked `history` where they are declared) are read by
properties and by no action, except where one is also a bound (`crashes`,
`calls`, `purchases`, `handed`, `feesPaid`, `contributed`).

## 3. What the runs check

Properties separated by a semicolon are parts of one named property.

| Run | Instance | Properties |
|---|---|---|
| `bridge_system` | relay: 2 deposits, 3 blocks, 2 crashes; contract: 1 user, day of 2 ticks, 5 ticks; both: 1 tick, 1 crash | `PaidOncePerIncarnation`, `NoGapBetweenRanges`, `SettledStaysSettled`, refinement of `EventFeed` (`ImplementsFeed`), `EveryDepositResolved` of the relay; `DailyLimitKept` of the contract: the counter is what moved since the reset, and no 24 hours see more than twice the highest limit; `PayoutsMatchMints`: JSC sent is bounded by JOY minted times the starts of the relay |
| `bridge_peg` | the same | *violated*: JSC is sent for deposits, not for burns |
| `sovereign_rpc` | 2 nodes, amounts 0..2, wealth 3, minimum 1 or 2 | `Solvent`: stakes are backed, everybody has their own money; `StakeAboveLowestMin`; `SlashedIsFrozen` |
| `sovereign_rpc_timelock` | the same | *violated*: a stake is withdrawn in the block of its deposit |
| `market` | 2 users, 1 id, price 20, 2 purchases, 4 calls of listing and rating | `SettledOnce` (escrow paid once), `Accounted` (every JOY), `RatingsCounted` (the average is not above the true one) |
| `market_escrow_solvent` | the same | *violated*: withdrawing fees takes the escrows along |
| `market_oversell` | the same | *violated*: a sold-out stock reads as unlimited |
| `self_healing` | 2 flows sharing an agent, 1 backup, 2 failures | `FailuresCounted`, `CompletedHasAllSteps`, `SilentFlowsEnd` |
| `mesh` | 2 nodes, 1 tick, 2 messages in flight, 1 crash | `RolesAgree`, `StepsDownForNewer`, `ElectionResolves` |
| `governance_contracts` | 2 stakers with 1 JOY each, 2 proposals, 3 policies; 3 voters, 2 scores moved, 2 delegations, 1 id created twice | `StakesBacked`, `TalliesAreVotes`, `PolicyInForce`, `PowerIsDelegated`, `BallotsAccounted`, `DecidedIsFinal` |
| `node_services` | each of the services, bounds below | named in the next table |
| `node_loops` | the four services with a loop, smaller | liveness: `ReadyIsDecided`, `QueuedIsValidated`, `PinnedIsTracked`, `BatchedIsAwaited` |

| Property of `node_services` | What it says |
|---|---|
| `ServicesTypeOK` | the types of all services |
| `DecisionsStand` | governance: a decision has its quorum of real votes and is never called a failed one later; a proposal runs at most once by votes and once by its stages; only what all roles passed freezes |
| `HoldsNewest` | registry: a node holds the newest entry it has seen, whatever the bus does, unless registrations of the entity overlapped |
| `ValidatorsBacked` | consensus: who counts holds a licence in force; a proof on the bus has its request and its result; producers are listed where they are announced |
| `FeesAccounted` | economics: pool and treasury hold the fees and the share, but for what the genesis overwrote |
| `StoredIsHad` | messages: listed as often as stored while young, readable when handed in once; a returned file hash is in IPFS, pinned if files are and described if metadata were given; models: what a call returned can be retrieved; if no other call overlapped it, it is the right one, and a model that was stored whole is read; cache: the content is on the best node there was |
| `PeersReached` | a connection has every candidate granted before and signalled since; messages reach the peer meant, files unless their channel was made anew; a broadcast that returns has asked all peers and takes the most frequent result |
| `CallersToldTruth` | marketplace and fusion: who got True or an id has a transaction in the chain; fused models share the whole revenue |
| `AdviceHolds` | assistant and engine: a score is the same for every order of the models and does not fall with a model more; better is not behind; suggestions and configurations have a reason |
| `RoundsAreSound` | federated learning: a round moves every layer; no contribution more than an interval after the approval |
| `OnlyOverlapsHarm` | batches: a message is received twice only by overlapping executions; marketplace: an update keeps what it does not name, unless another write came in between |

### Why the bounds suffice

* Bridge: the shortest double payment needs one deposit, one crash and one
  restart; two deposits let one be paid and one fail in a range, two crashes let
  a save fail between them, three blocks allow two ranges and a start behind the
  head. The properties of the contract relate at most two windows; five ticks
  with a day of two cover three, and a limit that is lowered and raised again.
* Staking: nodes do not touch each other's records, so two tell "own" from
  "other"; amounts up to 2 on a wealth of 3 reach the guards from both sides.
* Marketplace: 20 is the smallest price with a fee of its own. One id that is
  listed up to three times and sold twice is enough to overwrite an escrow; two
  users to race a release against a refund, and to disagree on a rating. Four calls
  are a listing, two ratings whose average is rounded and one of them replaced, from
  the rounded total. The two violated runs get by with three.
* Self-healing: the second flow is there for the agent it shares with the
  first: answers to one flow keep an agent alive for the other. Ages saturate
  above the timeout because the code only ever compares them with it.
* Mesh: a split vote needs two nodes; the shortest late state needs two times
  and a message that waits. The bound on messages in flight also drops
  broadcasts, which the bus allows. At the last tick of the clock the model goes
  on with time standing still; the liveness property does not depend on it, for
  no wait of the model is for a later time.
* Governance contracts: JOY handed from one staker to the other votes twice, and
  the two proposals are voted on with different stakes; one policy is refused by
  its setter. Voting ends at the tick it began and may be executed for one tick,
  so that three ticks see it open, in its window and too late. Three voters are
  the least for a list of two delegators with one in front; one that delegates a
  second time meets its own former delegation.
* DAO: two nodes of the base class with one proposal see votes late, again and in
  different orders; one node with two proposals sees one that raises before one
  that is ready; one `LolDAO` has both loops. Quorum 0 and quorum 2 are the two
  sides of the hazard; a role that is removed once is enough to be missing.
* Registry: three registrations of one entity by two nodes at two times are the
  least with an older, a newer and an equal time stamp. A queue of one entry
  loses nothing: an update that does not fit arrives later, as the bus allows.
* Licences, consensus: three licences let a holder keep one when another is
  revoked twice at the same time; the six applications each fail one
  requirement or none. Two requests see one whose broadcast raises before
  another.
* Federated learning: two layers in either order, or one of them missing, are all
  an interrupted round can do; the clock starts behind the first check interval and
  passes another one: an answer is taken, kept, and asked for again.
* RPC node: two cids are a pass that is cut short behind the first.
* Economics: a supply of 20 with a threshold of 3 sweeps the pool before and after
  the genesis; one allocation has no treasury, one is less and one more than the
  whole.
* Messages: two channels, two messages, each handed in twice, and an age of 0
  clean, repeat and decrypt across channels. Every configuration is run, and each
  file with metadata and without. Batches: two requests fill a batch, a third one
  goes to another model.
* Model storage: three calls of two processes are a store whose model is loaded while
  another one is stored. `"mid"` stands for `"short"` too, whose outcomes it has.
  Cache: three nodes with two stakes, one copy for the code's three, so that somebody
  is left out. A heartbeat is two ticks old at most.
* Peers: two, with one signalled candidate each and the two the server grants; two
  channels, one text and one file. Three peers answer a broadcast, so that two
  results can differ and one can win.
* Marketplace client: two processes and two mined transactions are the least that
  share a nonce, replace each other and meet between read and write. Metadata is
  one key, and one field outside of it.
* Fusion and assistant: collections of two and three models over the four
  combinations of formats and kinds that the score tells apart. `TopCount` is 2
  for the code's 5, with three models on offer, so that the cut takes one away. One
  preference sets both keys, so that a user's models are scored with and without.
* `MCNodeServices.cfg` declares the two nodes, workers or processes of eight modules
  symmetric (`MCSymmetry`): nothing in those modules compares or chooses among them,
  the other services do not use them, and the run has safety properties only.
* The loops instance is smaller (one request to validate, no `LolDAO`, a latency of
  one tick) because liveness is checked on the whole graph; each property still has
  its obstacle: a quorum of zero, a broadcast that raises, a pass cut short, an
  execution under way, of the same model or, with three requests for two models, of
  another one.

### Fairness

* Bridge: weak fairness on the relay's own step: its loop does not return and
  its container restarts it. No fairness on mining or on the calls succeeding.
  `EveryDepositResolved` then holds unless the service is down with an empty file,
  which it never leaves; that the file is empty while it is written is no excuse.
* Self-healing: time passes, and somebody calls `checkFlowHealth` for each flow
  as long as it changes something. The contract cannot call itself: without that
  caller nothing heals.
* Mesh: the two loops of a running node keep running and messages in flight
  arrive. Strong fairness on winning an election stands for the random priority
  drawn for every message: a node is not outbid every time for ever.
* Services: weak fairness on the bodies of the loops that are created once and
  never return: deciding on every node, the validation worker, the replication
  pass, the check of the batches. For the batches also that time passes, but not
  that an execution ends: neither `gather` (`POI/src/iota_batch_handler.py:75`) nor
  the receiving of a message (`POI/src/iota_inference_handler.py:50`) has a timeout.
  `BatchedIsAwaited` therefore excuses what waits while the loop stays in one
  execution for ever. None on the bus, on uploads or on lookups succeeding. The loop of the RPC node would be
  created by `start()`, which raises before: the property is about the loop once
  it runs.

The other properties are safety. `CHECK_DEADLOCK FALSE` is set in all
configurations because clocks, blocks and calls are bounded, so every model
stops when its bounds are used up.

## 4. What is proved

Assumptions are the `ASSUME`s of the modules: numbers are naturals; the sets of
accounts, voters, nodes of the DAO and of the mesh, of deposit events and of the words
of a question are finite, so that what they hold can be added up; sentinels are no values, and a saved model
is no metadata; calls, preferences and deployments are of the shape the code gives them. Nothing limits how many deposits,
blocks, crashes, nodes, users or calls there are.

The contracts:

* **`BridgeSystem_proofs`**. The relay alone: `TypeCorrect`, `PaidOnce`, `NoGap`,
  `Settled` and `Refinement`. None of the properties is inductive: whether a payment
  is a second one depends on what this incarnation has passed, which depends on where
  the three pointers stand. The invariant `IInv` says it in four parts: `Pointers`
  orders saved, last and current block and ties them to the file; `Owed` says which
  events the loop still has to pay; `Covered` that everything behind a pointer was
  tried or missed; `Payments` that a deposit not yet passed was paid at most once per
  earlier crash. `Refinement` maps the cursor to `saved`; its step uses `IInv` to see
  that a payment lies beyond the cursor. `RelayInSystem` carries all of them over to
  the relay beside the contract. The contract: `DailyLimit`. The counter bounds what
  moved since the last reset, and a window of 24 hours can reach across one reset but
  not two; so the invariant `DayInv` bounds what moved from any tick within a day of
  the last reset up to it (`BeforeReset`), and keeps the bound of every day that ended
  earlier (`EndedDays`). Both: `PayoutsBacked`. What events say was minted is in
  circulation or burned (`EventsBacked`), and an event is paid at most once per start.
* **`SovereignRPC_proofs`**: `Solvency`, `AboveLowest`, `SlashingFinal`. The
  invariant adds that the lowest minimum is below the current one, and that an
  account that never registered has no stake, which a registration would
  otherwise lose from the books.
* **`GeneralMarketplace_proofs`**: `TypeCorrect`, `PaidOutOnce`, `EveryJoyAccounted`
  and `RatingsAreFair`. The first invariant adds that a purchase has at most one
  escrow record, that an open record was never paid and a purchase number not given
  out was neither, and that a rating in force was counted, without which the average
  would divide by zero. `MoneyInv` adds that a stranded record is no record any more,
  so that none counts twice.
* **`SelfHealingOrchestrator_proofs`**: `HealingIsHonest` and `NoStepSkipped`, which
  are inductive together: what replaces an agent keeps both the list of steps and the
  failures that were counted.
* **`MeshOrchestrator_proofs`**: `NamesAgree` and `OnlyNewerWins`. The first says of
  every node, and of every state on its way, that its time is no later than the clock
  (`NothingFromTheFuture`); a node that names itself is coordinator. The second needs
  that no state is stamped ahead of the last broadcast of its sender (`StampsInPast`).
* **`GovernanceContracts_proofs`**. `MarketplaceGovernance`: `TypeCorrect`, `Backed`,
  `VotesTallied`, `PolicyVoted`, `Final`. The invariant joins the safety properties
  (types need the total for `unstake`, a policy needs that executed ballots no longer
  move) and adds `Fresh`: numbers not given out yet are undecided, so that proposing
  touches nothing final. `MarketplaceInGovernance` carries the theorems over to the two
  families. `LiquidDemocracy`: `PowerDelegated` and `BallotsTallied`. The heart is one
  lemma for each of the two changes of the book, a delegation taken off a list by
  moving the last one into its place and a delegation added at the end: both lead from
  a good book to a good one (`GoodBook`), where an active delegation has a delegate
  among the users (`Live`). That a recount of the list gives the sum over all users is
  `TotalElsewhere`: the list carries each active share to a place of its own. For the
  ballots, who has not voted has no weight on record (`Recorded`), and an execution is
  counted exactly if the ballot is executed.

The services, all in **`NodeServices_proofs`**. Each service has an invariant of its
own; a step of the composition is a step of one service and leaves the others alone.

| Theorem | Property | What its invariant adds |
|---|---|---|
| `DaoDecides` | `DecisionsStand` | what is counted was cast, and a vote is replaced by a vote only, so that what decided stays enough; no proposal that froze leaves its last stage |
| `NewestHeld` | `HoldsNewest` | an entry that waits for its upload is newer than all others of its entity, unless registrations overlapped: finishing it overwrites the cache unseen |
| `ConsensusIsBacked` | `ValidatorsBacked` | types; the three parts are inductive with them |
| `RoundsSound` | `RoundsAreSound` | the kept answer is no newer than the last approval; no round before there is a model |
| `FeesKept` | `FeesAccounted` | until the genesis the treasury has no share and has lost nothing; a lemma shows that the unit of the allocation divides the supply |
| `UsersHaveStored` | `StoredIsHad` | a message nobody handed in is nowhere; a file has been through the steps before the one it is at, those that the configuration and the call leave out excepted; a call that no other overlapped is alone and has the file for itself, so that it reads what was stored whole; every node of the cache is registered once, and among active ones there is a best one, which is selected |
| `PeersAreReached` | `PeersReached` | what the server granted is in its list, and nothing else but what was signalled; a channel keeps a peer once it has one; who was asked is a peer |
| `CallersAreToldTruth` | `CallersToldTruth` | the number of a transaction that waits is in no receipt, so that a mined one is counted once; calls under way carry whole shares |
| `OverlapsHarmOnly` | `OnlyOverlapsHarm` | who is in a batch has ended its call, and one that was awaited is there only while the batch is executed; an update is based on no newer model than there is |
| `AdviceIsSound` | `AdviceHolds` | an answer is the one of the present catalogue and preferences (`AnsweredNow`), whose ids differ; the engine's score is that of what it was last asked. What is scored and its ranks are a bijection (`SortedAtRank`), so that nothing is lost and equals keep their order; models at places of their own among others do not score higher (`ScoreGrows`), so that every order scores the same (`OrderScoresSame`) |
| `ServicesTyped` | `ServicesTypeOK` | the services' invariants, and what they left open: dictionaries have the keys the code gives them, once each (`AppendNew`); a call carries models and metadata it was handed; the loop's position is within the dictionary it goes through; counters stay within their bounds because every step that raises one is guarded |

**`Totals_proofs`** holds what the proofs share: changing one value changes a total by
the difference (`TotalUpdate`), parts of a total, values at other places
(`TotalElsewhere`), values at most k times as large (`TotalScaled`), and that a finite
set has a best member (`BestExists`). Totals are cardinalities of sets of units, so
that none of it needs an induction over data; where the argument is one by nature, it
goes to a smallest counterexample, which finite cardinalities have.

Only model-checked: liveness (`EveryDepositResolved`, `SilentFlowsEnd`,
`ElectionResolves` and the four properties of `node_loops`), which is beyond the
prover. Every invariant and every action property of a passing run is a theorem.

## 5. What the code does that a reader may not expect

With a run: the four runs marked *violated* above; `findings` in
`PROJECT.json` quotes the lines they contradict.

Without one, because the code never does otherwise and there is no property to
keep. The models contain each of these behaviours where they model the code.

Contracts and relay:

* The relay reads the pause flag after it has paid the deposits of its cycle
  (`src/bridge_service.py:100`), and without a file it starts at the newest
  block, so deposits before the first save are passed over.
* The bridge contract calls `mint` and `burnFrom` of the token it imports, and
  `contracts/JoyToken.sol` has neither: its functions for the bridge are
  `mintFromJSC` (`:72`) and `burnForJSC` (`:82`). `test/JSCBridge.test.js:37` and
  `scripts/deploy_bridge.js:29` grant the bridge a role of the older token,
  `POI/smart-contracts/contracts/core/JoyToken.sol`, which has the two names; its
  `burnFrom` also asks for an allowance. The model gives the two calls what the two
  functions do, as if they had the names.
* It pays deposits of the newest block at once; `confirmation_blocks: 10` of
  `config/jsc.yaml` is read nowhere.
* Stakes and scores are not locked by a vote. JOY that is unstaked, handed on and
  staked again votes a second time in `MarketplaceGovernance`; in
  `LiquidDemocracy` a delegator votes with its own score as well, the delegate
  keeps what it voted with, and the weight delegated is compared with no score.
  What the models show is that the result is the sum of what was recorded. A
  score decays only when it is next moved.
* A release pays the owner the listing has *now* (`GeneralMarketplace.sol:175`),
  who may not be the seller once an id was re-used; order numbers restart then,
  so that a later order can overwrite an open escrow (`stranded` in the model).
* An average that was rounded to 0 or re-created stays too low: the model shows
  it is never too high.
* `HEALING_DELAY` is declared and read nowhere: three health checks in one block
  fail a flow. A flow that is created again keeps the steps it had completed.
* Not modelled yet: a node that its owner deactivated registers again and
  overwrites its first stake (`NodeCoordinator.sol:83`); `completeTask` does not
  look at the status of the task (`AgentMarketplace.sol:151`).

Nodes and votes:

* A mesh node adopts a state with the sender's older time of update, so that two
  coordinators can both step down for each other, and every node then names a
  listed coordinator that does not act. A coordinator that crashes stays listed
  at its followers, since only a coordinator removes silent nodes. Nothing
  elects a new one in either case; `ElectionResolves` therefore promises a
  coordinator once, not for ever. A broadcast of an election that raises leaves the
  flag of its node up (`src/mesh_network_orchestrator.py:180`); when that has happened
  to all running nodes there is no election any more, which the property excuses.
* A proposal of the DAO is executed by the stages and by the vote loop of the base
  class, neither knowing of the other: twice, or on votes alone. Approvals of a
  member who lost the role still count. The freeze monitor looks at proposals
  that are never removed, so that a day after the first freeze it lifts every
  later one at once. `start()` raises at a handler that is not defined.
* A quorum of zero makes the decision loop divide by zero, in every pass, for all
  proposals behind it too. Nodes decide from the votes they have seen; nothing
  makes them agree.
* Two registrations of one entity that overlap leave a node with the older entry,
  although the comment at `src/decentralized_registry.py:175` says that "the
  timestamp will ensure that newer updates take precedence"; the comparison is
  made for received updates only. `HoldsNewest` excludes the overlap. Signatures
  are not verified.
* Revoking a licence removes its holder from the active validators even when
  another licence of theirs is in force; expiry is written and never read.
* A requester of an integrity proof finds the proofs of its own worker only:
  nothing stores what others broadcast. The queue of `proof_of_use.py` is filled
  by nobody, and its worker would call a method that does not exist.

Services:

* A withdrawn approval stops federated learning at the next successful query of
  the registry, up to an interval later. An update that lacks a layer leaves the
  round half done.
* `start()` of the RPC node raises before it creates its loops: nothing sets the
  staking contract it calls.
* The genesis sets the treasury to its share, so that fees swept into it before
  are gone (`src/core/token_economics.py:67`); it may also be without a treasury.
* A message whose upload failed has been encrypted already; handed in again, it is
  encrypted twice, and each reader takes off one layer, for good.
* Whatever the background task of the batches waits for has no timeout: a result that
  never comes leaves the batches of all models unexecuted, unless a caller fills one.
* A request that comes to a batch handler while its batch is executed is added to
  a batch nobody looks at any more and never awaited.
* The marketplace client does not look at the status in a receipt: True means
  mined, also when the call reverted. `contracts/ModelMarketplace.json` lacks
  functions the client calls, and `useModel` of the contract takes other
  arguments: such calls raise before they are sent. A model registered without
  additional metadata raises as well.
* Processes of one directory that store and load models at the same time may get the
  model of the other, a file that is written half, or none: all use `temp_model.pt`
  (`src/utils/decentralized_storage.py:213`, `:249`). Arweave's provider returns the
  same identifier for everything (`:136`), and the cache takes no files (its test for
  `typing.BinaryIO` is false for what `open` returns), so that no model can be had
  from either.
* A node of the cache is never chosen again five minutes after it registered: nothing
  renews `last_heartbeat` (`src/utils/blockchain_cdn.py:61`).
* An offer of a peer that has used the STUN or TURN server is not answered: its
  candidates are objects that `json.dumps` refuses, and the handler of the stream ends
  (`src/p2p/webrtc_manager.py:140`). `CandidatesComplete` says so of the model.
* A broadcast during which another peer connects raises
  (`src/p2p/node_network.py:38`), whatever was answered until then.
* `test_check_compatibility` of `src/test_model_fusion.py` expects two models to be
  compatible that the code gives 50 points; formats a model does not name match
  each other. The "top models" of `src/ai_assistant.py:184` are the first of an
  unsorted list. The server creates a new assistant, with no preferences, for
  each request (`src/ai_assistant_api.py:43`).

## 6. Not modelled

* Data the properties do not tell apart: metadata, names, descriptions, gas,
  logging; `recordDataRetrieval`, which only emits an event; the texts, insights
  and interaction log of the assistant; the simulated performance test of a
  fusion, which returns random numbers.
* Starting and stopping of hosts, and vaults of secrets: `src/utils/crypto_vault.py`
  uses `time` without importing it, so that none is ever stored.
* Code that is in no file of the repository: the message bus, `CryptoVault.sign`,
  `ipfs.upload_json`, `get_all_models`, the fusion contract. They are modelled
  as external, by what their callers can see of them, as are the ERC-20 base of
  the token, the OpenZeppelin Governor, web3, IPFS and the wallet.
* Classes that cannot be constructed as they are: `src/decentralized_node.py` passes
  arguments its storage does not take, `src/edge_node.py` imports an empty module,
  and `src/p2p/mesh_network.py` calls `hashlib` without importing it. They have no
  behaviour beyond the error.
* `src/privacy/privacy_core.py` and the provers: placeholders for cryptography,
  whose range proofs are made from one value and verified against another.
* Front ends, HTTP middleware, AI analyzers, deployment material and the vendored
  RPC bundle, which keep no protocol state.
* The remaining components are listed in `PROJECT.json` with their reasons; the
  plan below says which come next.

## 7. Plan

In this order, the parts with money or votes at stake first:

1. **Node and task contracts** (`NodeCoordinator`, `AgentMarketplace`) over one token:
   backing of stakes and budgets, loads that match open tasks. To prove: backing.
2. **Model, licence and data markets** on the chain: `ModelMarketplace.sol` in
   full, so that the client of it refines what it expects; `ModelLicense`,
   `RevenueLogger`, `DataMarketplace`, `DataOwnership`; then identity, inference
   and privacy contracts and the roles of the token.
3. **The registries** under `smart-contracts/` and the older generation under `POI/`,
   of which the Polygon bridge and the treasury distributor come first.

Proofs planned next: the contracts above come with their backing as the first theorem;
what is modelled now has its safety properties proved.
