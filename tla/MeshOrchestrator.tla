--------------------------- MODULE MeshOrchestrator ---------------------------
(***************************************************************************)
(* src/mesh_network_orchestrator.py: every node of the mesh sends          *)
(* heartbeats, keeps what it knows of the network, and elects a            *)
(* coordinator, which prunes silent nodes and broadcasts its own view for  *)
(* the others to adopt.  Each node is one event loop: between two awaits   *)
(* nothing else runs on it, but the other nodes do.                        *)
(*                                                                         *)
(* The bus is not under src/: its two calls are modelled from their use, a *)
(* broadcast reaching any of the nodes, in any order and at any time.      *)
(* Clocks are synchronous.  Of network_state["nodes"] only what the        *)
(* election reads is kept, whether the coordinator is listed: heartbeats   *)
(* list it, pruning removes it, and a view adopted from another node may   *)
(* hold it or not.                                                         *)
(***************************************************************************)
EXTENDS Integers, FiniteSets

CONSTANTS
  Node,
  MaxTime,       \* bound on the clock
  MaxInFlight,   \* bound on undelivered messages
  MaxCrashes     \* bound on crashes

ASSUME MeshAssumption ==
  /\ IsFiniteSet(Node)
  /\ MaxTime \in Nat /\ MaxInFlight \in Nat /\ MaxCrashes \in Nat

VARIABLES
  now,
  up,            \* the node is running
  listed,        \* coordinator_id is in network_state["nodes"]
  lastUpdated,   \* network_state["last_updated"]
  isCoordinator, coordinator, electionInProgress,
  waiting,       \* the check loop sleeps in _start_coordinator_election
  updating,      \* between _update_network_state and its broadcast
  msgs,          \* messages on their way
  crashes,       \* history: number of crashes
  claimed        \* history: time of the last state each node broadcast

view  == <<listed, lastUpdated>>
role  == <<isCoordinator, coordinator, electionInProgress>>
tasks == <<waiting, updating>>
vars  == <<now, up, view, role, tasks, msgs, crashes, claimed>>

Never == -1
Nobody == "nobody"

Time == 0 .. MaxTime

Message ==
  [type: {"election"}, to: Node]
    \cup [type: {"state"}, from: Node, to: Node, ts: Time, updated: Time]

TypeOK ==
  /\ now \in Time
  /\ up \in [Node -> BOOLEAN]
  /\ listed \in [Node -> BOOLEAN]
  /\ lastUpdated \in [Node -> Time]
  /\ isCoordinator \in [Node -> BOOLEAN]
  /\ coordinator \in [Node -> Node \cup {Nobody}]
  /\ electionInProgress \in [Node -> BOOLEAN]
  /\ waiting \in [Node -> BOOLEAN]
  /\ updating \in [Node -> BOOLEAN]
  /\ msgs \subseteq Message /\ Cardinality(msgs) <= MaxInFlight
  /\ crashes \in 0 .. MaxCrashes
  /\ claimed \in [Node -> Time \cup {Never}]

Init ==
  /\ now = 0
  /\ up = [n \in Node |-> TRUE]
  /\ listed = [n \in Node |-> FALSE]
  /\ lastUpdated = [n \in Node |-> 0]
  /\ isCoordinator = [n \in Node |-> FALSE]
  /\ coordinator = [n \in Node |-> Nobody]
  /\ electionInProgress = [n \in Node |-> FALSE]
  /\ waiting = [n \in Node |-> FALSE]
  /\ updating = [n \in Node |-> FALSE]
  /\ msgs = {}
  /\ crashes = 0
  /\ claimed = [n \in Node |-> Never]

-----------------------------------------------------------------------------
\* Nothing else runs on a node between the update of its state and the broadcast.
Free(n) == up[n] /\ ~updating[n]

\* message_manager.broadcast_message: copies reach some of the nodes.
Broadcast(copies) ==
  \E arriving \in SUBSET copies :
    /\ msgs' = msgs \cup arriving
    /\ Cardinality(msgs') <= MaxInFlight

\* Whether a new coordinator is listed depends on the heartbeats heard before.
Relist(n) == \E b \in BOOLEAN : listed' = [listed EXCEPT ![n] = b]

(* The heartbeat loop of the coordinator; any other node only sends the    *)
(* heartbeats HandleNodeHeartbeat receives.                                *)

\* The coordinator is listed no longer when its own entry is stale.
UpdateNetworkState(n) ==
  /\ Free(n) /\ isCoordinator[n]
  /\ lastUpdated' = [lastUpdated EXCEPT ![n] = now]
  /\ \E stale \in BOOLEAN : listed' = [listed EXCEPT ![n] = @ /\ ~stale]
  /\ updating' = [updating EXCEPT ![n] = TRUE]
  /\ UNCHANGED <<now, up, role, waiting, msgs, crashes, claimed>>

BroadcastNetworkState(n) ==
  /\ up[n] /\ updating[n]
  /\ Broadcast([type: {"state"}, from: {n}, to: Node, ts: {now}, updated: {lastUpdated[n]}])
  /\ claimed' = [claimed EXCEPT ![n] = now]
  /\ updating' = [updating EXCEPT ![n] = FALSE]
  /\ UNCHANGED <<now, up, view, role, waiting, crashes>>

-----------------------------------------------------------------------------
(* The election check loop.                                                *)

\* Mutant of CheckElection: the flag is not raised.
CheckElection_NoFlag(n) ==
  /\ Free(n) /\ ~waiting[n]
  /\ coordinator[n] = Nobody \/ ~listed[n]
  /\ ~electionInProgress[n]
  /\ UNCHANGED <<now, up, view, role, updating, crashes, claimed>>

CheckElection(n) ==
  /\ Free(n) /\ ~waiting[n]
  /\ coordinator[n] = Nobody \/ ~listed[n]
  /\ ~electionInProgress[n]
  /\ electionInProgress' = [electionInProgress EXCEPT ![n] = TRUE]
  /\ UNCHANGED <<now, up, view, isCoordinator, coordinator, updating, crashes, claimed>>

StartElection(n) ==
  /\ CheckElection(n)
  /\ Broadcast([type: {"election"}, to: Node])
  /\ waiting' = [waiting EXCEPT ![n] = TRUE]

\* The broadcast raises: the loop logs the error and the flag stays up.
StartElectionFails(n) == CheckElection(n) /\ UNCHANGED <<waiting, msgs>>

\* The election timeout is over and nobody has outbid this node.
Win(n) ==
  /\ Free(n) /\ waiting[n] /\ electionInProgress[n]
  /\ isCoordinator' = [isCoordinator EXCEPT ![n] = TRUE]
  /\ coordinator' = [coordinator EXCEPT ![n] = n]
  /\ electionInProgress' = [electionInProgress EXCEPT ![n] = FALSE]
  /\ waiting' = [waiting EXCEPT ![n] = FALSE]
  /\ Relist(n)
  /\ UNCHANGED <<now, up, lastUpdated, updating, msgs, crashes, claimed>>

Lose(n) ==
  /\ Free(n) /\ waiting[n] /\ ~electionInProgress[n]
  /\ waiting' = [waiting EXCEPT ![n] = FALSE]
  /\ UNCHANGED <<now, up, view, role, updating, msgs, crashes, claimed>>

-----------------------------------------------------------------------------
(* The handlers of the three subscriptions.                                *)

\* A heartbeat of the coordinator; those of other nodes change nothing read here.
HandleNodeHeartbeat(n) ==
  /\ Free(n) /\ coordinator[n] # Nobody /\ up[coordinator[n]]
  /\ listed' = [listed EXCEPT ![n] = TRUE]
  /\ UNCHANGED <<now, up, lastUpdated, role, tasks, msgs, crashes, claimed>>

\* Mutant of HandleNetworkState: any state is adopted, however old.
HandleNetworkState_AnyAge(m) ==
  /\ m.type = "state"
  /\ Relist(m.to)
  /\ lastUpdated' = [lastUpdated EXCEPT ![m.to] = m.updated]
  /\ coordinator' = [coordinator EXCEPT ![m.to] = m.from]
  /\ isCoordinator' = [isCoordinator EXCEPT ![m.to] = @ /\ m.from = m.to]
  /\ UNCHANGED electionInProgress

\* Mutant of HandleNetworkState: a coordinator that adopts a rival stays one.
HandleNetworkState_StaysOn(m) ==
  /\ m.type = "state"
  /\ IF m.ts > lastUpdated[m.to]
     THEN /\ Relist(m.to)
          /\ lastUpdated' = [lastUpdated EXCEPT ![m.to] = m.updated]
          /\ coordinator' = [coordinator EXCEPT ![m.to] = m.from]
     ELSE UNCHANGED <<view, coordinator>>
  /\ UNCHANGED <<isCoordinator, electionInProgress>>

\* The state adopted carries its own time of update.
HandleNetworkState(m) ==
  /\ m.type = "state"
  /\ IF m.ts > lastUpdated[m.to]
     THEN /\ Relist(m.to)
          /\ lastUpdated' = [lastUpdated EXCEPT ![m.to] = m.updated]
          /\ coordinator' = [coordinator EXCEPT ![m.to] = m.from]
          /\ isCoordinator' = [isCoordinator EXCEPT ![m.to] = @ /\ m.from = m.to]
     ELSE UNCHANGED <<view, isCoordinator, coordinator>>
  /\ UNCHANGED electionInProgress

\* The priority of the message is compared with one drawn anew: either may win.
HandleCoordinatorElection(m) ==
  /\ m.type = "election"
  /\ \E outbid \in BOOLEAN :
       electionInProgress' = [electionInProgress EXCEPT ![m.to] = @ /\ ~outbid]
  /\ UNCHANGED <<view, isCoordinator, coordinator>>

Deliver(m) ==
  /\ Free(m.to)
  /\ HandleNetworkState(m) \/ HandleCoordinatorElection(m)
  /\ msgs' = msgs \ {m}
  /\ UNCHANGED <<now, up, tasks, crashes, claimed>>

-----------------------------------------------------------------------------
\* The process ends and everything on its way to it is lost.
Crash(n) ==
  /\ up[n] /\ crashes < MaxCrashes
  /\ crashes' = crashes + 1
  /\ up' = [up EXCEPT ![n] = FALSE]
  /\ listed' = [listed EXCEPT ![n] = FALSE]
  /\ lastUpdated' = [lastUpdated EXCEPT ![n] = 0]
  /\ isCoordinator' = [isCoordinator EXCEPT ![n] = FALSE]
  /\ coordinator' = [coordinator EXCEPT ![n] = Nobody]
  /\ electionInProgress' = [electionInProgress EXCEPT ![n] = FALSE]
  /\ waiting' = [waiting EXCEPT ![n] = FALSE]
  /\ updating' = [updating EXCEPT ![n] = FALSE]
  /\ msgs' = {m \in msgs : m.to # n}
  /\ UNCHANGED <<now, claimed>>

\* A new process starts with an empty state of the current time.
Restart(n) ==
  /\ ~up[n]
  /\ up' = [up EXCEPT ![n] = TRUE]
  /\ lastUpdated' = [lastUpdated EXCEPT ![n] = now]
  /\ UNCHANGED <<now, listed, role, tasks, msgs, crashes, claimed>>

Tick ==
  /\ now < MaxTime
  /\ now' = now + 1
  /\ UNCHANGED <<up, view, role, tasks, msgs, crashes, claimed>>

HeartbeatLoop(n) == UpdateNetworkState(n) \/ BroadcastNetworkState(n)

ElectionCheckLoop(n) == StartElection(n) \/ StartElectionFails(n) \/ Win(n) \/ Lose(n)

Next ==
  \/ \E n \in Node :
       \/ HeartbeatLoop(n) \/ ElectionCheckLoop(n) \/ HandleNodeHeartbeat(n)
       \/ Crash(n) \/ Restart(n)
  \/ \E m \in msgs : Deliver(m)
  \/ Tick

Spec == Init /\ [][Next]_vars

\* The two loops of a running node keep running, time passes, messages that are on
\* their way arrive; priorities are random, so that no node is outbid for ever.
FairSpec ==
  /\ Spec
  /\ WF_vars(Tick) /\ WF_vars(\E m \in msgs : Deliver(m))
  /\ \A n \in Node :
       WF_vars(HeartbeatLoop(n)) /\ WF_vars(ElectionCheckLoop(n)) /\ SF_vars(Win(n))

-----------------------------------------------------------------------------
(* Properties.                                                             *)

\* Whoever believes to be the coordinator also names itself: no adopted state, own
\* messages that come back included, leaves a node with two coordinators.
CoordinatorNamesItself ==
  \A n \in Node : isCoordinator[n] => coordinator[n] = n

\* No state is stamped ahead of the clock: neither what a node holds, nor what it
\* broadcast, nor what is on its way, whose update is not after its broadcast.
NothingFromTheFuture ==
  /\ \A n \in Node : lastUpdated[n] <= now /\ claimed[n] <= now
  /\ \A m \in msgs : m.type = "state" => m.updated <= m.ts /\ m.ts <= now

\* On states of the right types.
RolesAgree == TypeOK /\ CoordinatorNamesItself /\ NothingFromTheFuture

\* A coordinator steps down only for a rival that broadcast a state after its own
\* last update, whatever arrives late or out of order.
StepsDownForNewer ==
  [][\A n \in Node : isCoordinator[n] /\ ~isCoordinator'[n] /\ up'[n] =>
       \E m \in Node \ {n} : claimed[m] > lastUpdated[n]]_vars

\* An election comes to an end: there is a coordinator at some time, unless a
\* failed broadcast has left every running node with its flag up and no election
\* under way, after which none starts one.
Stuck(n) == electionInProgress[n] /\ ~waiting[n]

ElectionResolves ==
  <>((\E n \in Node : isCoordinator[n]) \/ \A n \in Node : up[n] => Stuck(n))
=============================================================================
