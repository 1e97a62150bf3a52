----------------------- MODULE MeshOrchestrator_proofs -----------------------
(***************************************************************************)
(* Proofs about MeshOrchestrator for any finite set of nodes, any number   *)
(* of messages on their way and any number of crashes.                     *)
(***************************************************************************)
EXTENDS MeshOrchestrator, FiniteSetTheorems, TLAPS

\* No state is stamped ahead of the last broadcast of its sender, nor that of the clock.
StampsInPast ==
  /\ \A n \in Node : claimed[n] <= now
  /\ \A m \in msgs : m.type = "state" => m.ts <= claimed[m.from] /\ m.updated <= m.ts

Inv ==
  /\ TypeOK /\ CoordinatorNamesItself /\ StampsInPast
  /\ IsFiniteSet(msgs)
  /\ \A n \in Node : lastUpdated[n] <= now

-----------------------------------------------------------------------------
(* Messages.                                                               *)

\* The copies of a broadcast are as many as the nodes.
LEMMA CopiesFinite ==
  ASSUME NEW n, NEW ts, NEW updated
  PROVE  /\ IsFiniteSet([type: {"election"}, to: Node])
         /\ IsFiniteSet([type: {"state"}, from: {n}, to: Node, ts: {ts}, updated: {updated}])
<1> DEFINE E == [type: {"election"}, to: Node]
           S == [type: {"state"}, from: {n}, to: Node, ts: {ts}, updated: {updated}]
           e == [k \in Node |-> [type |-> "election", to |-> k]]
           s == [k \in Node |-> [type |-> "state", from |-> n, to |-> k, ts |-> ts,
                                 updated |-> updated]]
<1>1. e \in Surjection(Node, E)
  <2>1. e \in [Node -> E]
    OBVIOUS
  <2>2. ASSUME NEW m \in E PROVE m.to \in Node /\ e[m.to] = m
    OBVIOUS
  <2>3. QED
    BY <2>1, <2>2 DEF Surjection
<1>2. s \in Surjection(Node, S)
  <2>1. s \in [Node -> S]
    OBVIOUS
  <2>2. ASSUME NEW m \in S PROVE m.to \in Node /\ s[m.to] = m
    OBVIOUS
  <2>3. QED
    BY <2>1, <2>2 DEF Surjection
<1> HIDE DEF e, s, E, S
<1>3. IsFiniteSet(E) /\ IsFiniteSet(S)
  BY <1>1, <1>2, FS_Surjection, MeshAssumption
<1>4. QED
  BY <1>3 DEF E, S

\* What a node may find in a state that reaches it.
LEMMA StateMessage ==
  ASSUME TypeOK, NEW m \in msgs, m.type = "state"
  PROVE  m.from \in Node /\ m.to \in Node /\ m.ts \in Time /\ m.updated \in Time
BY DEF TypeOK, Message

LEMMA Receiver == ASSUME TypeOK, NEW m \in msgs PROVE m.to \in Node
BY DEF TypeOK, Message

-----------------------------------------------------------------------------
(* One lemma per kind of step.                                             *)

LEMMA InitInv == Init => Inv
BY MeshAssumption, FS_EmptySet
   DEF Init, Inv, TypeOK, CoordinatorNamesItself, StampsInPast, Time, Never

\* A broadcast of the heartbeat loop is stamped with the clock, and claims it.
LEMMA HeartbeatStep ==
  ASSUME Inv, NEW n \in Node, HeartbeatLoop(n)
  PROVE  Inv'
<1>1. CASE UpdateNetworkState(n)
  BY <1>1, MeshAssumption DEF UpdateNetworkState, Inv, TypeOK, CoordinatorNamesItself,
     StampsInPast, Time, Never, role
<1>2. CASE BroadcastNetworkState(n)
  <2> DEFINE copies == [type: {"state"}, from: {n}, to: Node, ts: {now},
                        updated: {lastUpdated[n]}]
  <2>1. PICK arriving \in SUBSET copies :
          msgs' = msgs \cup arriving /\ Cardinality(msgs') <= MaxInFlight
    BY <1>2 DEF BroadcastNetworkState, Broadcast
  <2>2. /\ claimed' = [claimed EXCEPT ![n] = now] /\ updating' = [updating EXCEPT ![n] = FALSE]
        /\ UNCHANGED <<now, up, view, role, waiting, crashes>>
    BY <1>2 DEF BroadcastNetworkState
  <2>3. \A m \in copies : /\ m \in Message /\ m.from = n /\ m.ts = now
                          /\ m.updated = lastUpdated[n]
    BY DEF Message, Inv, TypeOK, Time
  <2>4. IsFiniteSet(msgs')
    <3>1. IsFiniteSet(copies)
      BY CopiesFinite
    <3> HIDE DEF copies
    <3>2. IsFiniteSet(arriving)
      BY <3>1, FS_Subset
    <3>3. QED
      BY <2>1, <3>2, FS_Union DEF Inv
  <2> HIDE DEF copies
  <2>5. \A k \in Node : claimed'[k] \in Time \cup {Never} /\ claimed[k] <= claimed'[k]
                        /\ claimed'[k] <= now
    BY <2>2, MeshAssumption DEF Inv, TypeOK, StampsInPast, Time, Never
  <2>6. TypeOK'
    BY <2>1, <2>2, <2>3, <2>5 DEF Inv, TypeOK, view, role
  <2>7. StampsInPast'
    <3>1. ASSUME NEW m \in msgs, m.type = "state"
          PROVE  m.ts <= claimed'[m.from] /\ m.updated <= m.ts
      <4>1. m.from \in Node /\ m.ts \in Time
        BY <3>1, StateMessage DEF Inv
      <4>2. claimed[m.from] \in Int /\ claimed'[m.from] \in Int
        BY <4>1, <2>5 DEF Inv, TypeOK, Time, Never
      <4>3. QED
        BY <3>1, <4>1, <4>2, <2>5 DEF Inv, StampsInPast, Time
    <3>2. ASSUME NEW m \in arriving
          PROVE  m.ts <= claimed'[m.from] /\ m.updated <= m.ts
      <4>1. m.from = n /\ m.ts = now /\ m.updated = lastUpdated[n]
        BY <2>3
      <4>2. now \in Int /\ claimed'[n] = now
        BY <2>2 DEF Inv, TypeOK, Time
      <4>3. QED
        BY <4>1, <4>2 DEF Inv
    <3>3. QED
      BY <2>1, <2>2, <2>5, <3>1, <3>2 DEF StampsInPast
  <2>8. QED
    BY <2>2, <2>4, <2>6, <2>7 DEF Inv, CoordinatorNamesItself, view, role
<1>3. QED
  BY <1>1, <1>2 DEF HeartbeatLoop

\* What an election changes of a node leaves it naming itself when it has won.
LEMMA ElectionStep ==
  ASSUME Inv, NEW n \in Node, ElectionCheckLoop(n)
  PROVE  Inv'
<1>1. CASE StartElection(n)
  <2> DEFINE copies == [type: {"election"}, to: Node]
  <2>1. PICK arriving \in SUBSET copies :
          msgs' = msgs \cup arriving /\ Cardinality(msgs') <= MaxInFlight
    BY <1>1 DEF StartElection, Broadcast
  <2>2. \A m \in copies : m \in Message /\ m.type = "election"
    BY DEF Message
  <2>3. IsFiniteSet(msgs')
    <3>1. IsFiniteSet(copies)
      BY CopiesFinite
    <3> HIDE DEF copies
    <3>2. IsFiniteSet(arriving)
      BY <3>1, FS_Subset
    <3>3. QED
      BY <2>1, <3>2, FS_Union DEF Inv
  <2> HIDE DEF copies
  <2>4. QED
    BY <1>1, <2>1, <2>2, <2>3 DEF StartElection, CheckElection, Inv, TypeOK,
       CoordinatorNamesItself, StampsInPast, view
<1>2. CASE StartElectionFails(n)
  BY <1>2 DEF StartElectionFails, CheckElection, Inv, TypeOK, CoordinatorNamesItself,
     StampsInPast, view
<1>3. CASE Win(n)
  BY <1>3 DEF Win, Relist, Inv, TypeOK, CoordinatorNamesItself, StampsInPast
<1>4. CASE Lose(n)
  BY <1>4 DEF Lose, Inv, TypeOK, CoordinatorNamesItself, StampsInPast, view, role
<1>5. QED
  BY <1>1, <1>2, <1>3, <1>4 DEF ElectionCheckLoop

\* A rival's state takes the role of a coordinator along with its name.
LEMMA DeliverStep ==
  ASSUME Inv, NEW m \in msgs, Deliver(m)
  PROVE  Inv'
<1>1. /\ m.to \in Node /\ msgs' = msgs \ {m}
      /\ UNCHANGED <<now, up, tasks, crashes, claimed>>
  BY Receiver DEF Deliver, Inv
<1>2. IsFiniteSet(msgs') /\ msgs' \subseteq msgs /\ Cardinality(msgs') <= MaxInFlight
  <2>1. IsFiniteSet(msgs) /\ msgs' \in SUBSET msgs
    BY <1>1 DEF Inv
  <2>2. IsFiniteSet(msgs') /\ Cardinality(msgs') <= Cardinality(msgs)
    BY <2>1, FS_Subset
  <2>3. Cardinality(msgs) \in Nat /\ Cardinality(msgs') \in Nat
    BY <2>1, <2>2, FS_CardinalityType
  <2>4. QED
    BY <2>1, <2>2, <2>3, MeshAssumption DEF Inv, TypeOK
<1>3. CASE HandleNetworkState(m) /\ m.ts > lastUpdated[m.to]
  <2>1. m.from \in Node /\ m.updated \in Time /\ m.updated <= now
    <3>1. m.type = "state"
      BY <1>3 DEF HandleNetworkState
    <3>2. m.from \in Node /\ m.updated \in Time /\ m.ts \in Time
      BY <3>1, StateMessage DEF Inv
    <3>3. m.ts <= claimed[m.from] /\ m.updated <= m.ts /\ claimed[m.from] <= now
      BY <3>1, <3>2 DEF Inv, StampsInPast
    <3>4. claimed[m.from] \in Int /\ now \in Int
      BY <3>2 DEF Inv, TypeOK, Time, Never
    <3>5. QED
      BY <3>2, <3>3, <3>4 DEF Time
  <2>2. PICK b \in BOOLEAN :
          /\ listed' = [listed EXCEPT ![m.to] = b]
          /\ lastUpdated' = [lastUpdated EXCEPT ![m.to] = m.updated]
          /\ coordinator' = [coordinator EXCEPT ![m.to] = m.from]
          /\ isCoordinator' = [isCoordinator EXCEPT ![m.to] = @ /\ m.from = m.to]
          /\ UNCHANGED electionInProgress
    BY <1>3 DEF HandleNetworkState, Relist
  <2>3. TypeOK'
    BY <1>1, <1>2, <2>1, <2>2 DEF Inv, TypeOK, tasks
  <2>4. CoordinatorNamesItself'
    BY <1>1, <2>2 DEF Inv, TypeOK, CoordinatorNamesItself
  <2>5. StampsInPast'
    BY <1>1, <1>2 DEF Inv, StampsInPast
  <2>6. \A n \in Node : lastUpdated'[n] <= now'
    BY <1>1, <2>1, <2>2 DEF Inv, TypeOK, Time
  <2>7. QED
    BY <1>2, <2>3, <2>4, <2>5, <2>6 DEF Inv
<1>4. CASE HandleNetworkState(m) /\ ~(m.ts > lastUpdated[m.to])
  BY <1>1, <1>2, <1>4 DEF HandleNetworkState, Inv, TypeOK, CoordinatorNamesItself,
     StampsInPast, view, tasks
<1>5. CASE HandleCoordinatorElection(m)
  <2>1. /\ electionInProgress' \in [Node -> BOOLEAN]
        /\ UNCHANGED <<view, isCoordinator, coordinator>>
    BY <1>5 DEF HandleCoordinatorElection, Inv, TypeOK
  <2>2. QED
    BY <1>1, <1>2, <2>1 DEF Inv, TypeOK, CoordinatorNamesItself, StampsInPast, view, tasks
<1>6. QED
  BY <1>3, <1>4, <1>5 DEF Deliver

LEMMA CrashStep ==
  ASSUME Inv, NEW n \in Node, Crash(n)
  PROVE  Inv'
<1>1. IsFiniteSet(msgs') /\ msgs' \subseteq msgs /\ Cardinality(msgs') <= MaxInFlight
  <2>1. IsFiniteSet(msgs) /\ msgs' \in SUBSET msgs
    BY DEF Inv, Crash
  <2>2. IsFiniteSet(msgs') /\ Cardinality(msgs') <= Cardinality(msgs)
    BY <2>1, FS_Subset
  <2>3. Cardinality(msgs) \in Nat /\ Cardinality(msgs') \in Nat
    BY <2>1, <2>2, FS_CardinalityType
  <2>4. QED
    BY <2>1, <2>2, <2>3, MeshAssumption DEF Inv, TypeOK
<1>2. TypeOK'
  BY <1>1, MeshAssumption DEF Crash, Inv, TypeOK, Time
<1>3. QED
  BY <1>1, <1>2 DEF Crash, Inv, TypeOK, Time, CoordinatorNamesItself, StampsInPast

\* Heartbeats, restarts and the clock.
LEMMA OtherStep ==
  ASSUME Inv, (\E n \in Node : HandleNodeHeartbeat(n) \/ Restart(n)) \/ Tick
  PROVE  Inv'
<1>1. ASSUME NEW n \in Node, HandleNodeHeartbeat(n) PROVE Inv'
  BY <1>1 DEF HandleNodeHeartbeat, Inv, TypeOK, CoordinatorNamesItself, StampsInPast, role, tasks
<1>2. ASSUME NEW n \in Node, Restart(n) PROVE Inv'
  BY <1>2 DEF Restart, Inv, TypeOK, Time, CoordinatorNamesItself, StampsInPast, role, tasks
<1>3. ASSUME Tick PROVE Inv'
  <2>1. /\ now' = now + 1 /\ now' \in Time /\ now \in Int
        /\ UNCHANGED <<up, view, role, tasks, msgs, crashes, claimed>>
    BY <1>3, MeshAssumption DEF Tick, Inv, TypeOK, Time
  <2>2. \A n \in Node : claimed[n] \in Int /\ lastUpdated[n] \in Int
    BY DEF Inv, TypeOK, Time, Never
  <2>3. QED
    BY <2>1, <2>2 DEF Inv, TypeOK, CoordinatorNamesItself, StampsInPast, view, role, tasks
<1>4. QED
  BY <1>1, <1>2, <1>3

LEMMA NextInv == Inv /\ [Next]_vars => Inv'
<1> SUFFICES ASSUME Inv, [Next]_vars PROVE Inv'
  OBVIOUS
<1>1. CASE UNCHANGED vars
  BY <1>1 DEF vars, view, role, tasks, Inv, TypeOK, CoordinatorNamesItself, StampsInPast
<1>2. QED
  BY <1>1, HeartbeatStep, ElectionStep, DeliverStep, CrashStep, OtherStep DEF Next

-----------------------------------------------------------------------------
\* Whoever believes to be the coordinator names itself, on states of the right types of
\* which none is stamped ahead of the clock, whatever is adopted while an election sleeps.
THEOREM NamesAgree == Spec => []RolesAgree
<1>1. Inv => RolesAgree
  <2> SUFFICES ASSUME Inv PROVE RolesAgree
    OBVIOUS
  <2>1. ASSUME NEW m \in msgs, m.type = "state"
        PROVE  m.updated <= m.ts /\ m.ts <= now
    <3>1. m.from \in Node /\ m.ts \in Time
      BY <2>1, StateMessage DEF Inv
    <3>2. m.updated <= m.ts /\ m.ts <= claimed[m.from] /\ claimed[m.from] <= now
      BY <2>1, <3>1 DEF Inv, StampsInPast
    <3>3. claimed[m.from] \in Int /\ now \in Int /\ m.ts \in Int
      BY <3>1, MeshAssumption DEF Inv, TypeOK, Time, Never
    <3>4. QED
      BY <3>2, <3>3
  <2>2. \A n \in Node : lastUpdated[n] <= now /\ claimed[n] <= now
    BY DEF Inv, StampsInPast
  <2>3. QED
    BY <2>1, <2>2 DEF Inv, RolesAgree, NothingFromTheFuture
<1>2. QED
  BY <1>1, InitInv, NextInv, PTL DEF Spec

\* Nothing but the state of another node that broadcast after its own last update makes
\* a running coordinator step down.
THEOREM OnlyNewerWins == Spec => StepsDownForNewer
<1> DEFINE StepsDown == \A n \in Node : isCoordinator[n] /\ ~isCoordinator'[n] /\ up'[n] =>
                          \E m \in Node \ {n} : claimed[m] > lastUpdated[n]
<1>1. Inv /\ [Next]_vars => [StepsDown]_vars
  <2> SUFFICES ASSUME Inv, Next, NEW n \in Node,
                      isCoordinator[n], ~isCoordinator'[n], up'[n]
               PROVE  \E m \in Node \ {n} : claimed[m] > lastUpdated[n]
    OBVIOUS
  <2>1. ASSUME NEW k \in Node, HeartbeatLoop(k) PROVE FALSE
    BY <2>1 DEF HeartbeatLoop, UpdateNetworkState, BroadcastNetworkState, role
  <2>2. ASSUME NEW k \in Node, ElectionCheckLoop(k) PROVE FALSE
    BY <2>2 DEF ElectionCheckLoop, StartElection, StartElectionFails, CheckElection, Win, Lose,
       role, Inv, TypeOK
  <2>3. ASSUME NEW k \in Node, HandleNodeHeartbeat(k) \/ Restart(k) PROVE FALSE
    BY <2>3 DEF HandleNodeHeartbeat, Restart, role
  <2>4. ASSUME NEW k \in Node, Crash(k) PROVE FALSE
    BY <2>4 DEF Crash, Inv, TypeOK
  <2>5. ASSUME Tick PROVE FALSE
    BY <2>5 DEF Tick, role
  <2>6. ASSUME NEW m \in msgs, Deliver(m)
        PROVE  \E k \in Node \ {n} : claimed[k] > lastUpdated[n]
    <3>1. HandleNetworkState(m)
      BY <2>6 DEF Deliver, HandleCoordinatorElection
    <3>2. m.type = "state" /\ m.to = n /\ m.from # n /\ m.ts > lastUpdated[n]
      BY <3>1 DEF HandleNetworkState, Inv, TypeOK
    <3>3. m.from \in Node /\ m.ts \in Time /\ m.ts <= claimed[m.from]
      BY <3>2, StateMessage DEF Inv, StampsInPast
    <3>4. claimed[m.from] \in Int /\ lastUpdated[n] \in Int
      BY <3>3 DEF Inv, TypeOK, Time, Never
    <3>5. QED
      BY <3>2, <3>3, <3>4 DEF Time
  <2>7. QED
    BY <2>1, <2>2, <2>3, <2>4, <2>5, <2>6 DEF Next
<1>2. QED
  BY <1>1, InitInv, NextInv, PTL DEF Spec, StepsDownForNewer
=============================================================================
