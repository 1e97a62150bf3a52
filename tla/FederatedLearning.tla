-------------------------- MODULE FederatedLearning --------------------------
(***************************************************************************)
(* src/federated_learning.py: the coordinator of one model.  Participants  *)
(* register, their signed updates are averaged into the layers of the      *)
(* model, and an ethics registry must have approved the model; its answer  *)
(* is kept for an hour.  Weights are abstracted to how often each layer    *)
(* was updated, which a call does layer by layer.                          *)
(***************************************************************************)
EXTENDS Naturals, FiniteSets, SequencesExt

CONSTANTS
  Participant,
  Layers,             \* sets of layers an update may have, in the order of its keys
  MaxUpdates,         \* bound on the updates of one call
  CheckInterval,      \* 3600 seconds
  MaxContributions,   \* bound on the contributions the runs count
  FedMaxTime,
  NotRegistered       \* a participant that is not in the dictionary

ASSUME FedAssumption ==
  /\ CheckInterval \in Nat /\ MaxContributions \in Nat
  /\ \A layers \in Layers : layers \in Seq(ToSet(layers))

VARIABLES
  fedNow,
  isApproved,               \* the ethics registry: is the model approved
  approvedUntil,            \* history: the last time it was
  ethics,                   \* last answer and the time of it
  contribution_count,       \* per participant, NotRegistered or a number
  current_model_weights,    \* per layer of the model: how often updated
  aggregation_rounds,
  broken,                   \* history: updates that ended half way
  contributed               \* history: contributions ever counted

fedVars == <<fedNow, isApproved, approvedUntil, ethics, contribution_count,
             current_model_weights, aggregation_rounds, broken, contributed>>

NoModel == <<>>

FedTypeOK ==
  /\ fedNow \in Nat /\ approvedUntil \in 0 .. fedNow
  /\ isApproved \in BOOLEAN
  /\ ethics.approved \in BOOLEAN /\ ethics.checked \in Nat
  /\ \A p \in Participant :
       contribution_count[p] = NotRegistered \/ contribution_count[p] \in 0 .. MaxContributions
  /\ \A i \in DOMAIN current_model_weights : current_model_weights[i].updates \in Nat
  /\ aggregation_rounds \in Nat /\ broken \in Nat /\ contributed \in Nat

\* The first call finds last_ethics_check at 0, more than an hour ago.
FedInit ==
  /\ fedNow = CheckInterval + 1
  /\ isApproved = FALSE /\ approvedUntil = 0
  /\ ethics = [approved |-> FALSE, checked |-> 0]
  /\ contribution_count = [p \in Participant |-> NotRegistered]
  /\ current_model_weights = NoModel
  /\ aggregation_rounds = 0 /\ broken = 0 /\ contributed = 0

-----------------------------------------------------------------------------
\* Without consent nobody is registered; who registers again starts from zero.
RegisterParticipant(p) ==
  /\ contribution_count' = [contribution_count EXCEPT ![p] = 0]
  /\ UNCHANGED <<fedNow, isApproved, approvedUntil, ethics, current_model_weights,
                 aggregation_rounds, broken, contributed>>

\* Mutant of CheckEthicsApproval: a failed read answers with what was known.
CheckEthicsApproval_Kept ==
  {[known |-> ethics, ok |-> ethics.approved]}
  \cup (IF fedNow - ethics.checked > CheckInterval
        THEN {[known |-> [approved |-> isApproved, checked |-> fedNow], ok |-> isApproved]}
        ELSE {})

\* What may be known afterwards and what is returned: the kept answer within the
\* interval; beyond it a new one, or FALSE when the read raises, which leaves what
\* was known as it is, so that the next call reads again.
CheckEthicsApproval ==
  IF fedNow - ethics.checked > CheckInterval
  THEN {[known |-> [approved |-> isApproved, checked |-> fedNow], ok |-> isApproved],
        [known |-> ethics, ok |-> FALSE]}
  ELSE {[known |-> ethics, ok |-> ethics.approved]}

\* The places of the updates of a call that count, those of registered participants;
\* one that cannot be verified or decrypted is as if it had not been sent.
Counted(updates) == {i \in DOMAIN updates : contribution_count[updates[i].from] # NotRegistered}

CountContributions(updates) ==
  /\ contribution_count' = [p \in Participant |->
       IF contribution_count[p] = NotRegistered THEN NotRegistered
       ELSE contribution_count[p] + Cardinality({i \in DOMAIN updates : updates[i].from = p})]
  /\ contributed' = contributed + Cardinality(Counted(updates))

\* _secure_multiparty_aggregate needs the layers of the first update in each.
Averaged(updates) ==
  LET first == updates[Min(Counted(updates))].layers
  IN  IF \A i \in Counted(updates) : ToSet(first) \subseteq ToSet(updates[i].layers)
      THEN first ELSE <<>>

\* How many layers of the model are updated before one of them is not there.
Present(layers) ==
  LET missing == {i \in DOMAIN current_model_weights :
                    current_model_weights[i].name \notin ToSet(layers)}
  IN  IF missing = {} THEN Len(current_model_weights)
      ELSE (CHOOSE i \in missing : \A j \in missing : i <= j) - 1

\* The first average becomes the model.  A later one is added layer by layer; a
\* layer it lacks raises, and those before it keep their update.
ApplyAverage(layers) ==
  \/ /\ current_model_weights = NoModel
     /\ current_model_weights' = [i \in DOMAIN layers |-> [name |-> layers[i], updates |-> 1]]
     /\ aggregation_rounds' = aggregation_rounds + 1
     /\ UNCHANGED broken
  \/ /\ current_model_weights # NoModel
     /\ current_model_weights' = [i \in DOMAIN current_model_weights |->
          [current_model_weights[i] EXCEPT !.updates = IF i <= Present(layers) THEN @ + 1 ELSE @]]
     /\ IF Present(layers) = Len(current_model_weights)
        THEN aggregation_rounds' = aggregation_rounds + 1 /\ UNCHANGED broken
        ELSE broken' = broken + 1 /\ UNCHANGED aggregation_rounds

\* secure_aggregate: contributions are counted before anybody knows whether they
\* can be averaged.
SecureAggregate(updates) ==
  /\ \E check \in CheckEthicsApproval :
       /\ ethics' = check.known
       /\ IF ~check.ok \/ Counted(updates) = {}
          THEN UNCHANGED <<contribution_count, contributed, current_model_weights,
                           aggregation_rounds, broken>>
          ELSE /\ contributed + Cardinality(Counted(updates)) <= MaxContributions
               /\ CountContributions(updates)
               /\ IF Averaged(updates) = <<>>
                  THEN UNCHANGED <<current_model_weights, aggregation_rounds, broken>>
                  ELSE ApplyAverage(Averaged(updates))
  /\ UNCHANGED <<fedNow, isApproved, approvedUntil>>

\* The model is handed out in the same way, which may renew what is known.
GetCurrentModel(p) ==
  /\ contribution_count[p] # NotRegistered
  /\ \E check \in CheckEthicsApproval : ethics' = check.known
  /\ UNCHANGED <<fedNow, isApproved, approvedUntil, contribution_count, current_model_weights,
                 aggregation_rounds, broken, contributed>>

\* The registry changes its mind; time passes.
Review ==
  /\ isApproved' = ~isApproved
  /\ approvedUntil' = fedNow
  /\ UNCHANGED <<fedNow, ethics, contribution_count, current_model_weights,
                 aggregation_rounds, broken, contributed>>

FedTick ==
  /\ fedNow < FedMaxTime
  /\ fedNow' = fedNow + 1
  /\ approvedUntil' = IF isApproved THEN fedNow + 1 ELSE approvedUntil
  /\ UNCHANGED <<isApproved, ethics, contribution_count, current_model_weights,
                 aggregation_rounds, broken, contributed>>

Update == [from : Participant, layers : Layers]

FedNext ==
  \/ \E p \in Participant : RegisterParticipant(p) \/ GetCurrentModel(p)
  \/ \E updates \in SeqOf(Update, MaxUpdates) : SecureAggregate(updates)
  \/ Review
  \/ FedTick

-----------------------------------------------------------------------------
(* Properties.                                                             *)

\* Every counted round moved every layer of the model; only an update that ended
\* half way moved some layers and not others.
RoundsMoveAllLayers ==
  \A i \in DOMAIN current_model_weights :
    /\ aggregation_rounds <= current_model_weights[i].updates
    /\ current_model_weights[i].updates <= aggregation_rounds + broken

\* A model whose approval is withdrawn is trained for at most one interval more,
\* though the registry is asked rarely and may fail to answer; and whatever a step
\* is, it leaves the rounds as above.
RoundsAreSound ==
  [][/\ contributed' # contributed => fedNow - approvedUntil <= CheckInterval
     /\ RoundsMoveAllLayers']_fedVars
=============================================================================
