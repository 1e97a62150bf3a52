----------------------------- MODULE NodeServices -----------------------------
(***************************************************************************)
(* What the processes of a node of src/ run side by side: the governance   *)
(* of the DAO, the registry, the validator licences, the two consensus     *)
(* workers, federated learning, the RPC node, the token economics, the     *)
(* messages and files of its users, the inference batches, the clients of  *)
(* the model marketplace and of model fusion, the assistant, the storage   *)
(* of models and its cache, and the connections to peers.  They share no   *)
(* state, so that a behaviour of the composition lets one of them run:     *)
(* which one is chosen at the start.                                       *)
(***************************************************************************)
EXTENDS LolDAO, DecentralizedRegistry, LicenseRegistry, ProofOfIntegrity, ProofOfUse,
        FederatedLearning, SovereignRPCNode, TokenEconomics, MessageManager,
        IOTABatchHandler, AIAssistant, ContentStorage, PeerConnections, NodeNetwork

\* The services among which a behaviour may choose.
CONSTANT Services

VARIABLE service

serviceVars == <<service, lolVars, regVars, licVars, intVars, useVars, fedVars, rpcVars, ecoVars,
                 msgVars, iotaVars, fusVars, aiVars, storageVars, peerVars, netVars>>

ServicesTypeOK ==
  /\ GovTypeOK /\ LolTypeOK /\ RegTypeOK /\ LicTypeOK /\ IntTypeOK /\ UseTypeOK /\ FedTypeOK
  /\ RpcTypeOK /\ EcoTypeOK /\ MsgTypeOK /\ IotaTypeOK /\ MktTypeOK /\ FusTypeOK /\ AiTypeOK
  /\ StorageTypeOK /\ PeerTypeOK /\ NetTypeOK

\* What a service that never runs starts from makes no difference.
ServicesInit ==
  /\ service \in Services
  /\ LolInit /\ RegInit /\ LicInit /\ IntInit /\ UseInit /\ FedInit /\ RpcInit /\ EcoInit
  /\ MsgInit /\ IotaInit /\ FusInit /\ AiInit /\ StorageInit /\ PeerInit /\ NetInit
  /\ IF service = "dao" THEN TRUE ELSE deployment = CHOOSE d \in Deployments : TRUE
  /\ IF service = "models" THEN TRUE ELSE store = FALSE
  /\ IF service = "messages" THEN TRUE ELSE retention = CHOOSE c \in RetentionConfig : TRUE
  /\ IF service = "files" THEN TRUE ELSE ipfsConfig = CHOOSE c \in IpfsConfig : TRUE

\* The other services do not move.
OthersIdle ==
  /\ UNCHANGED service
  /\ IF service = "dao" THEN TRUE ELSE UNCHANGED lolVars
  /\ IF service = "registry" THEN TRUE ELSE UNCHANGED regVars
  /\ IF service = "licenses" THEN TRUE ELSE UNCHANGED licVars
  /\ IF service = "integrity" THEN TRUE ELSE UNCHANGED intVars
  /\ IF service = "use" THEN TRUE ELSE UNCHANGED useVars
  /\ IF service = "federated" THEN TRUE ELSE UNCHANGED fedVars
  /\ IF service = "rpc" THEN TRUE ELSE UNCHANGED rpcVars
  /\ IF service = "economics" THEN TRUE ELSE UNCHANGED ecoVars
  /\ IF service \in {"messages", "files"} THEN TRUE ELSE UNCHANGED msgVars
  /\ IF service = "batches" THEN TRUE ELSE UNCHANGED iotaVars
  /\ IF service \in {"models", "compatibility"} THEN TRUE ELSE UNCHANGED fusVars
  /\ IF service = "assistant" THEN TRUE ELSE UNCHANGED aiVars
  /\ IF service \in {"storage", "cache"} THEN TRUE ELSE UNCHANGED storageVars
  /\ IF service \in {"signalling", "channels"} THEN TRUE ELSE UNCHANGED peerVars
  /\ IF service = "network" THEN TRUE ELSE UNCHANGED netVars

ServicesNext ==
  /\ \/ service = "dao" /\ LolNext
     \/ service = "registry" /\ RegNext
     \/ service = "licenses" /\ LicNext
     \/ service = "integrity" /\ IntNext
     \/ service = "use" /\ UseNext
     \/ service = "federated" /\ FedNext
     \/ service = "rpc" /\ RpcNext
     \/ service = "economics" /\ EcoNext
     \/ service = "messages" /\ MsgNext
     \/ service = "files" /\ FileNext
     \/ service = "batches" /\ IotaNext
     \/ service = "models" /\ FusNext
     \/ service = "compatibility" /\ CompatNext
     \/ service = "assistant" /\ AiNext
     \/ service = "storage" /\ StorageNext
     \/ service = "cache" /\ CdnNext
     \/ service = "signalling" /\ RtcNext
     \/ service = "channels" /\ ChannelNext
     \/ service = "network" /\ NetNext
  /\ OthersIdle

\* The loops that a node never ends: of the DAO on every node, of the validation
\* workers, of the replication and of the batches.  Time passes.  Nothing ends the
\* execution of a batch: it waits for its results without a limit.
ServicesFairness ==
  /\ \A n \in Node :
       WF_serviceVars(/\ service = "dao" /\ n \in deployment.nodes
                      /\ ProcessReadyProposals(n) /\ UNCHANGED <<deployment, daoVars>>
                      /\ OthersIdle)
  /\ \A n \in IntNode :
       WF_serviceVars(service = "integrity" /\ ProcessValidation(n) /\ OthersIdle)
  /\ WF_serviceVars(service = "rpc" /\ ReplicationStep /\ OthersIdle)
  /\ WF_serviceVars(service = "batches" /\ ProcessBatches /\ OthersIdle)
  /\ WF_serviceVars(service = "batches" /\ LatencyTick /\ OthersIdle)

ServicesSpec == ServicesInit /\ [][ServicesNext]_serviceVars /\ ServicesFairness

-----------------------------------------------------------------------------
\* Whoever the consensus workers count as a validator, believe or announce is backed
\* by a licence, a result or a registration that is there.
ValidatorsBacked == ValidatorsHoldLicence /\ ProofsAreBacked /\ ProducersAreListed

\* What a user was told is stored can be had: messages, files, models and what is put
\* into the cache.
StoredIsHad == MessagesKept /\ ModelsLoad /\ CachedIsServed

\* Peers are reached: with all their candidates, by the messages meant for them, and
\* by every broadcast whose result counts.
PeersReached == CandidatesComplete /\ MessagesReachPeer /\ ConsensusOfAll

\* What waits is undone by nobody but a call that ran at the same time: a batch is
\* received once, and an update keeps what it does not name.
OnlyOverlapsHarm == AwaitedAgainInOverlap /\ LoneUpdateKeepsRest
=============================================================================
