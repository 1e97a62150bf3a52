--------------------------- MODULE PeerConnections ---------------------------
(***************************************************************************)
(* src/p2p/webrtc_manager.py with src/p2p/stun_turn_server.py: the         *)
(* connections of a node to its peers, and the messages it sends through   *)
(* their channels.  A list of candidates is the set of its members.        *)
(***************************************************************************)
EXTENDS Naturals, Sequences, FiniteSets, SequencesExt

CONSTANTS
  RtcPeer, DataChannel, TurnUser,
  Signalled,       \* candidates that peers signal
  TextMessage, FileMessage,
  Unconnected

RtcMessage == TextMessage \cup FileMessage
ServerCandidate == {"srflx", "relay"}
Candidate == ServerCandidate \cup Signalled

\* What peers signal is read from JSON, which yields none of the server's objects.
ASSUME PeerAssumption == Signalled \cap ServerCandidate = {} /\ Unconnected \notin RtcPeer

VARIABLES
  credentials,     \* users of the TURN server
  candidates,      \* peers of the STUN/TURN server: their candidates
  connections,     \* peers of the manager; Unconnected when there is none
  aliased,         \* peers whose connection holds the server's own list
  granted,         \* history: what the server granted to a peer
  due,             \* history: what was granted before a connection and signalled since
  answered,        \* history: peers whose connection was an offer that was answered
  dataChannels,    \* data_channels: the peer of each channel
  outgoing,        \* calls of send_message that wait for an upload or a stream
  arrived          \* history: the last message that was written, and to whom

rtcVars  == <<credentials, candidates, connections, aliased, granted, due, answered>>
chanVars == <<dataChannels, outgoing, arrived>>
peerVars == <<rtcVars, chanVars>>

PeerTypeOK ==
  /\ credentials \subseteq TurnUser
  /\ candidates \in [RtcPeer -> SUBSET Candidate]
  /\ \A p \in RtcPeer : connections[p] # Unconnected =>
       connections[p] \in [ice_candidates : SUBSET Candidate, status : {"connecting", "connected"}]
  /\ aliased \subseteq RtcPeer
  /\ granted \in [RtcPeer -> SUBSET ServerCandidate]
  /\ due \in [RtcPeer -> SUBSET Candidate]
  /\ answered \subseteq RtcPeer
  /\ \A c \in DataChannel : dataChannels[c] \in RtcPeer \cup {Unconnected}
  /\ \A m \in RtcMessage : outgoing[m] # <<>> =>
       outgoing[m] \in [channel : DataChannel, to : RtcPeer, meant : RtcPeer, remade : BOOLEAN,
                        at : {"upload", "stream"}]

PeerInit ==
  /\ credentials = {} /\ aliased = {} /\ answered = {}
  /\ candidates = [p \in RtcPeer |-> {}]
  /\ granted = [p \in RtcPeer |-> {}] /\ due = [p \in RtcPeer |-> {}]
  /\ connections = [p \in RtcPeer |-> Unconnected]
  /\ dataChannels = [c \in DataChannel |-> Unconnected]
  /\ outgoing = [m \in RtcMessage |-> <<>>] /\ arrived = <<>>

-----------------------------------------------------------------------------
(* The STUN/TURN server.                                                   *)

AddUser(u) ==
  /\ credentials' = credentials \cup {u}
  /\ UNCHANGED <<candidates, connections, aliased, granted, due, answered, chanVars>>

\* Mutant of Granted: the new candidate replaces those the peer has.
Granted_Alone(p, candidate) ==
  /\ candidates' = [candidates EXCEPT ![p] = {candidate}]
  /\ aliased' = aliased \ {p}
  /\ granted' = [granted EXCEPT ![p] = @ \cup {candidate}]
  /\ UNCHANGED <<credentials, connections, due, answered, chanVars>>

\* self.peers[peer_id] gets a new list, so that a connection keeps the old one.
Granted(p, candidate) ==
  /\ candidates' = [candidates EXCEPT ![p] = @ \cup {candidate}]
  /\ aliased' = aliased \ {p}
  /\ granted' = [granted EXCEPT ![p] = @ \cup {candidate}]
  /\ UNCHANGED <<credentials, connections, due, answered, chanVars>>

HandleStun(p) == Granted(p, "srflx")

\* The password is that of the user.
Authenticated(u) == u \in credentials

HandleTurn(p, u) == Authenticated(u) /\ Granted(p, "relay")

-----------------------------------------------------------------------------
(* Signalling.                                                             *)

\* The connection takes the server's list as it is, not a copy; for a peer that the
\* server does not know it is a list of its own.
CreatePeerConnection(p) ==
  /\ connections' = [connections EXCEPT ![p] = [ice_candidates |-> candidates[p],
                                                 status |-> "connecting"]]
  /\ aliased' = IF candidates[p] = {} THEN aliased \ {p} ELSE aliased \cup {p}
  /\ due' = [due EXCEPT ![p] = granted[p]]
  /\ UNCHANGED <<credentials, candidates, granted, chanVars>>

\* The node itself connects.
Connect(p) == CreatePeerConnection(p) /\ answered' = answered \ {p}

\* A candidate of the server is an object that json.dumps refuses: then the handler
\* ends without an answer, with the new connection in place.
HandleOffer(p) ==
  /\ CreatePeerConnection(p)
  /\ answered' = IF candidates[p] \cap ServerCandidate = {} THEN answered \cup {p}
                 ELSE answered \ {p}

HandleAnswer(p) ==
  /\ connections[p] # Unconnected
  /\ connections' = [connections EXCEPT ![p].status = "connected"]
  /\ UNCHANGED <<credentials, candidates, aliased, granted, due, answered, chanVars>>

\* The candidate is appended to the list, which may be the server's.
HandleCandidate(p, candidate) ==
  /\ connections[p] # Unconnected
  /\ connections' = [connections EXCEPT ![p].ice_candidates = @ \cup {candidate}]
  /\ candidates' = [candidates EXCEPT ![p] = IF p \in aliased THEN @ \cup {candidate} ELSE @]
  /\ due' = [due EXCEPT ![p] = @ \cup {candidate}]
  /\ UNCHANGED <<credentials, aliased, granted, answered, chanVars>>

RtcNext ==
  \/ \E p \in RtcPeer :
       \/ HandleStun(p) \/ Connect(p) \/ HandleOffer(p) \/ HandleAnswer(p)
       \/ \E u \in TurnUser : HandleTurn(p, u)
       \/ \E candidate \in Signalled : HandleCandidate(p, candidate)
  \/ \E u \in TurnUser : AddUser(u)

-----------------------------------------------------------------------------
(* Messages through channels.                                              *)

\* A channel of the same name replaces the one there was, whoever its peer is.
CreateDataChannel(p, c) ==
  /\ connections[p] # Unconnected
  /\ dataChannels' = [dataChannels EXCEPT ![c] = p]
  /\ outgoing' = [m \in RtcMessage |->
                    IF outgoing[m] # <<>> /\ outgoing[m].channel = c
                      THEN [outgoing[m] EXCEPT !.remade = TRUE] ELSE outgoing[m]]
  /\ UNCHANGED <<rtcVars, arrived>>

\* A text goes to the channel that there is; a file is uploaded before.
SendMessage(c, m) ==
  /\ dataChannels[c] # Unconnected /\ outgoing[m] = <<>>
  /\ outgoing' = [outgoing EXCEPT ![m] =
                    [channel |-> c, to |-> dataChannels[c], meant |-> dataChannels[c],
                     remade |-> FALSE, at |-> IF m \in FileMessage THEN "upload" ELSE "stream"]]
  /\ UNCHANGED <<rtcVars, dataChannels, arrived>>

\* The channel is looked up after the upload, by its name.
FileUploaded(m) ==
  /\ outgoing[m] # <<>> /\ outgoing[m].at = "upload"
  /\ outgoing' = [outgoing EXCEPT ![m].at = "stream", ![m].to = dataChannels[outgoing[m].channel]]
  /\ UNCHANGED <<rtcVars, dataChannels, arrived>>

\* Mutant of SentThroughChannel: the channel is looked up again for every message.
SentThroughChannel_Late(m) ==
  /\ outgoing[m] # <<>> /\ outgoing[m].at = "stream"
  /\ arrived' = [message |-> m, to |-> dataChannels[outgoing[m].channel],
                 meant |-> outgoing[m].meant, remade |-> outgoing[m].remade]
  /\ outgoing' = [outgoing EXCEPT ![m] = <<>>]
  /\ UNCHANGED <<rtcVars, dataChannels>>

SentThroughChannel(m) ==
  /\ outgoing[m] # <<>> /\ outgoing[m].at = "stream"
  /\ arrived' = [message |-> m, to |-> outgoing[m].to,
                 meant |-> outgoing[m].meant, remade |-> outgoing[m].remade]
  /\ outgoing' = [outgoing EXCEPT ![m] = <<>>]
  /\ UNCHANGED <<rtcVars, dataChannels>>

\* The upload or the stream raises.
SendRaises(m) ==
  /\ outgoing[m] # <<>>
  /\ outgoing' = [outgoing EXCEPT ![m] = <<>>]
  /\ UNCHANGED <<rtcVars, dataChannels, arrived>>

\* Of the connections, a channel only needs that they are there.
ChannelNext ==
  \/ \E p \in RtcPeer :
       \/ Connect(p)
       \/ \E c \in DataChannel : CreateDataChannel(p, c)
  \/ \E m \in RtcMessage :
       \/ \E c \in DataChannel : SendMessage(c, m)
       \/ FileUploaded(m) \/ SentThroughChannel(m) \/ SendRaises(m)

-----------------------------------------------------------------------------
(* Properties.                                                             *)

\* A connection has every candidate that the server granted before it was made and
\* that was signalled since, though it shares a list with the server now and then; and
\* it is answered only if the server had granted none.
CandidatesComplete ==
  \A p \in RtcPeer : connections[p] # Unconnected =>
    /\ due[p] \subseteq connections[p].ice_candidates
    /\ connections[p].ice_candidates \subseteq granted[p] \cup Signalled
    /\ p \in answered => due[p] \cap ServerCandidate = {}

\* A message reaches the peer whose channel it was handed to: a text always, a file
\* unless the channel was made anew in the meantime.
MessagesReachPeer ==
  arrived # <<>> =>
    \/ arrived.to = arrived.meant
    \/ arrived.message \in FileMessage /\ arrived.remade
=============================================================================
