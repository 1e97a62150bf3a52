---------------------------- MODULE MessageManager ----------------------------
(***************************************************************************)
(* src/p2p/message_manager.py: messages and files of a node.  A message is *)
(* encrypted in place, uploaded and then listed in its channel; reading a  *)
(* channel takes one layer of encryption off its messages, in place too.   *)
(* A file is added, pinned and described, with an await between the steps. *)
(* The configuration says which of this is done: it is any, and stays.     *)
(* The order of the messages in a channel is left out: nothing depends on  *)
(* it but the order in which they are given.                               *)
(***************************************************************************)
EXTENDS Naturals

CONSTANTS
  Channel, Message, File,
  Readable,        \* files within the size limit and of an allowed type
  MaxAge,          \* message_retention.max_age_days
  MaxHanded,       \* bound on the stores of one message
  MsgMaxTime

ASSUME RetentionAssumption == MaxAge \in Nat /\ MaxHanded \in Nat

VARIABLES
  retention,       \* config["storage"]["message_retention"]: enabled, encryption
  ipfsConfig,      \* config["storage"]["ipfs"]: enabled, pin_files
  msgNow,
  stamp,           \* message.timestamp; 0 until somebody has the message
  layers,          \* how often message.content is encrypted
  storing,         \* calls of store_message that wait for their upload
  channels,        \* how often messages[channel_id] lists each message
  handed,          \* history: how often a message was handed to store_message
  finished,        \* history: how often that put it into a channel
  shown,           \* history: what the last reader was given
  fileAt,          \* how far the last call of store_file has come with a file
  withMetadata,    \* was that call given metadata
  added, pinned,   \* files in IPFS, and those pinned there
  described        \* history: files whose metadata the last call has added

msgConfig   == <<retention, ipfsConfig>>
messageVars == <<stamp, layers, storing, channels, handed, finished, shown>>
fileVars    == <<fileAt, withMetadata, added, pinned, described>>
msgVars     == <<msgConfig, msgNow, messageVars, fileVars>>

RetentionConfig == [enabled : BOOLEAN, encryption : BOOLEAN]
IpfsConfig      == [enabled : BOOLEAN, pin_files : BOOLEAN]

MsgTypeOK ==
  /\ retention \in RetentionConfig /\ ipfsConfig \in IpfsConfig
  /\ msgNow \in Nat /\ stamp \in [Message -> Nat] /\ layers \in [Message -> Nat]
  /\ storing \in [Channel \X Message -> 0 .. MaxHanded]
  /\ channels \in [Channel -> [Message -> Nat]]
  /\ handed \in [Message -> 0 .. MaxHanded]
  /\ finished \in [Channel \X Message -> 0 .. MaxHanded]
  /\ \A m \in DOMAIN shown : m \in Message /\ shown[m] \in Nat
  /\ fileAt \in [File -> {"new", "adding", "pinning", "describing", "stored", "raised"}]
  /\ withMetadata \in [File -> BOOLEAN]
  /\ added \subseteq File /\ pinned \subseteq File /\ described \subseteq File

MsgInit ==
  /\ retention \in RetentionConfig /\ ipfsConfig \in IpfsConfig
  /\ msgNow = 1
  /\ stamp = [m \in Message |-> 0] /\ layers = [m \in Message |-> 0]
  /\ storing = [cm \in Channel \X Message |-> 0]
  /\ channels = [c \in Channel |-> [m \in Message |-> 0]]
  /\ handed = [m \in Message |-> 0]
  /\ finished = [cm \in Channel \X Message |-> 0]
  /\ shown = <<>>
  /\ fileAt = [f \in File |-> "new"] /\ withMetadata = [f \in File |-> FALSE]
  /\ added = {} /\ pinned = {} /\ described = {}

-----------------------------------------------------------------------------
\* Mutant of StoreMessage: encrypted before and again for the upload.
StoreMessage_Twice(c, m) ==
  /\ retention.enabled /\ handed[m] < MaxHanded
  /\ handed' = [handed EXCEPT ![m] = @ + 1]
  /\ stamp' = [stamp EXCEPT ![m] = IF @ = 0 THEN msgNow ELSE @]
  /\ layers' = [layers EXCEPT ![m] = IF retention.encryption THEN @ + 2 ELSE @]
  /\ storing' = [storing EXCEPT ![<<c, m>>] = @ + 1]
  /\ UNCHANGED <<msgConfig, msgNow, channels, finished, shown, fileVars>>

\* With retention disabled the call returns at once.  A message may be handed in
\* again: to another channel, or after a failure.
StoreMessage(c, m) ==
  /\ retention.enabled /\ handed[m] < MaxHanded
  /\ handed' = [handed EXCEPT ![m] = @ + 1]
  /\ stamp' = [stamp EXCEPT ![m] = IF @ = 0 THEN msgNow ELSE @]
  /\ layers' = [layers EXCEPT ![m] = IF retention.encryption THEN @ + 1 ELSE @]
  /\ storing' = [storing EXCEPT ![<<c, m>>] = @ + 1]
  /\ UNCHANGED <<msgConfig, msgNow, channels, finished, shown, fileVars>>

Young(m) == stamp[m] >= msgNow - MaxAge

\* _cleanup_old_messages
Cleaned(listed) == [m \in Message |-> IF Young(m) THEN listed[m] ELSE 0]

MessageUploaded(c, m) ==
  /\ storing[<<c, m>>] > 0
  /\ storing' = [storing EXCEPT ![<<c, m>>] = @ - 1]
  /\ channels' = [channels EXCEPT ![c] = Cleaned([channels[c] EXCEPT ![m] = @ + 1])]
  /\ finished' = [finished EXCEPT ![<<c, m>>] = @ + 1]
  /\ UNCHANGED <<msgConfig, msgNow, stamp, layers, handed, shown, fileVars>>

\* The upload raises: the message stays as it is, encrypted, and is listed nowhere.
MessageUploadRaises(c, m) ==
  /\ storing[<<c, m>>] > 0
  /\ storing' = [storing EXCEPT ![<<c, m>>] = @ - 1]
  /\ UNCHANGED <<msgConfig, msgNow, stamp, layers, channels, handed, finished, shown, fileVars>>

\* With encryption each occurrence of a message in the list takes one layer off; what
\* cannot be decrypted is given as it is.
Decrypted(times, m) ==
  IF ~retention.encryption THEN layers[m]
  ELSE IF layers[m] > times THEN layers[m] - times ELSE 0

\* The time range is a condition on each message, whatever it is: some messages.
GetMessages(c, wanted) ==
  /\ \E m \in Message : channels[c][m] > 0
  /\ LET given == {m \in wanted : channels[c][m] > 0}
     IN  /\ layers' = [m \in Message |-> IF m \in given THEN Decrypted(channels[c][m], m)
                                         ELSE layers[m]]
         /\ shown' = [m \in given |-> Decrypted(channels[c][m], m)]
  /\ UNCHANGED <<msgConfig, msgNow, stamp, storing, channels, handed, finished, fileVars>>

-----------------------------------------------------------------------------
\* With IPFS disabled the call returns None at once.  Size and type are checked
\* before anything is sent.
StoreFile(f) ==
  /\ ipfsConfig.enabled
  /\ fileAt[f] \in {"new", "stored", "raised"}
  /\ fileAt' = [fileAt EXCEPT ![f] = IF f \in Readable THEN "adding" ELSE "raised"]
  /\ \E given \in BOOLEAN : withMetadata' = [withMetadata EXCEPT ![f] = given]
  /\ described' = described \ {f}
  /\ UNCHANGED <<msgConfig, msgNow, messageVars, added, pinned>>

\* Mutant of Following: a file with metadata is not pinned.
Following_NotPinned(f) ==
  IF fileAt[f] # "describing" /\ withMetadata[f] THEN "describing"
  ELSE IF fileAt[f] = "adding" /\ ipfsConfig.pin_files THEN "pinning"
  ELSE "stored"

\* The call to IPFS that comes next: a pin if files are pinned, the metadata if some
\* were given, or none.
Following(f) ==
  IF fileAt[f] = "adding" /\ ipfsConfig.pin_files THEN "pinning"
  ELSE IF fileAt[f] # "describing" /\ withMetadata[f] THEN "describing"
  ELSE "stored"

\* What the call under way does in IPFS.
IpfsCall(f) ==
  /\ added' = IF fileAt[f] = "adding" THEN added \cup {f} ELSE added
  /\ pinned' = IF fileAt[f] = "pinning" THEN pinned \cup {f} ELSE pinned
  /\ described' = IF fileAt[f] = "describing" THEN described \cup {f} ELSE described

\* Each call returns, or raises with or without its effect; what was done before
\* stays.
FileStep(f) ==
  /\ fileAt[f] \in {"adding", "pinning", "describing"}
  /\ \/ IpfsCall(f) /\ fileAt' = [fileAt EXCEPT ![f] = Following(f)]
     \/ /\ IpfsCall(f) \/ UNCHANGED <<added, pinned, described>>
        /\ fileAt' = [fileAt EXCEPT ![f] = "raised"]
  /\ UNCHANGED <<msgConfig, msgNow, messageVars, withMetadata>>

MsgTick ==
  /\ msgNow < MsgMaxTime
  /\ msgNow' = msgNow + 1
  /\ UNCHANGED <<msgConfig, messageVars, fileVars>>

MsgNext ==
  \/ \E c \in Channel :
       \/ \E m \in Message : StoreMessage(c, m) \/ MessageUploaded(c, m) \/ MessageUploadRaises(c, m)
       \/ \E wanted \in SUBSET Message : GetMessages(c, wanted)
  \/ MsgTick

\* Files have nothing to do with messages.
FileNext == \E f \in File : StoreFile(f) \/ FileStep(f)

-----------------------------------------------------------------------------
(* Properties.                                                             *)

\* A channel lists a message as often as its storing was finished there while the
\* message is young, whatever was stored, failed and cleaned in between.
StoredIsKept ==
  \A c \in Channel, m \in Message :
    /\ channels[c][m] <= finished[<<c, m>>]
    /\ Young(m) => channels[c][m] = finished[<<c, m>>]

\* Who reads a message that was handed in once gets it in plain text, also when a
\* failed upload, another channel or another reader came before.
HandedOnceIsReadable ==
  \A m \in DOMAIN shown : handed[m] = 1 => shown[m] = 0

\* A file whose hash was returned is in IPFS, pinned if files are, and the metadata
\* the call was given is there, also when earlier calls for it raised half way or
\* were given none.
StoredIsPinned ==
  \A f \in File : fileAt[f] = "stored" =>
    /\ f \in added
    /\ ipfsConfig.pin_files => f \in pinned
    /\ withMetadata[f] => f \in described

\* What a user was told is stored can be had: messages and files.
MessagesKept == StoredIsKept /\ HandedOnceIsReadable /\ StoredIsPinned
=============================================================================
