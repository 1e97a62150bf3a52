---------------------------- MODULE ContentStorage ----------------------------
(***************************************************************************)
(* src/utils/decentralized_storage.py and src/utils/blockchain_cdn.py:     *)
(* models are stored and loaded through one file, temp_model.pt, in the    *)
(* working directory, which the processes of a node share; a cache puts    *)
(* content on the nodes with the highest stakes.  A content of IPFS is     *)
(* named by its hash, so that it stands for its own identifier here.       *)
(***************************************************************************)
EXTENDS Integers, Sequences, FiniteSets, SequencesExt

CONSTANTS
  Worker,          \* processes that store and load models
  StorageModel,
  Providers,       \* durations a provider is configured for
  Durations,       \* those that calls ask for
  MaxStorageCalls, \* bound on the calls of store_model and load_model
  CdnNode, Stake, CdnContent,
  Copies,          \* 3, the nodes that get a content
  CdnTimeout,      \* 300 seconds
  CdnMaxTime,
  Absent, Torn     \* no file, and a file that is not written to its end

ASSUME StorageAssumption ==
  /\ Providers \subseteq {"short", "mid", "long", "edge"}
  /\ Stake \subseteq Int /\ Copies \in Nat \ {0} /\ MaxStorageCalls \in Nat

\* What Arweave's provider returns for any content.
Placeholder == "ar_transaction_id"

VARIABLES
  tempFile,        \* Absent, Torn or the model in temp_model.pt
  jobs,            \* the call of each worker; <<>> when there is none
  ipfs,            \* models and metadata in IPFS
  storageCalls,
  returned,        \* history: a call that returned, until another begins
  cdnNow,
  cdnNodes,        \* self.nodes: identifier, stake and last_heartbeat
  cached,          \* cached_content of each node
  asked            \* history: each content stored and the nodes active then

tempVars    == <<tempFile, jobs, ipfs, storageCalls, returned>>
cdnVars     == <<cdnNow, cdnNodes, cached, asked>>
storageVars == <<tempVars, cdnVars>>

\* A model's metadata names it, and has the identifier of its file.
Metadata == [name : StorageModel, model_id : StorageModel \cup {Torn, Placeholder}]
Saved    == StorageModel \cup {Torn}

ASSUME ModelIsNoMetadata == Saved \cap Metadata = {}

Job == [op : {"store", "load"}, stage : {"writing", "written", "described", "cleaning"},
        duration : Durations, model : Saved,
        metadata : Metadata, ok : BOOLEAN,
        linked : BOOLEAN,      \* the file it writes is still the one at the path
        lapped : BOOLEAN]      \* history: another call ran at the same time

StorageTypeOK ==
  /\ tempFile \in Saved \cup {Absent}
  /\ \A w \in Worker : jobs[w] # <<>> => jobs[w] \in Job
  /\ ipfs \subseteq Saved \cup Metadata
  /\ storageCalls \in 0 .. MaxStorageCalls
  /\ returned # <<>> => returned \in Job
  /\ cdnNow \in Nat
  /\ cdnNodes \in Seq([id : CdnNode, stake : Stake, since : Nat])
  /\ cached \in [CdnNode -> SUBSET CdnContent]
  /\ asked \subseteq [content : CdnContent, active : SUBSET CdnNode]

StorageInit ==
  /\ tempFile = Absent /\ ipfs = {} /\ storageCalls = 0 /\ returned = <<>>
  /\ jobs = [w \in Worker |-> <<>>]
  /\ cdnNow = 0 /\ cdnNodes = <<>> /\ asked = {}
  /\ cached = [n \in CdnNode |-> {}]

-----------------------------------------------------------------------------
(* Models.                                                                 *)

Busy == {w \in Worker : jobs[w] # <<>>}

\* A call opens the file for writing, which empties it, and overlaps the others.
Begin(w, job) ==
  /\ w \notin Busy /\ storageCalls < MaxStorageCalls
  /\ storageCalls' = storageCalls + 1
  /\ tempFile' = Torn /\ returned' = <<>>
  /\ jobs' = [v \in Worker |->
                IF v = w THEN [job EXCEPT !.lapped = Busy # {}]
                ELSE IF v \in Busy THEN [jobs[v] EXCEPT !.lapped = TRUE]
                ELSE jobs[v]]
  /\ UNCHANGED <<ipfs, cdnVars>>

NewJob(op, duration, model, metadata) ==
  [op |-> op, stage |-> "writing", duration |-> duration, model |-> model,
   metadata |-> metadata, ok |-> TRUE, linked |-> TRUE, lapped |-> FALSE]

StoreModel(w, m, d) == Begin(w, NewJob("store", d, m, [name |-> m, model_id |-> Torn]))

\* Only IPFS, and Filecoin through it, have anything that a call stored.
Retrievable(id, d) == d \in Providers \cap {"short", "mid"} /\ id \in ipfs

\* What it retrieves, metadata and model, never changes: it is read as one.
LoadModel(w, metadata, d) ==
  /\ Retrievable(metadata, d) /\ Retrievable(metadata.model_id, d)
  /\ Begin(w, NewJob("load", d, metadata.model_id, metadata))

Step(w, job) ==
  /\ jobs' = [jobs EXCEPT ![w] = job]
  /\ UNCHANGED <<storageCalls, returned, cdnVars>>

\* Mutant of TempWritten: the file is only written where there was none.
TempWritten_Once(w) ==
  /\ w \in Busy /\ jobs[w].stage = "writing"
  /\ tempFile' = tempFile
  /\ Step(w, [jobs[w] EXCEPT !.stage = "written"])
  /\ UNCHANGED ipfs

\* torch.save, or f.write: into the file at the path, unless that was removed and
\* perhaps created anew.  Two writers of one file leave what the later wrote, or a
\* mixture.
TempWritten(w) ==
  /\ w \in Busy /\ jobs[w].stage = "writing"
  /\ IF jobs[w].linked
       THEN tempFile' \in {jobs[w].model} \cup (IF jobs[w].lapped THEN {Torn} ELSE {})
       ELSE UNCHANGED tempFile
  /\ Step(w, [jobs[w] EXCEPT !.stage = "written"])
  /\ UNCHANGED ipfs

Fails(w) == Step(w, [jobs[w] EXCEPT !.stage = "cleaning", !.ok = FALSE])

Refused == [adds |-> {}, id |-> Placeholder, ok |-> FALSE]

\* The call returns the identifier, or raises with or without the content added.
IPFSStore(content) ==
  {r \in [adds : {{}, {content}}, id : {content}, ok : BOOLEAN] : r.ok => r.adds = {content}}

\* The content goes to IPFS first, and then the deal may fail.
FilecoinStore(content) ==
  UNION {{r, [r EXCEPT !.ok = FALSE]} : r \in IPFSStore(content)}

ArweaveStore == [adds |-> {}, id |-> Placeholder, ok |-> TRUE]

\* What the store of a provider may come to.  The cache cannot take a file: it is no
\* typing.BinaryIO, and the hash of it raises.
Store(d, content) ==
  IF d \notin Providers \ {"edge"} THEN {Refused}
  ELSE CASE d = "short" -> IPFSStore(content)
         [] d = "mid"   -> FilecoinStore(content)
         [] d = "long"  -> {ArweaveStore}

\* The file is opened, if it is there, and given to the provider.
ModelStored(w) ==
  /\ w \in Busy /\ jobs[w].op = "store" /\ jobs[w].stage = "written"
  /\ \E r \in IF tempFile = Absent THEN {Refused} ELSE Store(jobs[w].duration, tempFile) :
       /\ ipfs' = ipfs \cup r.adds
       /\ IF r.ok
            THEN Step(w, [jobs[w] EXCEPT !.stage = "described", !.metadata.model_id = r.id])
            ELSE Fails(w)
  /\ UNCHANGED tempFile

\* The metadata, with the identifier of the model, goes the same way.
MetadataStored(w) ==
  /\ w \in Busy /\ jobs[w].stage = "described"
  /\ \E r \in Store(jobs[w].duration, jobs[w].metadata) :
       /\ ipfs' = ipfs \cup r.adds
       /\ IF r.ok THEN Step(w, [jobs[w] EXCEPT !.stage = "cleaning"]) ELSE Fails(w)
  /\ UNCHANGED tempFile

\* torch.load: it takes what is in the file, if that is a model.
ModelRead(w) ==
  /\ w \in Busy /\ jobs[w].op = "load" /\ jobs[w].stage = "written"
  /\ IF tempFile \in StorageModel
       THEN Step(w, [jobs[w] EXCEPT !.stage = "cleaning", !.model = tempFile])
       ELSE Fails(w)
  /\ UNCHANGED <<tempFile, ipfs>>

\* The finally clause removes the file, whoever wrote it; between looking for it and
\* removing it another call may remove it first, which raises.
CleanedUp(w) ==
  /\ w \in Busy /\ jobs[w].stage = "cleaning"
  /\ tempFile' = Absent
  /\ jobs' = [v \in Worker |-> IF v = w \/ v \notin Busy THEN <<>>
                               ELSE [jobs[v] EXCEPT !.linked = FALSE]]
  /\ \/ jobs[w].ok /\ returned' = jobs[w]
     \/ (~jobs[w].ok \/ jobs[w].lapped) /\ UNCHANGED returned
  /\ UNCHANGED <<ipfs, storageCalls, cdnVars>>

\* The process dies, or torch.save raises, which nothing surrounds: the file stays.
Killed(w) ==
  /\ w \in Busy
  /\ jobs' = [jobs EXCEPT ![w] = <<>>]
  /\ UNCHANGED <<tempFile, ipfs, storageCalls, returned, cdnVars>>

StorageNext ==
  \E w \in Worker :
    \/ \E d \in Durations :
         \/ \E m \in StorageModel : StoreModel(w, m, d)
         \/ \E metadata \in ipfs \cap Metadata : LoadModel(w, metadata, d)
    \/ TempWritten(w) \/ ModelStored(w) \/ MetadataStored(w) \/ ModelRead(w)
    \/ CleanedUp(w) \/ Killed(w)

-----------------------------------------------------------------------------
(* The cache.                                                              *)

\* A node that is known is not registered again.  Nothing renews its heartbeat.
RegisterNode(n, stake) ==
  /\ \A i \in DOMAIN cdnNodes : cdnNodes[i].id # n
  /\ cdnNodes' = Append(cdnNodes, [id |-> n, stake |-> stake, since |-> cdnNow])
  /\ UNCHANGED <<tempVars, cdnNow, cached, asked>>

\* The places in cdnNodes of the nodes that are active.
Active == {i \in DOMAIN cdnNodes : cdnNow - cdnNodes[i].since < CdnTimeout}

\* Mutant of Ahead: the lowest stakes come first.
Ahead_Lowest(j, i) ==
  \/ cdnNodes[j].stake < cdnNodes[i].stake
  \/ cdnNodes[j].stake = cdnNodes[i].stake /\ j < i

\* The order of the sort by stake and reputation, which keeps the order of nodes that
\* are equal in it.  Every reputation is 1.
Ahead(j, i) ==
  \/ cdnNodes[j].stake > cdnNodes[i].stake
  \/ cdnNodes[j].stake = cdnNodes[i].stake /\ j < i

\* The first of the sorted nodes.
SelectNodes ==
  {cdnNodes[i].id : i \in {k \in Active : Cardinality({j \in Active : Ahead(j, k)}) < Copies}}

StoreContent(c) ==
  /\ cached' = [n \in CdnNode |-> cached[n] \cup (IF n \in SelectNodes THEN {c} ELSE {})]
  /\ asked' = asked \cup {[content |-> c, active |-> {cdnNodes[i].id : i \in Active}]}
  /\ UNCHANGED <<tempVars, cdnNow, cdnNodes>>

\* What retrieve chooses from: it raises if there is none.
Available(c) == {n \in CdnNode : c \in cached[n]}

CdnTick ==
  /\ cdnNow < CdnMaxTime
  /\ cdnNow' = cdnNow + 1
  /\ UNCHANGED <<tempVars, cdnNodes, cached, asked>>

CdnNext ==
  \/ \E n \in CdnNode, stake \in Stake : RegisterNode(n, stake)
  \/ \E c \in CdnContent : StoreContent(c)
  \/ CdnTick

-----------------------------------------------------------------------------
(* Properties.                                                             *)

\* What a call returned can be retrieved, except from Arweave.  A call that no other
\* overlapped stored the model it was given, or loaded the one its metadata has the
\* identifier of, and does not fail to read it if it was stored whole, whatever a
\* killed or failed call left in the file.  Overlapped calls may store and return any
\* model, or a torn one.
ModelsLoad ==
  /\ returned # <<>> /\ returned.duration # "long" =>
       /\ Retrievable(returned.metadata, returned.duration)
       /\ Retrievable(returned.metadata.model_id, returned.duration)
       /\ ~returned.lapped => returned.model = returned.metadata.model_id
       /\ ~returned.lapped /\ returned.op = "store" =>
            returned.metadata.model_id = returned.metadata.name
  /\ \A w \in Busy :
       jobs[w].op = "load" /\ ~jobs[w].lapped /\ jobs[w].metadata.model_id \in StorageModel
         => jobs[w].ok

\* A content that was stored while a node was active is on one of the nodes with the
\* highest stake then, whoever registers or falls silent later.
CachedIsServed ==
  \A a \in asked : a.active # {} =>
    \E n \in a.active \cap Available(a.content) :
      LET StakeOf(x) == (CHOOSE node \in ToSet(cdnNodes) : node.id = x).stake
      IN  \A x \in a.active : StakeOf(x) <= StakeOf(n)
=============================================================================
