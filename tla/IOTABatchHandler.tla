--------------------------- MODULE IOTABatchHandler ---------------------------
(***************************************************************************)
(* POI/src/iota_batch_handler.py: requests for one model are gathered in a *)
(* batch, and the results of a batch are awaited together once it is full  *)
(* or old.  add_request holds on to the batch it found before it waits for *)
(* its message to be sent; finishing an execution puts a new, empty batch  *)
(* in place of whatever is there.                                          *)
(***************************************************************************)
EXTENDS Naturals, Sequences, FiniteSets, SequencesExt

CONSTANTS
  BatchModel, InferenceRequest,
  modelOf,        \* the model a request is for
  BatchSize,
  MaxLatency

VARIABLES
  batches,        \* per model: requests of the current batch, none before the first
  age,            \* of the current batch, up to MaxLatency
  adds,           \* where the call of add_request for a request is
  executing,      \* executions of a batch: who runs it, for which messages
  checking,       \* models that the background task has still to look at
  awaited         \* history: requests whose result was waited for

iotaVars == <<batches, age, adds, executing, checking, awaited>>

NoBatch == <<"none">>

ASSUME BatchAssumption ==
  /\ "none" \notin InferenceRequest /\ MaxLatency \in Nat
  /\ \A r \in InferenceRequest : modelOf[r] \in BatchModel

Loop    == "loop"
Place   == {"new", "sending", "sending to a replaced batch", "done"}

IotaTypeOK ==
  /\ \A m \in BatchModel : batches[m] = NoBatch \/ ToSet(batches[m]) \subseteq InferenceRequest
  /\ age \in [BatchModel -> 0 .. MaxLatency]
  /\ adds \in [InferenceRequest -> Place]
  /\ \A e \in executing : e.model \in BatchModel /\ e.messages \subseteq InferenceRequest
  /\ checking \subseteq BatchModel
  /\ awaited \subseteq InferenceRequest

IotaInit ==
  /\ batches = [m \in BatchModel |-> NoBatch]
  /\ age = [m \in BatchModel |-> 0]
  /\ adds = [r \in InferenceRequest |-> "new"]
  /\ executing = {} /\ checking = {} /\ awaited = {}

-----------------------------------------------------------------------------
AddRequest(r) ==
  /\ adds[r] = "new"
  /\ adds' = [adds EXCEPT ![r] = "sending"]
  /\ LET m == modelOf[r]
     IN  IF batches[m] = NoBatch
         THEN batches' = [batches EXCEPT ![m] = <<>>] /\ age' = [age EXCEPT ![m] = 0]
         ELSE UNCHANGED <<batches, age>>
  /\ UNCHANGED <<executing, checking, awaited>>

\* Mutant of ShouldExecuteBatch: only a full batch is executed.
ShouldExecuteBatch_Full(m, batch) == batch # NoBatch /\ Len(batch) >= BatchSize

ShouldExecuteBatch(m, batch) ==
  batch # NoBatch /\ (Len(batch) >= BatchSize \/ age[m] = MaxLatency)

\* A new, empty batch; calls that hold on to the old one will not know.
Replace(m, calls) ==
  /\ batches' = [batches EXCEPT ![m] = <<>>]
  /\ age' = [age EXCEPT ![m] = 0]
  /\ adds' = [r \in InferenceRequest |->
                IF calls[r] = "sending" /\ modelOf[r] = m
                THEN "sending to a replaced batch" ELSE calls[r]]

\* If it is time: every message the batch has now is waited for.  Without messages
\* there is nothing to wait for, and the batch is replaced at once.
ExecuteBatch(who, m, batch, calls) ==
  IF ~ShouldExecuteBatch(m, batch)
  THEN /\ batches' = [batches EXCEPT ![m] = batch]
       /\ adds' = calls
       /\ UNCHANGED <<age, executing, awaited>>
  ELSE IF batch = <<>> THEN Replace(m, calls) /\ UNCHANGED <<executing, awaited>>
  ELSE /\ batches' = [batches EXCEPT ![m] = batch]
       /\ adds' = calls
       /\ executing' = executing \cup {[by |-> who, model |-> m, messages |-> ToSet(batch)]}
       /\ awaited' = awaited \cup ToSet(batch)
       /\ UNCHANGED age

\* The message is sent: the request goes into the batch the call holds, and the
\* current one is executed by this call if it is time.
RequestSent(r) ==
  LET m == modelOf[r]
      finished == [adds EXCEPT ![r] = "done"]
  IN  /\ \/ adds[r] = "sending" /\ ExecuteBatch(r, m, Append(batches[m], r), finished)
         \/ adds[r] = "sending to a replaced batch" /\ ExecuteBatch(r, m, batches[m], finished)
      /\ UNCHANGED checking

\* There is no channel for the model, or sending raises; the batch stays.
RequestRaises(r) ==
  /\ adds[r] \in {"sending", "sending to a replaced batch"}
  /\ adds' = [adds EXCEPT ![r] = "done"]
  /\ UNCHANGED <<batches, age, executing, checking, awaited>>

\* Mutant of ExecutionEnds: the batch is not cleared.
ExecutionEnds_Kept(e) ==
  /\ e \in executing
  /\ executing' = executing \ {e}
  /\ UNCHANGED <<batches, age, adds, checking, awaited>>

\* All results are there, or one of them raised: the current batch is replaced, with
\* the requests that came meanwhile.
ExecutionEnds(e) ==
  /\ e \in executing
  /\ executing' = executing \ {e}
  /\ Replace(e.model, adds)
  /\ UNCHANGED <<checking, awaited>>

LoopRuns == \E e \in executing : e.by = Loop

\* The background task looks at the models one after the other and waits for the
\* batch it executes; then it starts again.
ProcessBatches ==
  /\ ~LoopRuns
  /\ \/ /\ checking = {}
        /\ checking' = {m \in BatchModel : batches[m] # NoBatch}
        /\ checking' # {}
        /\ UNCHANGED <<batches, age, adds, executing, awaited>>
     \/ \E m \in checking :
          /\ checking' = checking \ {m}
          /\ ExecuteBatch(Loop, m, batches[m], adds)

LatencyTick ==
  /\ \E m \in BatchModel : batches[m] # NoBatch /\ age[m] < MaxLatency
  /\ age' = [m \in BatchModel |-> IF batches[m] # NoBatch /\ age[m] < MaxLatency
                                  THEN age[m] + 1 ELSE age[m]]
  /\ UNCHANGED <<batches, adds, executing, checking, awaited>>

IotaNext ==
  \/ \E r \in InferenceRequest :
       AddRequest(r) \/ RequestSent(r) \/ RequestRaises(r)
  \/ \E e \in executing : ExecutionEnds(e)
  \/ ProcessBatches
  \/ LatencyTick

-----------------------------------------------------------------------------
(* Properties.                                                             *)

Executed(m) == \E e \in executing : e.model = m
Waits(r) == batches[modelOf[r]] # NoBatch /\ r \in ToSet(batches[modelOf[r]])

\* A request that reaches the batch of its model while none is being executed has
\* its result waited for, unless from some time on the loop is stuck in an execution:
\* it waits for the results of one model without a limit, and the old batches of
\* all others wait with it.  A request that comes during an execution may be wiped.
BatchedIsAwaited ==
  \A r \in InferenceRequest :
    (Waits(r) /\ ~Executed(modelOf[r])) ~> (r \in awaited \/ []LoopRuns)

\* A message is received twice only by executions of its batch that overlap.
AwaitedAgainInOverlap ==
  [][\A e \in executing' \ executing :
       e.messages \cap awaited # {} => Executed(e.model)]_iotaVars
=============================================================================
