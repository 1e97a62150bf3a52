--------------------------- MODULE ModelMarketplace ---------------------------
(***************************************************************************)
(* src/model_marketplace.py: processes that use one account send calls to  *)
(* contracts/ModelMarketplace.sol.  A call reads what it needs, takes the  *)
(* number of mined transactions as its nonce, sends, waits for a receipt   *)
(* and does not look at the status in it.  The node keeps one pending      *)
(* transaction per nonce: a second one is refused or replaces it.          *)
(***************************************************************************)
EXTENDS Naturals, Sequences, FiniteSets, SequencesExt

CONSTANTS
  Process,
  MarketCall,     \* calls: [op, model, given], given a function of some fields
  MarketModel,
  MetadataKey,    \* fields kept in the metadata of a model
  OtherField,     \* documentation, sample data, tags, price
  Empty,          \* a value that Python takes for false
  MaxMined        \* bound on the transactions that are sent

VARIABLES
  calls,          \* per process: the call it is in, and how far
  pendingTx,      \* the transaction with the next nonce, if there is one
  mined,          \* how many transactions of the account are mined
  sent,           \* how many were sent
  store, storeModels,   \* has the account a store, the ids in it
  models,
  results,        \* what the calls returned, by their transaction
  receipts        \* history: transactions that were mined, and whether they reverted

mktVars == <<calls, pendingTx, mined, sent, store, storeModels, models, results, receipts>>

MarketOp == {"create_store", "update_store", "register_model", "update_model", "use_model",
             "deactivate_model"}
Field == MetadataKey \cup OtherField
Idle  == [at |-> "idle"]
NoTx  == [tx |-> 0]
NoModelYet == <<>>  \* of an id nothing was registered under

ASSUME MarketAssumption ==
  /\ \A c \in MarketCall : /\ c.op \in MarketOp /\ c.model \in MarketModel
                           /\ c.op = "register_model" => DOMAIN c.given = Field
  /\ MaxMined \in Nat

Registered(m) == models[m] # NoModelYet

MktTypeOK ==
  /\ \A p \in Process : calls[p].at \in {"idle", "called", "ready", "built", "sent", "mined"}
  /\ mined \in 0 .. MaxMined /\ sent \in mined .. MaxMined
  /\ store \in BOOLEAN
  /\ ToSet(storeModels) \subseteq MarketModel
  /\ \A m \in MarketModel : Registered(m) =>
       /\ DOMAIN models[m].data = Field
       /\ models[m].isActive \in BOOLEAN /\ models[m].writes \in 1 .. mined + 1
       /\ m \in ToSet(storeModels)

\* The account is new, or has a store and a model from earlier.
MktInit ==
  /\ calls = [p \in Process |-> Idle]
  /\ pendingTx = NoTx /\ mined = 0 /\ sent = 0
  /\ \/ /\ store = FALSE /\ storeModels = <<>>
        /\ models = [m \in MarketModel |-> NoModelYet]
     \/ \E m \in MarketModel :
          /\ store = TRUE /\ storeModels = <<m>>
          /\ models = [x \in MarketModel |->
               IF x = m THEN [data |-> [f \in Field |-> Empty], isActive |-> TRUE, writes |-> 1]
               ELSE NoModelYet]
  /\ results = {} /\ receipts = {}

-----------------------------------------------------------------------------
\* A process starts a call.  Uploads of new files come first; update_model has to
\* read the model it changes before.
Call(p, c) ==
  /\ calls[p] = Idle
  /\ sent < MaxMined
  /\ calls' = [calls EXCEPT ![p] =
       [at |-> IF c.op = "update_model" THEN "called" ELSE "ready", call |-> c, data |-> c.given,
        read |-> 0]]
  /\ UNCHANGED <<pendingTx, mined, sent, store, storeModels, models, results, receipts>>

\* What is given replaces what was read: keys of the metadata whatever they say,
\* the other fields unless they are empty.
Merged(data, given) ==
  [f \in Field |-> IF f \in DOMAIN given /\ (f \in MetadataKey \/ given[f] # Empty)
                   THEN given[f] ELSE data[f]]

\* Mutant of ReadModel: the metadata that is there is not read.
ReadModel_NotMerged(p) ==
  /\ calls[p].at = "called"
  /\ LET m == calls[p].call.model
     IN  /\ Registered(m)
         /\ calls' = [calls EXCEPT ![p].at = "ready", ![p].read = models[m].writes,
                        ![p].data = Merged([f \in Field |-> Empty], calls[p].call.given)]
  /\ UNCHANGED <<pendingTx, mined, sent, store, storeModels, models, results, receipts>>

\* get_model_info and the metadata of the hash in it
ReadModel(p) ==
  /\ calls[p].at = "called"
  /\ LET m == calls[p].call.model
     IN  /\ Registered(m)
         /\ calls' = [calls EXCEPT ![p].at = "ready", ![p].read = models[m].writes,
                        ![p].data = Merged(models[m].data, calls[p].call.given)]
  /\ UNCHANGED <<pendingTx, mined, sent, store, storeModels, models, results, receipts>>

\* A read, an upload or the gas estimate raises, or the model is not registered:
\* nothing was sent.
CallFails(p) ==
  /\ calls[p].at \in {"called", "ready", "built"}
  /\ calls' = [calls EXCEPT ![p] = Idle]
  /\ UNCHANGED <<pendingTx, mined, sent, store, storeModels, models, results, receipts>>

\* build_transaction with get_transaction_count, which counts mined transactions
BuildTransaction(p) ==
  /\ calls[p].at = "ready"
  /\ calls' = [calls EXCEPT ![p] = [at |-> "built", call |-> calls[p].call, data |-> calls[p].data,
                                    read |-> calls[p].read, nonce |-> mined]]
  /\ UNCHANGED <<pendingTx, mined, sent, store, storeModels, models, results, receipts>>

\* The node takes a nonce that is not used; one that is pending is replaced if the
\* gas price has risen.  Otherwise CallFails.
SendRawTransaction(p) ==
  /\ calls[p].at = "built"
  /\ calls[p].nonce = mined
  /\ sent < MaxMined
  /\ sent' = sent + 1
  /\ pendingTx' = [tx |-> sent + 1, by |-> p, call |-> calls[p].call, data |-> calls[p].data,
                   read |-> calls[p].read]
  /\ calls' = [calls EXCEPT ![p] = [at |-> "sent", call |-> calls[p].call, tx |-> sent + 1]]
  /\ UNCHANGED <<mined, store, storeModels, models, results, receipts>>

-----------------------------------------------------------------------------
\* The contract: which calls of the account do not revert, and what they write.
\* A call that is paid for may fail to be paid.
Accepts(t) ==
  CASE t.call.op = "create_store"     -> {~store}
    [] t.call.op = "update_store"     -> {store}
    [] t.call.op = "register_model"   ->
         {store /\ (~Registered(t.call.model) \/ ~models[t.call.model].isActive)}
    [] t.call.op \in {"update_model", "deactivate_model"} -> {Registered(t.call.model)}
    [] t.call.op = "use_model"        ->
         {FALSE, Registered(t.call.model) /\ models[t.call.model].isActive}

Writes(m) == IF Registered(m) THEN models[m].writes ELSE 0

Execute(t) ==
  LET m == t.call.model
  IN  /\ store' = (store \/ t.call.op = "create_store")
      /\ storeModels' = IF t.call.op = "register_model" THEN Append(storeModels, m) ELSE storeModels
      /\ models' =
           CASE t.call.op = "register_model" ->
                  [models EXCEPT ![m] = [data |-> t.data, isActive |-> TRUE, writes |-> Writes(m) + 1]]
             [] t.call.op = "update_model" ->
                  [models EXCEPT ![m].data = t.data, ![m].writes = @ + 1]
             [] t.call.op = "deactivate_model" -> [models EXCEPT ![m].isActive = FALSE]
             [] OTHER -> models

\* What the chain and a process that still waits know of a mined transaction.
IsMined(t, ok) ==
  /\ pendingTx' = NoTx
  /\ mined' = mined + 1
  /\ receipts' = receipts \cup {[tx |-> t.tx, ok |-> ok]}
  /\ calls' = IF calls[t.by].at = "sent" /\ calls[t.by].tx = t.tx
              THEN [calls EXCEPT ![t.by].at = "mined"] ELSE calls

Mine ==
  /\ pendingTx # NoTx /\ pendingTx.call.op \in MarketOp
  /\ \E ok \in Accepts(pendingTx) :
       /\ IsMined(pendingTx, ok)
       /\ IF ok THEN Execute(pendingTx) ELSE UNCHANGED <<store, storeModels, models>>
  /\ UNCHANGED <<sent, results>>

\* Mutant of CallReturns: it does not wait for the receipt.
CallReturns_AtOnce(p) ==
  /\ calls[p].at \in {"sent", "mined"} /\ calls[p].call.op \in MarketOp
  /\ results' = results \cup {[tx |-> calls[p].tx, op |-> calls[p].call.op, value |-> TRUE]}
  /\ calls' = [calls EXCEPT ![p] = Idle]
  /\ UNCHANGED <<pendingTx, mined, sent, store, storeModels, models, receipts>>

\* With a receipt the call returns its id or True, whatever the status is.
CallReturns(p) ==
  /\ calls[p].at = "mined" /\ calls[p].call.op \in MarketOp
  /\ results' = results \cup {[tx |-> calls[p].tx, op |-> calls[p].call.op, value |-> TRUE]}
  /\ calls' = [calls EXCEPT ![p] = Idle]
  /\ UNCHANGED <<pendingTx, mined, sent, store, storeModels, models, receipts>>

\* The receipt does not come in time: the transaction may be mined later, or was
\* replaced.
ReceiptTimesOut(p) ==
  /\ calls[p].at = "sent"
  /\ results' = results \cup {[tx |-> calls[p].tx, op |-> calls[p].call.op, value |-> FALSE]}
  /\ calls' = [calls EXCEPT ![p] = Idle]
  /\ UNCHANGED <<pendingTx, mined, sent, store, storeModels, models, receipts>>

ClientStep(p) ==
  \/ ReadModel(p) \/ CallFails(p) \/ BuildTransaction(p) \/ SendRawTransaction(p)
  \/ CallReturns(p) \/ ReceiptTimesOut(p)

MktNext ==
  \/ \E p \in Process : ClientStep(p) \/ \E c \in MarketCall : Call(p, c)
  \/ Mine

-----------------------------------------------------------------------------
(* Properties.                                                             *)

\* A call that returned True has its transaction in the chain, alone under its
\* nonce, though processes share the account, transactions replace each other and
\* receipts time out.  It may have reverted there.
TrueMeansMined ==
  /\ \A r \in results : r.value => \E receipt \in receipts : receipt.tx = r.tx
  /\ Cardinality({receipt.tx : receipt \in receipts}) = mined

\* An update leaves what it does not name as it is, unless another write of the
\* model was mined between its read and its own transaction.
LoneUpdateKeepsRest ==
  [][\A m \in MarketModel :
       LET t == pendingTx
       IN  /\ t # NoTx /\ pendingTx' = NoTx /\ models'[m] # models[m]
           /\ t.call.op = "update_model" /\ t.read = models[m].writes
           => \A f \in Field : f \notin DOMAIN t.call.given =>
                models'[m].data[f] = models[m].data[f]]_mktVars
=============================================================================
