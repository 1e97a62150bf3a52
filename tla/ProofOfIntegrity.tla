--------------------------- MODULE ProofOfIntegrity ---------------------------
(***************************************************************************)
(* src/consensus/proof_of_integrity.py: a node broadcasts a request, other *)
(* nodes queue it, and their worker signs a proof, stores it and           *)
(* broadcasts it.  Nothing stores a proof that another node has broadcast: *)
(* a requester who waits for a result finds the proofs of its own worker.  *)
(***************************************************************************)
EXTENDS Naturals, Sequences, SequencesExt

CONSTANTS
  IntNode,
  Request,       \* requests there may be
  MaxPending     \* bound on a validation queue

VARIABLES
  requested,            \* requests on the bus, each with its requester
  validation_queue,
  validation_results,
  proofs                \* proofs on the bus

intVars == <<requested, validation_queue, validation_results, proofs>>

IntTypeOK ==
  /\ requested \subseteq [id : Request, requester : IntNode]
  /\ validation_queue \in [IntNode -> Seq(Request)]
  /\ validation_results \in [IntNode -> SUBSET Request]
  /\ proofs \subseteq [request_id : Request, validator : IntNode]

IntInit ==
  /\ requested = {}
  /\ validation_queue = [n \in IntNode |-> <<>>]
  /\ validation_results = [n \in IntNode |-> {}]
  /\ proofs = {}

-----------------------------------------------------------------------------
SubmitForValidation(n, r) ==
  /\ \A q \in requested : q.id # r
  /\ requested' = requested \cup {[id |-> r, requester |-> n]}
  /\ UNCHANGED <<validation_queue, validation_results, proofs>>

\* The signature is not verified; the same request may come twice.
ValidateRequest(n, q) ==
  /\ q \in requested
  /\ Len(validation_queue[n]) < MaxPending
  /\ validation_queue' = [validation_queue EXCEPT ![n] = Append(@, q.id)]
  /\ UNCHANGED <<requested, validation_results, proofs>>

\* Mutant of ProcessValidation: the result is stored when it has been broadcast.
ProcessValidation_StoresLate(n) ==
  /\ validation_queue[n] # <<>>
  /\ LET r == Head(validation_queue[n])
     IN  \/ /\ validation_results' = [validation_results EXCEPT ![n] = @ \cup {r}]
            /\ proofs' = proofs \cup {[request_id |-> r, validator |-> n]}
         \/ UNCHANGED <<validation_results, proofs>>
  /\ validation_queue' = [validation_queue EXCEPT ![n] = Tail(@)]
  /\ UNCHANGED requested

\* The result is stored before the broadcast, which may raise.
ProcessValidation(n) ==
  /\ validation_queue[n] # <<>>
  /\ LET r == Head(validation_queue[n])
     IN  /\ validation_results' = [validation_results EXCEPT ![n] = @ \cup {r}]
         /\ proofs' \in {proofs, proofs \cup {[request_id |-> r, validator |-> n]}}
  /\ validation_queue' = [validation_queue EXCEPT ![n] = Tail(@)]
  /\ UNCHANGED requested

IntNext ==
  \E n \in IntNode :
    \/ \E r \in Request : SubmitForValidation(n, r)
    \/ \E q \in requested : ValidateRequest(n, q)
    \/ ProcessValidation(n)

\* What get_validation_result finds when it polls.
GetValidationResult(n, r) == r \in validation_results[n]

-----------------------------------------------------------------------------
(* Properties.                                                             *)

\* A proof on the bus is of a request somebody made, and whoever signed it finds
\* it among its own results.
ProofsAreBacked ==
  \A p \in proofs :
    /\ \E q \in requested : q.id = p.request_id
    /\ GetValidationResult(p.validator, p.request_id)

\* A request that waits in the queue of a node gets its result there, though
\* broadcasts raise and requests keep coming.
QueuedIsValidated ==
  \A n \in IntNode, r \in Request :
    (r \in ToSet(validation_queue[n])) ~> GetValidationResult(n, r)
=============================================================================
