------------------------------ MODULE ModelFusion ------------------------------
(***************************************************************************)
(* src/model_fusion.py: scores how well models go together and creates and *)
(* uses fused models with the account of the marketplace client.  The      *)
(* fusion contract is in no file: it accepts a call or reverts.            *)
(***************************************************************************)
EXTENDS ModelMarketplace

CONSTANTS
  FusionCall,     \* calls: [op, components, shares]
  Format,         \* what models read and write
  Collections     \* sequences of models whose compatibility is asked for

FusionOp == {"create_fused_model", "use_fused_model"}

WholeShare == 10000
ArchWord == {"vision", "language", "transformer", "cnn"}
ModelInfo == [arch : SUBSET ArchWord, input : Format, output : Format]

ASSUME FusionAssumption ==
  (\A c \in FusionCall : c.op \in FusionOp) /\ Collections \subseteq Seq(ModelInfo)

VARIABLES
  fused,          \* history: what the contract holds by transaction
  compatibility   \* the last question and its answer

fusVars == <<mktVars, fused, compatibility>>

FusTypeOK ==
  /\ \A x \in fused : x.tx \in 1 .. MaxMined
  /\ compatibility.score \in 0 .. 100

-----------------------------------------------------------------------------
Somewhere(infos, w) == \E i \in DOMAIN infos : w \in infos[i].arch

\* Mutant of Links: only models that follow each other are compared.
Links_Neighbours(infos) ==
  {ij \in (DOMAIN infos) \X (DOMAIN infos) :
     ij[1] \in {ij[2] - 1, ij[2] + 1} /\ infos[ij[1]].output = infos[ij[2]].input}

\* The output of one model is the input of another one.
Links(infos) ==
  {ij \in (DOMAIN infos) \X (DOMAIN infos) :
     ij[1] # ij[2] /\ infos[ij[1]].output = infos[ij[2]].input}

Bridges(infos)  == Somewhere(infos, "vision") /\ Somewhere(infos, "language")
Extracts(infos) == Somewhere(infos, "transformer") /\ Somewhere(infos, "cnn")

CompatibilityScore(infos) ==
  LET raw == (IF Bridges(infos) THEN 30 ELSE 0) + (IF Extracts(infos) THEN 25 ELSE 0)
             + 20 * Cardinality(Links(infos))
  IN  IF raw > 100 THEN 100 ELSE raw

Point(name, link, compat) == [name |-> name, link |-> link, compatibility |-> compat]

\* How the models may be connected, and how well each way fits.
ConnectionPoints(infos) ==
  LET found == (IF Bridges(infos) THEN {Point("Vision-Language Bridge", <<>>, 85)} ELSE {})
        \cup (IF Extracts(infos) THEN {Point("Feature Extraction Pipeline", <<>>, 80)} ELSE {})
        \cup {Point("Data Pipeline", ij, 90) : ij \in Links(infos)}
  IN  IF found = {} THEN {Point("Custom Adapter", <<>>, 60)} ELSE found

CheckCompatibility(infos) ==
  /\ Len(infos) >= 2
  /\ compatibility' = [of |-> infos, score |-> CompatibilityScore(infos),
                       is_compatible |-> CompatibilityScore(infos) > 60,
                       points |-> ConnectionPoints(infos)]
  /\ UNCHANGED <<mktVars, fused>>

FusInit ==
  /\ MktInit
  /\ fused = {}
  /\ compatibility = [of |-> <<>>, score |-> 0, is_compatible |-> FALSE, points |-> {}]

-----------------------------------------------------------------------------
SharesAreWhole(shares) == FoldSeq(LAMBDA share, sum : share + sum, 0, shares) = WholeShare

ValidShares(c) ==
  Len(c.components) >= 2 /\ Len(c.components) = Len(c.shares) /\ SharesAreWhole(c.shares)

\* The metadata is uploaded with an await; the call may then fail, or go on to the
\* same transaction as the calls of the marketplace.
FusionRequest(p, c) ==
  /\ calls[p] = Idle
  /\ sent < MaxMined
  /\ c.op = "create_fused_model" => ValidShares(c)
  /\ calls' = [calls EXCEPT ![p] = [at |-> "ready", call |-> c, data |-> <<>>, read |-> 0]]
  /\ UNCHANGED <<pendingTx, mined, sent, store, storeModels, models, results, receipts, fused,
                 compatibility>>

MineFusion ==
  /\ pendingTx # NoTx /\ pendingTx.call.op \notin MarketOp
  /\ \E ok \in BOOLEAN :
       /\ IsMined(pendingTx, ok)
       /\ fused' = IF ok /\ pendingTx.call.op = "create_fused_model"
                   THEN fused \cup {[tx |-> pendingTx.tx, shares |-> pendingTx.call.shares]}
                   ELSE fused
  /\ UNCHANGED <<sent, store, storeModels, models, results, compatibility>>

\* create_fused_model finds its id in the event of the contract or raises;
\* use_fused_model returns True whatever the status is.
FusionReturns(p) ==
  /\ calls[p].at = "mined" /\ calls[p].call.op \notin MarketOp
  /\ results' = results \cup
       {[tx |-> calls[p].tx, op |-> calls[p].call.op,
         value |-> \/ calls[p].call.op = "use_fused_model"
                   \/ \E x \in fused : x.tx = calls[p].tx]}
  /\ calls' = [calls EXCEPT ![p] = Idle]
  /\ UNCHANGED <<pendingTx, mined, sent, store, storeModels, models, receipts, fused, compatibility>>

FusNext ==
  \/ MktNext /\ UNCHANGED <<fused, compatibility>>
  \/ \E p \in Process : FusionReturns(p) \/ \E c \in FusionCall : FusionRequest(p, c)
  \/ MineFusion

\* Asking for a score sends nothing.
CompatNext == \E infos \in Collections : CheckCompatibility(infos)

-----------------------------------------------------------------------------
(* Properties.                                                             *)

\* The score is the same for every order of the models, a model more never lowers
\* it, and no models are found compatible without a link between two of them.
ScoreIsFair ==
  LET infos == compatibility.of
      without(i) == SubSeq(infos, 1, i - 1) \o SubSeq(infos, i + 1, Len(infos))
      inOrder(p) == [i \in DOMAIN infos |-> infos[p[i]]]
  IN  /\ \A p \in Bijection(DOMAIN infos, DOMAIN infos) :
           CompatibilityScore(inOrder(p)) = compatibility.score
      /\ \A i \in DOMAIN infos : CompatibilityScore(without(i)) <= compatibility.score
      /\ compatibility.is_compatible =>
           \E point \in compatibility.points : point.link # <<>>

\* Who got the id of a fused model has one that the contract holds, whose owners
\* share the whole revenue, whatever else the account sent at the time.
FusedIsShared ==
  \A r \in results : (r.op = "create_fused_model" /\ r.value) =>
    \E x \in fused : x.tx = r.tx /\ SharesAreWhole(x.shares)

\* Of the calls of marketplace and fusion: who is told so has it in the chain.
CallersToldTruth == TrueMeansMined /\ FusedIsShared
=============================================================================
