------------------------------ MODULE AIAssistant ------------------------------
(***************************************************************************)
(* src/ai_assistant.py: recommends models, suggests which to fuse and how  *)
(* to connect them.  It takes the models from the marketplace anew in each *)
(* step of a suggestion, and the compatibility of a pair from the fusion   *)
(* engine or, where that raises, from a rule of its own.                   *)
(***************************************************************************)
EXTENDS ModelFusion

CONSTANTS
  User, Nobody,
  Offer,          \* models the marketplace may list: id, arch, input, output,
                  \* words (of the description), price, strong (in which benchmark)
  Question,       \* questions: user, task (its words), type, budget, priority
  AnyType, NoBudget, NoPriority,
  Preference,     \* what may be stored: a function of some keys
  TopCount,       \* 5
  MaxListed       \* bound on the listed models

ASSUME AssistantAssumption ==
  /\ \A q \in Question : IsFiniteSet(q.task)
  /\ \A given \in Preference : "preferred_model_types" \in DOMAIN given =>
       given.preferred_model_types \subseteq ArchWord
  /\ MaxListed \in Nat

VARIABLES
  catalogue,      \* get_all_models
  user_preferences,
  suggesting,     \* a suggestion between its two looks at the catalogue
  answer          \* the last answer, until something changes

aiVars == <<catalogue, user_preferences, suggesting, answer>>

NoAnswer == [kind |-> "none"]
NotSuggesting == [asked |-> {}, chosen |-> {}]
Ids(ms) == {ms[i].id : i \in DOMAIN ms}

AiTypeOK ==
  /\ ToSet(catalogue) \subseteq Offer /\ Cardinality(Ids(catalogue)) = Len(catalogue)
  /\ \A u \in User : user_preferences[u].preferred_model_types \subseteq ArchWord
  /\ suggesting.chosen \subseteq Ids(catalogue)
  /\ answer.kind \in {"none", "models", "pairs", "connections"}

AiInit ==
  /\ catalogue = <<>>
  /\ user_preferences =
       [u \in User |-> [preferred_model_types |-> {}, previously_used_models |-> {}]]
  /\ suggesting = NotSuggesting /\ answer = NoAnswer

-----------------------------------------------------------------------------
\* Another model is registered.
ListModel(m) ==
  /\ m.id \notin Ids(catalogue) /\ Len(catalogue) < MaxListed
  /\ catalogue' = Append(catalogue, m)
  /\ answer' = NoAnswer
  /\ UNCHANGED <<user_preferences, suggesting>>

\* Keys that are given replace what was stored under them.
StoreUserPreference(u, given) ==
  /\ user_preferences' = [user_preferences EXCEPT ![u] =
       [k \in DOMAIN given \cup DOMAIN @ |-> IF k \in DOMAIN given THEN given[k] ELSE @[k]]]
  /\ answer' = NoAnswer
  /\ UNCHANGED <<catalogue, suggesting>>

\* _filter_models
Fits(m, q) ==
  /\ q.type = AnyType \/ q.type \in m.arch
  /\ q.budget = NoBudget \/ m.price <= q.budget

Preferred(m, u) ==
  u # Nobody /\ user_preferences[u].preferred_model_types \cap m.arch # {}
UsedBefore(m, u) == u # Nobody /\ m.id \in user_preferences[u].previously_used_models

\* _score_models, capped
Relevance(m, q) ==
  LET raw == 50 + 5 * Cardinality(q.task \cap m.words)
             + (IF Preferred(m, q.user) THEN 15 ELSE 0)
             + (IF UsedBefore(m, q.user) THEN 10 ELSE 0)
             + (IF q.priority \in m.strong THEN 20 ELSE 0)
  IN  IF raw > 100 THEN 100 ELSE raw

\* Mutant of Outranks: without reverse=True.
Outranks_Ascending(scored, x, y) ==
  \/ scored[x].score < scored[y].score
  \/ scored[x].score = scored[y].score /\ scored[x].place < scored[y].place

\* Python's sort keeps the order of equals, also in reverse.
Outranks(scored, x, y) ==
  \/ scored[x].score > scored[y].score
  \/ scored[x].score = scored[y].score /\ scored[x].place < scored[y].place

Rank(scored, x) == Cardinality({y \in DOMAIN scored : Outranks(scored, y, x)}) + 1

Sorted(scored) ==
  [k \in 1 .. Cardinality(DOMAIN scored) |->
     scored[CHOOSE x \in DOMAIN scored : Rank(scored, x) = k]]

\* The models that fit, by their position in the list.
ScoredModels(q) ==
  [i \in {n \in DOMAIN catalogue : Fits(catalogue[n], q)} |->
     [model |-> catalogue[i], score |-> Relevance(catalogue[i], q), place |-> i]]

Recommended(q) == [kind |-> "models", question |-> q, ranked |-> Sorted(ScoredModels(q))]

RecommendModels(q) ==
  /\ answer' = Recommended(q)
  /\ UNCHANGED <<catalogue, user_preferences, suggesting>>

-----------------------------------------------------------------------------
\* The ids that are given, or the first of the list if there is a task: they were
\* scored, but not sorted.
Selected(ids, task) ==
  IF ids # {} \/ task = {} THEN ids
  ELSE Ids(SubSeq(catalogue, 1, IF Len(catalogue) < TopCount THEN Len(catalogue) ELSE TopCount))

SuggestFusionCombinations(ids, task) ==
  /\ suggesting = NotSuggesting
  /\ LET asked == Selected(ids, task)
     IN  /\ asked # {}
         /\ suggesting' = [asked |-> asked, chosen |-> asked \cap Ids(catalogue)]
  /\ UNCHANGED <<catalogue, user_preferences, answer>>

OfId(id) == CHOOSE m \in ToSet(catalogue) : m.id = id

Pairing(a, b, one, other) ==
  \/ one \in a.arch /\ other \in b.arch
  \/ other \in a.arch /\ one \in b.arch

Complements(a, b) ==
  Pairing(a, b, "vision", "language") \/ Pairing(a, b, "transformer", "cnn")

\* _find_complementary_models: each goes with some chosen model.
IsComplementary(m, chosen) ==
  m.id \notin chosen /\ \E id \in chosen : Complements(m, OfId(id))

\* The rule of the assistant itself does not look at formats.
RuleScore(a, b) ==
  LET raw == 50 + (IF Pairing(a, b, "vision", "language") THEN 30 ELSE 0)
             + (IF Pairing(a, b, "transformer", "cnn") THEN 25 ELSE 0)
  IN  IF raw > 100 THEN 100 ELSE raw

\* _check_model_compatibility
PairScore(a, b, answered) ==
  IF <<a.id, b.id>> \in answered THEN CompatibilityScore(<<a, b>>) ELSE RuleScore(a, b)

\* Positions of a chosen model and of one to add to it.
Candidates(asked, chosen) ==
  {ij \in (DOMAIN catalogue) \X (DOMAIN catalogue) :
     /\ catalogue[ij[1]].id \in chosen
     /\ IsComplementary(catalogue[ij[2]], chosen)
     /\ catalogue[ij[2]].id \notin asked}

IdsAt(ij) == <<catalogue[ij[1]].id, catalogue[ij[2]].id>>
ScoreAt(ij, answered) == PairScore(catalogue[ij[1]], catalogue[ij[2]], answered)

\* In the order of the two loops over chosen models and over those to add.
ScoredPairs(asked, chosen, answered) ==
  [ij \in {c \in Candidates(asked, chosen) : ScoreAt(c, answered) > 60} |->
     [pair |-> <<catalogue[ij[1]], catalogue[ij[2]]>>, score |-> ScoreAt(ij, answered),
      place |-> ij[1] * Len(catalogue) + ij[2]]]

Suggested(asked, chosen, answered) ==
  [kind |-> "pairs", asked |-> asked, chosen |-> chosen, answered |-> answered,
   ranked |-> Sorted(ScoredPairs(asked, chosen, answered))]

\* The engine answers for some pairs, none if there is no engine.
SuggestionEnds ==
  /\ suggesting # NotSuggesting
  /\ \E answered \in SUBSET {IdsAt(ij) : ij \in Candidates(suggesting.asked, suggesting.chosen)} :
       answer' = Suggested(suggesting.asked, suggesting.chosen, answered)
  /\ suggesting' = NotSuggesting
  /\ UNCHANGED <<catalogue, user_preferences>>

\* The type of a connection is direct if it fits well.
Configured(infos) ==
  LET compatible == CompatibilityScore(infos) > 60
  IN  [kind |-> "connections", success |-> compatible, config |->
         IF ~compatible THEN {}
         ELSE {[point |-> point, type |-> IF point.compatibility > 80 THEN "direct" ELSE "adapter"] :
                 point \in ConnectionPoints(infos)}]

\* Only with the engine.
SuggestConnectionConfig(ids) ==
  /\ answer' = Configured([i \in DOMAIN ids |-> OfId(ids[i])])
  /\ UNCHANGED <<catalogue, user_preferences, suggesting>>

AiNext ==
  \/ \E m \in Offer : ListModel(m)
  \/ \E u \in User, given \in Preference : StoreUserPreference(u, given)
  \/ \E q \in Question : RecommendModels(q) \/ SuggestFusionCombinations({}, q.task)
  \/ \E ids \in SUBSET {m.id : m \in Offer} : SuggestFusionCombinations(ids, {})
  \/ SuggestionEnds
  \/ \E n \in 2 .. MaxListed : \E ids \in [1 .. n -> Ids(catalogue)] : SuggestConnectionConfig(ids)

-----------------------------------------------------------------------------
(* Properties.                                                             *)

\* Whatever a model is at least as good in - common words, a preferred type, used
\* before, the benchmark, the price - cannot put it behind another one, unless both
\* score the same and it was listed later: nothing that fits is lost on the way.
BetterIsNotBehind ==
  answer.kind = "models" =>
    LET q == answer.question
        ranked == answer.ranked
        atLeast(a, b) ==
          /\ q.task \cap b.words \subseteq a.words
          /\ Preferred(b, q.user) => Preferred(a, q.user)
          /\ UsedBefore(b, q.user) => UsedBefore(a, q.user)
          /\ q.priority \in b.strong => q.priority \in a.strong
        place(m) == {i \in DOMAIN ranked : ranked[i].model = m}
        listed(m) == {i \in DOMAIN catalogue : catalogue[i] = m}
    IN  \A a, b \in ToSet(catalogue) :
          /\ Cardinality(place(a)) = IF Fits(a, q) THEN 1 ELSE 0
          /\ \A i \in place(a), j \in place(b) : (atLeast(a, b) /\ j < i) =>
               /\ ranked[i].score = ranked[j].score
               /\ \A k \in listed(a), l \in listed(b) : l < k

\* A suggestion adds a model nobody asked about.  It has complementary words if the
\* engine did not answer, and then none such is missing; if it did answer, one of the
\* two reads what the other writes, for words alone do not reach the limit.
SuggestedHasReason ==
  answer.kind = "pairs" =>
    LET suggested == {answer.ranked[i].pair : i \in DOMAIN answer.ranked}
        byEngine(a, b) == <<a.id, b.id>> \in answer.answered
    IN  /\ \A ab \in suggested :
             LET a == ab[1]  b == ab[2]
             IN  /\ a.id \in answer.chosen /\ b.id \notin answer.asked
                 /\ IF byEngine(a, b) THEN Links(ab) # {} ELSE Complements(a, b)
        /\ \A a, b \in ToSet(catalogue) :
             (/\ a.id \in answer.chosen /\ b.id \notin answer.asked
              /\ Complements(a, b) /\ ~byEngine(a, b)) => <<a, b>> \in suggested

\* A configuration is only given where some model is connected directly to another
\* one, which reads what it writes: the words of the architectures never suffice.
ConfiguredIsDirect ==
  (answer.kind = "connections" /\ answer.success) =>
    \E connection \in answer.config :
      connection.type = "direct" /\ connection.point.link # <<>>

\* Every answer of the assistant, and every score of the engine it asks, is such.
AdviceHolds == ScoreIsFair /\ BetterIsNotBehind /\ SuggestedHasReason /\ ConfiguredIsDirect
=============================================================================
