---------------------------- MODULE MCNodeServices ----------------------------
(* Instances of NodeServices for TLC. *)
EXTENDS NodeServices

CONSTANTS n1, n2, q1, q2, x1, x2, x3, e1, c1, c2, p1, p2, w1, w2

MCNode == {n1, n2}

\* Nodes, workers, processes and participants that nothing distinguishes, in the services
\* whose state is large.
MCAlike == {q1, q2}
MCSymmetry == Permutations(MCAlike)

MCProposal == {p1, p2}
MCTerms    == {[quorum |-> 0, threshold |-> 50, period |-> 1],
               [quorum |-> 2, threshold |-> 50, period |-> 0]}
\* Two nodes of the base class, one with two proposals, and one LolDAO.
MCDeployments == {[nodes |-> MCNode, lol |-> {}, proposals |-> {p1}],
                  [nodes |-> {n1}, lol |-> {}, proposals |-> MCProposal],
                  [nodes |-> {n1}, lol |-> {n1}, proposals |-> {p1}]}
MCBaseDeployments == {d \in MCDeployments : d.lol = {}}

\* An application that meets the requirements and one for each that does not.
Specs == [platform |-> "Jetson AGX Orin", ram |-> 1, storage |-> 1, cores |-> 1, complete |-> TRUE]
MCApplication ==
  {[stake |-> 10, reputation |-> 5, specs |-> Specs],
   [stake |-> 9, reputation |-> 5, specs |-> Specs],
   [stake |-> 10, reputation |-> 4, specs |-> Specs],
   [stake |-> 10, reputation |-> 5, specs |-> [Specs EXCEPT !.platform = "Jetson Nano"]],
   [stake |-> 10, reputation |-> 5, specs |-> [Specs EXCEPT !.ram = 0]],
   [stake |-> 10, reputation |-> 5, specs |-> [Specs EXCEPT !.complete = FALSE]]}
\* Enough, and too little.
MCStakes == {[stake |-> 1000, reputation |-> 100], [stake |-> 999, reputation |-> 100]}
MCLayers == {<<c1>>, <<c1, c2>>, <<c2, c1>>}

MCDefaultRatios == [treasury |-> 3, community |-> 7]
\* Without a treasury, and less or more than the whole.
MCCustomRatios == {[community |-> 10], [treasury |-> 9], [treasury |-> 6, team |-> 5]}

MCModelOf == (x1 :> c1) @@ (x2 :> c1) @@ (x3 :> c2)

MCMarketCall ==
  {[op |-> op, model |-> e1, given |-> <<>>] :
     op \in {"create_store", "update_store", "use_model", "deactivate_model"}}
  \cup {[op |-> "register_model", model |-> e1, given |-> [f \in Field |-> w1]],
        [op |-> "update_model", model |-> e1, given |-> c1 :> w2],
        [op |-> "update_model", model |-> e1, given |-> c2 :> w2]}
MCFusionCall ==
  {[op |-> "create_fused_model", components |-> <<e1, e1>>, shares |-> <<5000, 5000>>],
   [op |-> "create_fused_model", components |-> <<e1, e1>>, shares |-> <<5000, 4000>>],
   [op |-> "use_fused_model", components |-> <<>>, shares |-> <<>>]}

Info(arch, input, output) == [arch |-> arch, input |-> input, output |-> output]
Infos == {Info({"vision"}, c1, c2), Info({"language", "transformer"}, c2, c1),
          Info({"cnn"}, c1, c1), Info({}, c2, c2)}
MCCollections == UNION {[1 .. n -> Infos] : n \in 2 .. 3}

Offered(id, info, words, price, strong) ==
  [id |-> id, arch |-> info.arch, input |-> info.input, output |-> info.output,
   words |-> words, price |-> price, strong |-> strong]
MCOffer ==
  {Offered(x1, Info({"vision"}, c1, c2), {w1, w2}, 1, {"speed"}),
   Offered(x2, Info({"language", "transformer"}, c2, c2), {w1}, 2, {"accuracy"}),
   Offered(x3, Info({"cnn"}, c1, c1), {w1, w2}, 0, {})}
Asks(user, task, type, budget, priority) ==
  [user |-> user, task |-> task, type |-> type, budget |-> budget, priority |-> priority]
MCQuestion ==
  {Asks(Nobody, {}, "language", 2, NoPriority),
   Asks(n1, {w1, w2}, AnyType, NoBudget, "accuracy"),
   Asks(n1, {w2}, AnyType, 1, "speed")}
MCPreference ==
  {[preferred_model_types |-> {"vision"}, previously_used_models |-> {x2}]}
=============================================================================
