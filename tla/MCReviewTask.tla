---------------------------- MODULE MCReviewTask ----------------------------
(* ReviewTask with a few edits of one file, and a catalog of registries of two *)
(* or three models to compare the selection on.                                *)
EXTENDS ReviewTask

Model(p, roles, scores) == [provider |-> p, roles |-> roles, scores |-> scores]

NoScores == [role \in {} |-> 0]

APanel(n, models, providers) == [n |-> n, models |-> models, providers |-> providers]

\* A registry whose default pipeline has this panel for both roles.
ARegistry(enabled, models, panel) ==
    [providers |-> enabled,
     models    |-> models,
     pipelines |-> [name \in {"default"} |->
        [judges |-> <<1, 4, 2>>, coder_fusion |-> [A |-> 1, evaluator |-> 3, lead |-> 4],
         panel |-> [role \in {"tl", "reviewer"} |-> panel]]]]

Kinds == {Model("p", {"reviewer"}, [reviewer |-> 2]),
          Model("p", {"tl"}, [tl |-> 2]),
          Model("q", {"tl", "reviewer"}, [tl |-> 1, reviewer |-> 3]),
          Model("q", {"coder"}, [reviewer |-> 1]),
          Model("p", {"reviewer"}, NoScores),
          Model("unlisted", {"reviewer"}, [coder |-> 3, reviewer |-> 2])}

SmallCatalog ==
    {ARegistry(enabled, models, APanel(n, explicit, providers)) :
        enabled   \in {e \in [{"p", "q"} -> BOOLEAN] : e["p"] \/ e["q"]},
        models    \in [1 .. 3 -> Kinds],
        n         \in {{}, {0}, {1}, {2}},
        explicit  \in {<<>>, <<3, 1>>, <<2, 4, 2, 1>>},
        providers \in {{}, {"q", "unlisted"}}}

TwoReviewers == <<Model("p", {"reviewer"}, [reviewer |-> 2]), Model("q", {"tl"}, [tl |-> 2])>>

BothOn == [p \in {"p", "q"} |-> TRUE]

SmallContents ==
    [both     |-> ARegistry(BothOn, TwoReviewers, NoPanel),
     one      |-> ARegistry([BothOn EXCEPT !["q"] = FALSE], TwoReviewers, NoPanel),
     empty    |-> [providers |-> NoScores, models |-> <<>>, pipelines |-> NoScores],
     negative |-> ARegistry(BothOn, TwoReviewers, APanel({-1}, <<>>, {}))]
=============================================================================
