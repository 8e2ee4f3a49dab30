------------------------------ MODULE Registry ------------------------------
(***************************************************************************)
(* The model registry (internal/engine/providers/config.go): how a stage   *)
(* finds its models in a configuration.                                    *)
(*                                                                         *)
(* A configuration c is what providers.yaml decodes to:                    *)
(*   c.providers   [some providers -> enabled?]                            *)
(*   c.models      a sequence of [provider, roles, scores], in the order   *)
(*                 of their keys; a key is a position in it, and scores is *)
(*                 a function from some roles to numbers                   *)
(*   c.pipelines   [some names -> [judges       : sequence of keys,        *)
(*                                 coder_fusion : [some seats -> key],     *)
(*                                 panel        : [roles -> Panel]]]       *)
(* and a Panel is [n, models, providers]: at most one number, a sequence   *)
(* of keys, a set of providers; NoPanel if the file has none.              *)
(***************************************************************************)
EXTENDS Integers, Sequences, FiniteSets

\* What the selection takes for granted of what has been decoded.
IsConfig(c) ==
    LET IsList(list) == IsFiniteSet(DOMAIN list) /\ DOMAIN list \subseteq Int
    IN  /\ IsList(c.models)
        /\ \A key \in DOMAIN c.models : \A role \in DOMAIN c.models[key].scores :
              c.models[key].scores[role] \in Int
        /\ \A name \in DOMAIN c.pipelines, role \in {"tl", "reviewer"} :
              LET panel == c.pipelines[name].panel[role]
              IN  /\ IsList(panel.models)
                  /\ panel.n \subseteq Int

NoPanel == [n |-> {}, models |-> <<>>, providers |-> {}]

Known(c, key) == key \in DOMAIN c.models

\* A provider that the file does not mention is the zero Provider: enabled.
IsEnabled(c, provider) == provider \in DOMAIN c.providers => c.providers[provider]

\* Does ResolveNamed find the model?  It alone wants the provider configured.
ResolveNamed(c, key) ==
    /\ Known(c, key)
    /\ c.models[key].provider \in DOMAIN c.providers
    /\ IsEnabled(c, c.models[key].provider)

\* The seats of a coding job that resolve to a model of the pipeline.
CoderFusionBlock(c, pipeline) ==
    IF pipeline \notin DOMAIN c.pipelines THEN {}
    ELSE LET block == c.pipelines[pipeline].coder_fusion
         IN  {seat \in DOMAIN block : ResolveNamed(c, block[seat])}

\* The places of a pipeline's list of judges whose models are usable, and are
\* asked in the order of the list; an error if there are none.
ResolveJudges(c, pipeline) ==
    IF pipeline \notin DOMAIN c.pipelines THEN {}
    ELSE LET judges == c.pipelines[pipeline].judges
         IN  {i \in DOMAIN judges :
                 Known(c, judges[i]) /\ IsEnabled(c, c.models[judges[i]].provider)}

-----------------------------------------------------------------------------
\* A candidate for a seat of a panel, with its place in the list that was gone
\* through to find it.
Candidate(score, key, place) == [score |-> score, key |-> key, place |-> place]

\* tl and reviewer models stand in for one another.
MayFill(model, role) ==
    \/ role \in model.roles
    \/ role \in {"tl", "reviewer"} /\ model.roles \cap {"tl", "reviewer"} # {}

\* The score for the role, else for tl, else for reviewer.
Score(model, role) ==
    LET has == DOMAIN model.scores
    IN  CASE role \in has -> model.scores[role]
          [] role \notin has /\ "tl" \in has -> model.scores["tl"]
          [] has \cap {role, "tl"} = {} /\ "reviewer" \in has -> model.scores["reviewer"]
          [] OTHER -> 0

RoleCandidates(c, role, allowed, ignoreScore) ==
    LET Fits(key) == LET model == c.models[key]
                     IN  /\ MayFill(model, role)
                         /\ allowed # {} => model.provider \in allowed
                         /\ IsEnabled(c, model.provider)
                         /\ ignoreScore \/ Score(model, role) # 0
    IN  {Candidate(Score(c.models[key], role), key, key) : key \in {k \in DOMAIN c.models : Fits(k)}}

\* Those that an explicit panel names and that have a score for this very role.
\* The providers of the panel are not looked at.
ExplicitCandidates(c, role, panel) ==
    LET Scored(key) == /\ Known(c, key)
                       /\ IsEnabled(c, c.models[key].provider)
                       /\ role \in DOMAIN c.models[key].scores
    IN  {Candidate(c.models[panel.models[i]].scores[role], panel.models[i], i) :
            i \in {j \in DOMAIN panel.models : Scored(panel.models[j])}}

\* A mutation of the next definition: ties go to the later candidate.
PrecedesUnstable(a, b) ==
    a.score > b.score \/ (a.score = b.score /\ a.place > b.place)

\* By descending score; ties keep their order.
Precedes(a, b) ==
    a.score > b.score \/ (a.score = b.score /\ a.place < b.place)

\* sort.SliceStable: a candidate comes after as many others as precede it.
SortCands(cands) ==
    [n \in 1 .. Cardinality(cands) |->
        CHOOSE x \in cands : Cardinality({y \in cands : Precedes(y, x)}) = n - 1]

\* Seats of a panel: as asked for, as configured, or three.
Seats(panel, n) ==
    IF n > 0 THEN n
    ELSE IF panel.n = {} THEN 3
    ELSE CHOOSE m \in panel.n : TRUE

\* take slices the candidates: a negative number of seats panics.
Panics(c, pipeline, role, n) ==
    /\ pipeline \in DOMAIN c.pipelines
    /\ Seats(c.pipelines[pipeline].panel[role], n) < 0

Take(sorted, seats) ==
    [n \in 1 .. (IF seats < Len(sorted) THEN seats ELSE Len(sorted)) |-> sorted[n].key]

\* The explicit panel if it has scores, else the registry by score, else anybody
\* who may fill the role.
Candidates(c, panel, role) ==
    LET explicit == ExplicitCandidates(c, role, panel)
        scored   == RoleCandidates(c, role, panel.providers, FALSE)
    IN  IF explicit # {} THEN explicit
        ELSE IF scored # {} THEN scored
        ELSE RoleCandidates(c, role, panel.providers, TRUE)

ResolveRoleModels(c, pipeline, role, n) ==
    LET panel == c.pipelines[pipeline].panel[role]
    IN  IF pipeline \notin DOMAIN c.pipelines THEN <<>>
        ELSE Take(SortCands(Candidates(c, panel, role)), Seats(panel, n))
=============================================================================
