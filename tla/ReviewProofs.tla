---------------------------- MODULE ReviewProofs ----------------------------
(***************************************************************************)
(* What holds of lf_review and the hot reload for every registry, every    *)
(* way of editing it, every number of overlapping reloads and every step   *)
(* cap; and what holds besides when reloads come one after the other.      *)
(***************************************************************************)
EXTENDS ReviewTask, CallerProofs, FiniteSetTheorems

\* Files have contents, and what a reload is about to store has been read.
ReloadInv ==
    /\ file \in DOMAIN Contents
    /\ reload \in [Reloaders -> [content : DOMAIN Contents \cup {Nil}, late : BOOLEAN]]
    /\ \A r \in Reloaders : reload[r] # NotReading => reload[r].content # Nil

\* The report belongs to the job at work, and is there before it is marked.
ReportInv ==
    /\ pc \in {"queued", "start", "ask", "report"} => ~review_md
    /\ pc = "mark" => review_md /\ answers # {}
    /\ ReportIffSuccess

\* A server that is down has neither reloads nor handlers.
DownInv == ~up =>
    /\ \A r \in Reloaders : reload[r] = NotReading
    /\ handler = NoCall
    /\ ~current

\* The configuration that was taken has been in force since.
TakenInv ==
    /\ handler # NoCall => handler \in during
    /\ pc \in Active => cfg \in inForce

IInv == ReloadInv /\ ReportInv /\ DownInv /\ TakenInv /\ GateStaysUp /\ ConfigInForce

\* A read that no edit has overtaken is of the present contents, and one that
\* an edit has overtaken is the last word on the file so far.
FreshInv ==
    /\ current => held = file /\ ~broken
    /\ \A r \in Reloaders : reload[r] # NotReading =>
          IF reload[r].late THEN ~current ELSE reload[r].content = file /\ ~broken

-----------------------------------------------------------------------------
\* A server starts with what it can load, without handlers and jobs.
LEMMA InitIInv == Init => IInv
<1> SUFFICES ASSUME Init PROVE IInv
  OBVIOUS
<1>1. ReloadInv /\ ReportInv /\ DownInv /\ TakenInv
  BY DEF Init, ReloadInv, NotReading, ReportInv, ReportIffSuccess, DownInv, TakenInv, Active
<1>2. GateStaysUp /\ ConfigInForce
  BY ReviewAssumption DEF Init, GateStaysUp, ConfigInForce
<1> QED
  BY <1>1, <1>2 DEF IInv

\* Edits change nothing that is held.
LEMMA EditStep ==
  ASSUME IInv, Edit
  PROVE  IInv'
<1>1. UNCHANGED <<held, up, loaded, agent, job>> /\ ~current'
  BY DEF Edit
<1>2. ReloadInv' /\ \A r \in Reloaders : reload'[r] = NotReading <=> reload[r] = NotReading
  BY ReviewAssumption DEF IInv, ReloadInv, Edit, NotReading
<1> QED
  BY <1>1, <1>2 DEF IInv, ReportInv, ReportIffSuccess, DownInv, TakenInv, GateStaysUp,
     ConfigInForce, agent, job

\* A reload reads, and holds nothing yet.
LEMMA ReloadReadStep ==
  ASSUME IInv, NEW r \in Reloaders, ReloadRead(r)
  PROVE  IInv'
<1>1. UNCHANGED <<file, held, up, loaded, current, agent, job>> /\ up
  BY DEF ReloadRead
<1>2. ReloadInv'
  BY ReviewAssumption DEF IInv, ReloadInv, ReloadRead, NotReading
<1> QED
  BY <1>1, <1>2 DEF IInv, ReportInv, ReportIffSuccess, DownInv, TakenInv, GateStaysUp,
     ConfigInForce, agent, job

\* A reload stores what it has read, which is in force from now on.
LEMMA ReloadStoreStep ==
  ASSUME IInv, NEW r \in Reloaders, ReloadStore(r)
  PROVE  IInv'
<1>1. UNCHANGED <<file, up, handler, job>> /\ up
  BY DEF ReloadStore, IInv, DownInv
<1>2. ReloadInv'
  BY DEF IInv, ReloadInv, ReloadStore, NotReading
<1>3. held' # Nil
  BY DEF IInv, ReloadInv, ReloadStore
<1>4. \A x \in during : x \in during'
  BY DEF ReloadStore
<1> QED
  BY <1>1, <1>2, <1>3, <1>4 DEF IInv, ReportInv, ReportIffSuccess, DownInv, TakenInv, GateStaysUp,
     ConfigInForce, job

\* LfReview, BriefRefused, SubmitActive: a handler comes or goes.
LEMMA HandlerStep ==
  ASSUME IInv, LfReview \/ BriefRefused \/ SubmitActive
  PROVE  IInv'
<1>1. UNCHANGED <<registry, job>>
  BY DEF LfReview, BriefRefused, SubmitActive
<1>2. /\ handler' # NoCall => handler' \in during'
      /\ up \/ handler' = NoCall
  BY DEF LfReview, BriefRefused, SubmitActive
<1> QED
  BY <1>1, <1>2 DEF IInv, ReloadInv, ReportInv, ReportIffSuccess, DownInv, TakenInv, GateStaysUp,
     ConfigInForce, registry, job

\* A new job has the configuration that was taken, and nothing else yet.
LEMMA SubmitStep ==
  ASSUME IInv, SubmitNew
  PROVE  IInv'
<1>1. UNCHANGED registry /\ up /\ handler' = NoCall
  BY DEF SubmitNew, IInv, DownInv
<1>2. ReportInv' /\ ConfigInForce'
  BY DEF SubmitNew, ReportInv, ReportIffSuccess, ConfigInForce
<1>3. TakenInv'
  BY <1>1 DEF SubmitNew, IInv, TakenInv
<1> QED
  BY <1>1, <1>2, <1>3 DEF IInv, ReloadInv, DownInv, GateStaysUp, registry

\* The panel is the one of the configuration in the closure.
LEMMA StartStep ==
  ASSUME IInv, Start
  PROVE  IInv'
<1>1. UNCHANGED <<registry, agent, cfg, review_md, inForce>> /\ pc = "start"
  BY DEF Start
<1>2. \/ pc' = "ask"
      \/ pc' = "done" /\ err' # "nil"
  BY DEF Start, Return, StageErr
<1>3. reviewers' = Panel(cfg) /\ cfg \in inForce
  BY <1>1 DEF Start, IInv, TakenInv, Active
<1>4. ReportInv'
  BY <1>1, <1>2 DEF IInv, ReportInv, ReportIffSuccess
<1>5. ConfigInForce'
  BY <1>1, <1>3 DEF ConfigInForce, Panel
<1> QED
  BY <1>1, <1>4, <1>5 DEF IInv, ReloadInv, DownInv, TakenInv, GateStaysUp, Active, registry, agent

\* Dequeue, Refuse, Ask, Report, NoReport, Mark: the job goes on.
LEMMA JobStep ==
  ASSUME IInv,
         \/ Dequeue \/ Refuse \/ (\E ok \in BOOLEAN : Ask(ok))
         \/ Report \/ NoReport \/ Mark
  PROVE  IInv'
<1>1. UNCHANGED <<registry, agent, cfg, reviewers, inForce>> /\ pc \in Active
  BY DEF Dequeue, Refuse, Ask, Report, NoReport, Mark, Active
<1>2. ReportInv'
  <2>1. CASE Dequeue
    BY <2>1 DEF Dequeue, IInv, ReportInv, ReportIffSuccess
  <2>2. CASE Refuse \/ NoReport
    BY <2>2 DEF Refuse, NoReport, Return, StageErr, IInv, ReportInv, ReportIffSuccess
  <2>3. CASE \E ok \in BOOLEAN : Ask(ok)
    BY <2>3 DEF Ask, IInv, ReportInv, ReportIffSuccess
  <2>4. CASE Report
    BY <2>4 DEF Report, IInv, ReportInv, ReportIffSuccess
  <2>5. CASE Mark
    BY <2>5 DEF Mark, Return, StageErr, IInv, ReportInv, ReportIffSuccess
  <2> QED
    BY <2>1, <2>2, <2>3, <2>4, <2>5
<1> QED
  BY <1>1, <1>2 DEF IInv, ReloadInv, DownInv, TakenInv, GateStaysUp, ConfigInForce, registry, agent

\* A process ends only over a negative number of seats, with all it holds.
LEMMA PanicStep ==
  ASSUME IInv, Panic
  PROVE  IInv'
<1>1. ReloadInv'
  BY DEF Panic, IInv, ReloadInv, NotReading
<1>2. DownInv' /\ TakenInv'
  BY DEF Panic, DownInv, TakenInv, Active
<1>3. GateStaysUp'
  BY DEF Panic, Panics, GateStaysUp
<1> QED
  BY <1>1, <1>2, <1>3 DEF Panic, IInv, ReportInv, ReportIffSuccess, ConfigInForce

\* The next process holds what it can load.
LEMMA RestartStep ==
  ASSUME IInv, Restart
  PROVE  IInv'
<1>1. ReloadInv' /\ DownInv' /\ TakenInv'
  BY DEF Restart, IInv, ReloadInv, DownInv, TakenInv, Active, agent
<1>2. GateStaysUp'
  BY ReviewAssumption DEF Restart, IInv, ReloadInv, GateStaysUp
<1> QED
  BY <1>1, <1>2 DEF Restart, IInv, ReportInv, ReportIffSuccess, ConfigInForce

\* Failed reloads, kills and stuttering change none of this.
LEMMA IdleStep ==
  ASSUME IInv, ReloadFails \/ KillJob \/ UNCHANGED vars
  PROVE  IInv'
<1>1. UNCHANGED <<registry, agent, job>>
  BY DEF ReloadFails, KillJob, vars
<1> QED
  BY <1>1 DEF IInv, ReloadInv, ReportInv, ReportIffSuccess, DownInv, TakenInv, GateStaysUp,
     ConfigInForce, registry, agent, job

-----------------------------------------------------------------------------
\* The invariant behind the next results is inductive.
THEOREM Inductive == Spec => []IInv
<1>1. IInv /\ [Next]_vars => IInv'
  <2> SUFFICES ASSUME IInv, [Next]_vars PROVE IInv'
    OBVIOUS
  <2> QED
    BY EditStep, ReloadReadStep, ReloadStoreStep, HandlerStep, SubmitStep, StartStep, JobStep,
       PanicStep, RestartStep, IdleStep DEF Next
<1> QED
  BY <1>1, InitIInv, PTL DEF Spec

\* A job works with one configuration, which was in force while it was being
\* submitted, however edits and reloads interleave with it.
THEOREM ReviewConfigInForce == Spec => []ConfigInForce
  BY Inductive, PTL DEF IInv

\* No edit and no reload takes the gate down, but for a negative panel.
THEOREM ReviewGateStaysUp == Spec => []GateStaysUp
  BY Inductive, PTL DEF IInv

\* A review succeeds if and only if it has left its own report.
THEOREM ReviewReportIffSuccess == Spec => []ReportIffSuccess
  BY Inductive, PTL DEF IInv, ReportInv

\* No more reviewers are asked for an answer than the step cap of the job allows,
\* and a resubmitted review starts to count anew.
THEOREM ReviewSpendWithinCap == Spec => []SpendWithinCap
<1>1. CallerInv /\ [Next]_vars => CallerInv'
  <2> SUFFICES ASSUME CallerInv, [Next]_vars PROVE CallerInv'
    OBVIOUS
  <2>1. CASE SubmitNew
    <3>1. modelCalls' = 0 /\ sent' = 0
      BY <2>1 DEF SubmitNew
    <3>2. dead' \in BOOLEAN /\ budgetErr' \in BOOLEAN
      BY <2>1, Zenon DEF SubmitNew
    <3>3. SpendWithinCap' /\ modelCalls' \in Nat /\ sent' \in 0 .. modelCalls'
      BY <3>1, CapAssumption DEF SpendWithinCap
    <3> QED
      BY <3>2, <3>3, Zenon DEF CallerInv, CallerTypeOK
  <2>2. CASE \E ok \in BOOLEAN : Ask(ok)
    BY <2>2, CallKeepsInv DEF Ask
  <2>3. CASE KillJob
    BY <2>3, KillKeepsInv DEF KillJob
  <2>4. CASE UNCHANGED caller
    BY <2>4, CallerUnchanged
  <2> QED
    BY <2>1, <2>2, <2>3, <2>4, Zenon DEF Next, vars, Edit, ReloadRead, ReloadStore, ReloadFails,
       LfReview, BriefRefused, SubmitActive, Dequeue, Refuse, Start, Panic, Restart, Report,
       NoReport, Mark
<1>2. Init => CallerInv
  BY CallerInitInv DEF Init
<1>3. CallerInv => SpendWithinCap
  BY DEF CallerInv
<1> QED
  BY <1>1, <1>2, <1>3, PTL DEF Spec

-----------------------------------------------------------------------------
\* A step keeps FreshInv when reloads do not overlap.
LEMMA FreshStep ==
  ASSUME \A r, s \in Reloaders : r = s, IInv, FreshInv, [Next]_vars
  PROVE  FreshInv'
<1>1. CASE Edit
  BY <1>1 DEF Edit, FreshInv, IInv, ReloadInv, NotReading
<1>2. CASE \E r \in Reloaders : ReloadRead(r)
  BY <1>2 DEF ReloadRead, FreshInv, IInv, ReloadInv, NotReading
<1>3. CASE \E r \in Reloaders : ReloadStore(r)
  <2>1. PICK r \in Reloaders : ReloadStore(r)
    BY <1>3
  <2>2. \A s \in Reloaders : reload'[s] = NotReading
    BY <2>1 DEF ReloadStore, IInv, ReloadInv
  <2>3. held' = reload[r].content /\ UNCHANGED <<file, broken>>
    BY <2>1 DEF ReloadStore
  <2>4. CASE reload[r].late
    <3>1. ~current'
      BY <2>1, <2>4, Zenon DEF ReloadStore, FreshInv
    <3> QED
      BY <2>2, <3>1 DEF FreshInv
  <2>5. CASE ~reload[r].late
    <3>1. held' = file' /\ ~broken'
      BY <2>1, <2>3, <2>5 DEF ReloadStore, FreshInv
    <3> QED
      BY <2>2, <3>1 DEF FreshInv
  <2> QED
    BY <2>4, <2>5
<1>4. CASE Panic
  BY <1>4 DEF Panic, FreshInv
<1>5. CASE Restart
  BY <1>5 DEF Restart, FreshInv, IInv, DownInv
<1>6. CASE UNCHANGED registry
  BY <1>6 DEF FreshInv, registry
<1> QED
  BY <1>1, <1>2, <1>3, <1>4, <1>5, <1>6 DEF Next, vars, ReloadFails, LfReview, BriefRefused,
     SubmitNew, SubmitActive, Dequeue, Refuse, Start, Ask, Report, NoReport, Mark, KillJob

\* The description of lf_reload holds when calls of it do not overlap: after a
\* reload that began when the file had its present contents, these are held.
THEOREM SerialReloadIsUsed ==
  ASSUME \A r, s \in Reloaders : r = s
  PROVE  Spec => []ReloadedIsUsed
<1>1. Init => FreshInv
  BY DEF Init, FreshInv, NotReading
<1>2. IInv /\ FreshInv /\ [Next]_vars => FreshInv'
  BY FreshStep
<1>3. FreshInv => ReloadedIsUsed
  BY DEF FreshInv, ReloadedIsUsed
<1> QED
  BY <1>1, <1>2, <1>3, Inductive, PTL DEF Spec

-----------------------------------------------------------------------------
\* Candidates that can be lined up: finitely many, no two at one place.
IsPool(S) ==
    /\ IsFiniteSet(S)
    /\ \A x \in S : x.score \in Int /\ x.place \in Int
    /\ \A x, y \in S : x.place = y.place => x = y

Ahead(S, x) == {y \in S : Precedes(y, x)}
Rank(S, x)  == Cardinality(Ahead(S, x))

\* The order of candidates is total and strict.
LEMMA OrderIsTotal ==
  ASSUME NEW S, IsPool(S)
  PROVE  /\ \A x \in S : ~Precedes(x, x)
         /\ \A x, y \in S : x = y \/ Precedes(x, y) \/ Precedes(y, x)
         /\ \A x, y, z \in S : Precedes(x, y) /\ Precedes(y, z) => Precedes(x, z)
         /\ \A x, y \in S : Precedes(x, y) => ~Precedes(y, x)
  BY DEF IsPool, Precedes

\* As many candidates as there are precede one, at most all others.
LEMMA RankIsSmall ==
  ASSUME NEW S, IsPool(S), NEW x \in S
  PROVE  /\ IsFiniteSet(Ahead(S, x))
         /\ Cardinality(S) \in Nat
         /\ Rank(S, x) \in 0 .. (Cardinality(S) - 1)
<1>1. IsFiniteSet(S) /\ Ahead(S, x) \in SUBSET S /\ x \notin Ahead(S, x)
  BY OrderIsTotal DEF IsPool, Ahead
<1>2. /\ IsFiniteSet(Ahead(S, x))
      /\ Rank(S, x) <= Cardinality(S)
      /\ Rank(S, x) # Cardinality(S)
  BY <1>1, FS_Subset DEF Rank
<1>3. Cardinality(S) \in Nat /\ Rank(S, x) \in Nat
  BY <1>1, <1>2, FS_CardinalityType DEF Rank
<1> QED
  BY <1>2, <1>3

\* Whoever precedes another has a lower rank.
LEMMA RankFollowsOrder ==
  ASSUME NEW S, IsPool(S), NEW x \in S, NEW y \in S, Precedes(x, y)
  PROVE  Rank(S, x) < Rank(S, y)
<1>1. /\ Ahead(S, x) \cup {x} \subseteq Ahead(S, y)
      /\ x \notin Ahead(S, x)
  BY OrderIsTotal DEF Ahead
<1>2. IsFiniteSet(Ahead(S, x)) /\ IsFiniteSet(Ahead(S, y))
  BY RankIsSmall
<1>3. Cardinality(Ahead(S, x) \cup {x}) = Rank(S, x) + 1
  BY <1>1, <1>2, FS_AddElement DEF Rank
<1>4. Cardinality(Ahead(S, x) \cup {x}) <= Rank(S, y)
  BY <1>1, <1>2, FS_Subset DEF Rank
<1>5. Rank(S, x) \in Nat /\ Rank(S, y) \in Nat
  BY RankIsSmall
<1> QED
  BY <1>3, <1>4, <1>5

\* Hence ranks tell candidates apart, ...
LEMMA RankIdentifies ==
  ASSUME NEW S, IsPool(S), NEW x \in S, NEW y \in S, Rank(S, x) = Rank(S, y)
  PROVE  x = y
<1>1. Rank(S, x) \in Nat /\ Rank(S, y) \in Nat
  BY RankIsSmall
<1> QED
  BY <1>1, OrderIsTotal, RankFollowsOrder

\* ... and every rank is taken.
LEMMA RanksAreTaken ==
  ASSUME NEW S, IsPool(S), NEW n \in 1 .. Cardinality(S)
  PROVE  \E x \in S : Rank(S, x) = n - 1
<1> DEFINE rank == [x \in S |-> Rank(S, x)]
           Ranks == 0 .. (Cardinality(S) - 1)
<1>1. IsFiniteSet(S) /\ Cardinality(S) \in Nat
  BY FS_CardinalityType DEF IsPool
<1>2. rank \in Injection(S, Ranks)
  BY RankIsSmall, RankIdentifies DEF Injection, IsInjective
<1>3. IsFiniteSet(Ranks) /\ Cardinality(Ranks) = Cardinality(S)
  <2>1. ASSUME NEW k \in Nat PROVE IsFiniteSet(0 .. (k - 1)) /\ Cardinality(0 .. (k - 1)) = k
    <3>1. /\ IsFiniteSet(0 .. (k - 1))
          /\ Cardinality(0 .. (k - 1)) = IF 0 > k - 1 THEN 0 ELSE (k - 1) - 0 + 1
      BY FS_Interval
    <3> QED
      BY <3>1
  <2> QED
    BY <1>1, <2>1
<1>4. rank \in Surjection(S, Ranks)
  BY <1>2, <1>3, FS_Injection
<1>5. n - 1 \in Ranks
  BY <1>1
<1> QED
  BY <1>4, <1>5 DEF Surjection

\* A stable sort lines up all candidates, each of them once and in their order.
LEMMA SortLinesUp ==
  ASSUME NEW S, IsPool(S)
  PROVE  LET s == SortCands(S)
             N == 1 .. Cardinality(S)
         IN  /\ Cardinality(S) \in Nat
             /\ DOMAIN s = N
             /\ \A n \in N : s[n] \in S
             /\ \A m, n \in N : m < n => Precedes(s[m], s[n])
             /\ \A x \in S : \E n \in N : s[n] = x
<1> DEFINE s == SortCands(S)
           N == 1 .. Cardinality(S)
<1>1. Cardinality(S) \in Nat
  BY FS_CardinalityType DEF IsPool
<1>2. DOMAIN s = N
  BY DEF SortCands
<1>3. ASSUME NEW n \in N PROVE s[n] \in S /\ Rank(S, s[n]) = n - 1
  <2>1. s[n] = CHOOSE x \in S : Rank(S, x) = n - 1
    BY DEF SortCands, Rank, Ahead
  <2>2. \E x \in S : Rank(S, x) = n - 1
    BY RanksAreTaken
  <2> HIDE DEF s
  <2> QED
    BY <2>1, <2>2
<1> HIDE DEF s
<1>4. ASSUME NEW m \in N, NEW n \in N, m < n PROVE Precedes(s[m], s[n])
  <2>1. /\ s[m] \in S /\ s[n] \in S
        /\ Rank(S, s[m]) = m - 1 /\ Rank(S, s[n]) = n - 1
    BY <1>3
  <2>2. ~(Rank(S, s[n]) < Rank(S, s[m])) /\ Rank(S, s[m]) # Rank(S, s[n])
    BY <1>1, <1>4, <2>1
  <2> QED
    BY <2>1, <2>2, OrderIsTotal, RankFollowsOrder
<1>5. ASSUME NEW x \in S PROVE \E n \in N : s[n] = x
  <2>1. Rank(S, x) + 1 \in N /\ Rank(S, x) \in Nat
    BY <1>1, RankIsSmall
  <2>2. s[Rank(S, x) + 1] \in S /\ Rank(S, s[Rank(S, x) + 1]) = Rank(S, x)
    BY <1>3, <2>1
  <2> QED
    BY <2>1, <2>2, RankIdentifies
<1> QED
  BY <1>1, <1>2, <1>3, <1>4, <1>5 DEF s

\* What is found at different places of finitely many can be lined up.
LEMMA PlacesMakePool ==
  ASSUME NEW C, NEW D, IsFiniteSet(D), D \subseteq Int,
         \A x \in C : x.score \in Int /\ x.place \in D,
         \A x, y \in C : x.place = y.place => x = y
  PROVE  IsPool(C)
<1> DEFINE place == [x \in C |-> x.place]
<1>1. place \in Injection(C, D)
  BY DEF Injection, IsInjective
<1>2. IsFiniteSet(C)
  BY <1>1, FS_Injection
<1> QED
  BY <1>2 DEF IsPool

\* The score for a role is a number.
LEMMA ScoreIsInt ==
  ASSUME NEW c, IsConfig(c), NEW key \in DOMAIN c.models, NEW role
  PROVE  Score(c.models[key], role) \in Int
  BY DEF IsConfig, Score

\* A score for the role itself comes first.
LEMMA OwnScore ==
  ASSUME NEW model, NEW role \in DOMAIN model.scores
  PROVE  Score(model, role) = model.scores[role]
  BY DEF Score

\* The fields of a candidate.
LEMMA CandidateFields ==
  ASSUME NEW s, NEW k, NEW i
  PROVE  /\ Candidate(s, k, i).score = s
         /\ Candidate(s, k, i).key = k
         /\ Candidate(s, k, i).place = i
  BY DEF Candidate

\* The places of an explicit panel that count, and the models that count at all.
Listed(c, panel, role) == {i \in DOMAIN panel.models :
    /\ Known(c, panel.models[i])
    /\ IsEnabled(c, c.models[panel.models[i]].provider)
    /\ role \in DOMAIN c.models[panel.models[i]].scores}

Able(c, panel, role) == {key \in DOMAIN c.models :
    /\ MayFill(c.models[key], role)
    /\ IsEnabled(c, c.models[key].provider)
    /\ panel.providers = {} \/ c.models[key].provider \in panel.providers}

Proven(c, panel, role) == {key \in Able(c, panel, role) : Score(c.models[key], role) # 0}

\* Found are the candidates at these places, in a list with these keys.
FoundAt(C, c, role, places, keys) ==
    /\ \A x \in C : /\ x.place \in places
                    /\ x.key = keys[x.place]
                    /\ x.key \in DOMAIN c.models
                    /\ x.score = Score(c.models[x.key], role)
    /\ \A x, y \in C : x.place = y.place => x = y
    /\ \A i \in places : \E x \in C : x.place = i

\* An explicit panel gives the candidates it lists.
LEMMA ExplicitFound ==
  ASSUME NEW c, NEW panel, NEW role
  PROVE  FoundAt(ExplicitCandidates(c, role, panel), c, role, Listed(c, panel, role), panel.models)
<1> DEFINE C      == ExplicitCandidates(c, role, panel)
           At(i)  == Candidate(c.models[panel.models[i]].scores[role], panel.models[i], i)
           places == Listed(c, panel, role)
<1>1. C = {At(i) : i \in places}
  BY DEF ExplicitCandidates, Listed
<1>2. \A i \in places : /\ At(i).place = i
                        /\ At(i).key = panel.models[i]
                        /\ At(i).key \in DOMAIN c.models
                        /\ At(i).score = Score(c.models[At(i).key], role)
  BY CandidateFields, OwnScore DEF Listed, Known
<1> HIDE DEF C, At, places
<1>3. FoundAt(C, c, role, places, panel.models)
  BY <1>1, <1>2 DEF FoundAt
<1> QED
  BY <1>3 DEF C, places

\* The registry gives those that are able, or of them those that have a score.
LEMMA RoleFound ==
  ASSUME NEW c, NEW panel, NEW role, NEW waive \in BOOLEAN
  PROVE  FoundAt(RoleCandidates(c, role, panel.providers, waive), c, role,
                 IF waive THEN Able(c, panel, role) ELSE Proven(c, panel, role),
                 [k \in DOMAIN c.models |-> k])
<1> DEFINE C      == RoleCandidates(c, role, panel.providers, waive)
           At(k)  == Candidate(Score(c.models[k], role), k, k)
           places == IF waive THEN Able(c, panel, role) ELSE Proven(c, panel, role)
           self   == [k \in DOMAIN c.models |-> k]
<1>1. C = {At(k) : k \in places}
  BY DEF RoleCandidates, Able, Proven
<1>2. \A i \in places : /\ At(i).place = i
                        /\ At(i).key = self[i]
                        /\ At(i).key \in DOMAIN c.models
                        /\ At(i).score = Score(c.models[At(i).key], role)
  BY CandidateFields DEF Able, Proven
<1> HIDE DEF C, At, places, self
<1>3. FoundAt(C, c, role, places, self)
  BY <1>1, <1>2 DEF FoundAt
<1> QED
  BY <1>3 DEF C, places, self

\* So the candidates for a panel are those of its pool.
LEMMA CandidatesFound ==
  ASSUME NEW c, Pipeline \in DOMAIN c.pipelines, NEW role
  PROVE  LET pool == Pool(c, role)
         IN  FoundAt(Candidates(c, c.pipelines[Pipeline].panel[role], role), c, role,
                     pool.of, pool.key)
<1> DEFINE panel    == c.pipelines[Pipeline].panel[role]
           explicit == ExplicitCandidates(c, role, panel)
           scored   == RoleCandidates(c, role, panel.providers, FALSE)
           anybody  == RoleCandidates(c, role, panel.providers, TRUE)
           listed   == Listed(c, panel, role)
           proven   == Proven(c, panel, role)
           able     == Able(c, panel, role)
           self     == [k \in DOMAIN c.models |-> k]
           pool     == Pool(c, role)
<1>1. /\ FoundAt(explicit, c, role, listed, panel.models)
      /\ FoundAt(scored, c, role, proven, self)
      /\ FoundAt(anybody, c, role, able, self)
  BY ExplicitFound, RoleFound
<1>2. (explicit = {} <=> listed = {}) /\ (scored = {} <=> proven = {})
  BY <1>1 DEF FoundAt
<1>3. /\ listed # {} => pool.of = listed /\ pool.key = panel.models
      /\ listed = {} /\ proven # {} => pool.of = proven /\ pool.key = self
      /\ listed = {} /\ proven = {} => pool.of = able /\ pool.key = self
  BY DEF Pool, Listed, Proven, Able
<1> HIDE DEF listed, proven, able, self, explicit, scored, anybody, pool
<1>4. Candidates(c, panel, role) =
        IF listed # {} THEN explicit ELSE IF proven # {} THEN scored ELSE anybody
  BY <1>2 DEF Candidates, explicit, scored, anybody
<1> QED
  BY <1>1, <1>3, <1>4 DEF pool

\* All candidates for a panel of a configuration can be lined up.
LEMMA CandidatesArePool ==
  ASSUME NEW c, IsConfig(c), Pipeline \in DOMAIN c.pipelines, NEW role \in {"tl", "reviewer"}
  PROVE  IsPool(Candidates(c, c.pipelines[Pipeline].panel[role], role))
<1> DEFINE panel == c.pipelines[Pipeline].panel[role]
           C     == Candidates(c, panel, role)
           pool  == Pool(c, role)
<1>1. /\ IsFiniteSet(DOMAIN c.models) /\ DOMAIN c.models \subseteq Int
      /\ IsFiniteSet(DOMAIN panel.models) /\ DOMAIN panel.models \subseteq Int
  BY DEF IsConfig
<1>2. pool.of \subseteq DOMAIN panel.models \/ pool.of \subseteq DOMAIN c.models
  BY DEF Pool
<1>3. IsFiniteSet(pool.of) /\ pool.of \subseteq Int
  BY <1>1, <1>2, FS_Subset
<1>4. FoundAt(C, c, role, pool.of, pool.key)
  BY CandidatesFound
<1> HIDE DEF C, pool
<1>5. ASSUME NEW x \in C PROVE x.score \in Int /\ x.place \in pool.of
  <2>1. x.key \in DOMAIN c.models /\ x.score = Score(c.models[x.key], role)
    BY <1>4 DEF FoundAt
  <2>2. x.place \in pool.of
    BY <1>4 DEF FoundAt
  <2>3. Score(c.models[x.key], role) \in Int
    BY <2>1, ScoreIsInt
  <2> QED
    BY <2>1, <2>2, <2>3
<1>6. \A x, y \in C : x.place = y.place => x = y
  BY <1>4 DEF FoundAt
<1> QED
  BY <1>3, <1>5, <1>6, PlacesMakePool DEF C

\* A stable sort is a sequence.
LEMMA SortedLen ==
  ASSUME NEW S, IsPool(S)
  PROVE  Len(SortCands(S)) = Cardinality(S)
<1>1. Cardinality(S) \in Nat /\ DOMAIN SortCands(S) = 1 .. Cardinality(S)
      /\ \A n \in 1 .. Cardinality(S) : SortCands(S)[n] \in S
  BY SortLinesUp
<1>2. SortCands(S) \in [1 .. Cardinality(S) -> S]
  BY <1>1 DEF SortCands
<1>3. SortCands(S) \in Seq(S)
  BY <1>1, <1>2
<1> QED
  BY <1>1, <1>3

\* What Take leaves: the first of them, as many as there are seats.
LEMMA TakeFirst ==
  ASSUME NEW s, Len(s) \in Nat, NEW seats \in Nat
  PROVE  LET k == IF seats < Len(s) THEN seats ELSE Len(s)
         IN  /\ k \in Nat
             /\ Len(Take(s, seats)) = k
             /\ DOMAIN Take(s, seats) = 1 .. k
             /\ \A n \in 1 .. k : Take(s, seats)[n] = s[n].key
  BY DEF Take

\* A panel is the best one of its pool, for any number of seats.
LEMMA PanelIsBest ==
  ASSUME NEW c, IsConfig(c), Pipeline \in DOMAIN c.pipelines, NEW role \in {"tl", "reviewer"},
         NEW n, Seats(c.pipelines[Pipeline].panel[role], n) \in Nat
  PROVE  IsBestPanel(ResolveRoleModels(c, Pipeline, role, n), c, role,
                     Seats(c.pipelines[Pipeline].panel[role], n))
<1> DEFINE seats == Seats(c.pipelines[Pipeline].panel[role], n)
           C     == Candidates(c, c.pipelines[Pipeline].panel[role], role)
           pool  == Pool(c, role)
           s     == SortCands(C)
           N     == 1 .. Cardinality(C)
           k     == IF seats < Len(s) THEN seats ELSE Len(s)
           panel == ResolveRoleModels(c, Pipeline, role, n)
           place == [m \in 1 .. k |-> s[m].place]
           score(i)    == Score(c.models[pool.key[i]], role)
           Before(i, j) == score(i) > score(j) \/ (score(i) = score(j) /\ i < j)
<1>1. IsPool(C) /\ FoundAt(C, c, role, pool.of, pool.key)
  BY CandidatesArePool, CandidatesFound
<1>2. panel = Take(s, seats)
  BY DEF ResolveRoleModels
<1> HIDE DEF C, pool, seats, panel
<1>3. /\ Len(s) = Cardinality(C) /\ Cardinality(C) \in Nat
      /\ \A m \in N : s[m] \in C
      /\ \A i, j \in N : i < j => Precedes(s[i], s[j])
      /\ \A x \in C : \E m \in N : s[m] = x
  BY <1>1, SortLinesUp, SortedLen
<1>4. seats \in Nat
  BY DEF seats
<1> HIDE DEF s
<1>5. /\ k \in Nat /\ 1 .. k \subseteq N
      /\ Len(panel) = k /\ DOMAIN panel = 1 .. k
      /\ \A m \in 1 .. k : panel[m] = s[m].key
  BY <1>2, <1>3, <1>4, TakeFirst
<1>6. \A x \in C : x.place \in pool.of /\ x.key = pool.key[x.place] /\ x.score = score(x.place)
  BY <1>1 DEF FoundAt
<1>7. \A x, y \in C : Precedes(x, y) => Before(x.place, y.place)
  BY <1>6 DEF Precedes
<1>8. \A i \in pool.of : \E m \in N : s[m].place = i
  BY <1>1, <1>3 DEF FoundAt
<1> HIDE DEF score, Before
<1>9. place \in [DOMAIN panel -> pool.of]
  BY <1>3, <1>5, <1>6
<1>10. \A m \in DOMAIN panel : panel[m] = pool.key[place[m]]
  BY <1>3, <1>5, <1>6
<1>11. \A i, j \in DOMAIN panel : i < j => Before(place[i], place[j])
  BY <1>3, <1>5, <1>7
<1>12. ASSUME NEW i \in pool.of
       PROVE  \/ \E m \in DOMAIN panel : place[m] = i
              \/ Len(panel) = seats /\ \A m \in DOMAIN panel : Before(place[m], i)
  <2>1. PICK m \in N : s[m].place = i
    BY <1>8
  <2>2. CASE m \in 1 .. k
    BY <2>1, <2>2, <1>5
  <2>3. CASE m \notin 1 .. k
    <3>1. k < m /\ k = seats
      BY <2>3, <1>3, <1>4
    <3>2. \A j \in 1 .. k : j < m /\ j \in N
      BY <3>1, <1>5
    <3> QED
      BY <2>1, <3>1, <3>2, <1>3, <1>5, <1>7
  <2> QED
    BY <2>2, <2>3
<1>13. Len(panel) <= seats
  BY <1>4, <1>5, <1>3
<1> QED
  BY <1>9, <1>10, <1>11, <1>12, <1>13 DEF IsBestPanel, Before, score, pool, seats, panel

\* The first of a panel is the one who is chosen alone.
LEMMA FirstIsAlone ==
  ASSUME NEW c, IsConfig(c), Pipeline \in DOMAIN c.pipelines, NEW role \in {"tl", "reviewer"},
         Seats(c.pipelines[Pipeline].panel[role], 0) \in Nat,
         ResolveRoleModels(c, Pipeline, role, 0) # <<>>
  PROVE  ResolveRoleModels(c, Pipeline, role, 1) = <<ResolveRoleModels(c, Pipeline, role, 0)[1]>>
<1> DEFINE seats == Seats(c.pipelines[Pipeline].panel[role], 0)
           s     == SortCands(Candidates(c, c.pipelines[Pipeline].panel[role], role))
           all   == ResolveRoleModels(c, Pipeline, role, 0)
           alone == ResolveRoleModels(c, Pipeline, role, 1)
<1>1. Len(s) \in Nat
  BY CandidatesArePool, SortedLen, SortLinesUp
<1>2. all = Take(s, seats) /\ alone = Take(s, 1)
  BY DEF ResolveRoleModels, Seats
<1> HIDE DEF s, all, alone
<1>3. seats > 0 /\ Len(s) > 0
  <2>1. all # <<>> /\ seats \in Nat
    BY DEF all
  <2>2. ASSUME seats = 0 \/ Len(s) = 0 PROVE FALSE
    <3>1. (IF seats < Len(s) THEN seats ELSE Len(s)) = 0
      BY <1>1, <2>1, <2>2
    <3>2. all = [m \in 1 .. 0 |-> s[m].key]
      BY <1>2, <3>1 DEF Take
    <3> QED
      BY <2>1, <3>2
  <2> QED
    BY <1>1, <2>1, <2>2
<1>4. all[1] = s[1].key
  BY <1>1, <1>2, <1>3, TakeFirst
<1>5. alone = [m \in 1 .. 1 |-> s[m].key]
  BY <1>1, <1>2, <1>3 DEF Take
<1>6. alone = <<s[1].key>>
  BY <1>5
<1> QED
  BY <1>4, <1>6 DEF all, alone

-----------------------------------------------------------------------------
\* What is held, taken and worked with has been decoded, and a panel was found
\* with the configuration of its job.
PanelInv ==
    /\ held \in DOMAIN Contents \cup {Nil}
    /\ handler \in DOMAIN Contents \cup {NoCall}
    /\ pc \in Active => cfg \in DOMAIN Contents
    /\ reviewers # <<>> =>
          /\ cfg \in DOMAIN Contents
          /\ Pipeline \in DOMAIN Contents[cfg].pipelines
          /\ Seats(Contents[cfg].pipelines[Pipeline].panel["reviewer"], 0) >= 0
          /\ reviewers = Panel(cfg)

\* Seats are counted, though perhaps below zero.
LEMMA SeatsAreInt ==
  ASSUME NEW c, IsConfig(c), Pipeline \in DOMAIN c.pipelines, NEW role \in {"tl", "reviewer"}
  PROVE  Seats(c.pipelines[Pipeline].panel[role], 0) \in Int
<1>1. c.pipelines[Pipeline].panel[role].n \subseteq Int
  BY DEF IsConfig
<1> QED
  BY <1>1 DEF Seats

\* Of every registry, panels are the best ones and nobody disabled is chosen.
LEMMA EveryCatalogBest == CatalogBest
<1> SUFFICES ASSUME NEW c \in Catalog
             PROVE  /\ \A role \in {"tl", "reviewer"} :
                          LET seats == Seats(c.pipelines[Pipeline].panel[role], 0)
                              alone == ResolveRoleModels(c, Pipeline, role, 1)
                              all   == ResolveRoleModels(c, Pipeline, role, 0)
                          IN  seats >= 0 =>
                                  /\ IsBestPanel(all, c, role, seats)
                                  /\ all # <<>> => alone = <<all[1]>>
                    /\ LET judges == ResolveJudges(c, Pipeline)
                           block  == c.pipelines[Pipeline].coder_fusion
                           chosen == {c.pipelines[Pipeline].judges[i] : i \in judges}
                                     \cup {block[seat] : seat \in CoderFusionBlock(c, Pipeline)}
                       IN  \A key \in chosen : IsEnabled(c, c.models[key].provider)
  BY DEF CatalogBest
<1>1. IsConfig(c) /\ Pipeline \in DOMAIN c.pipelines
  BY ReviewAssumption
<1>2. ASSUME NEW role \in {"tl", "reviewer"},
             Seats(c.pipelines[Pipeline].panel[role], 0) >= 0
      PROVE  /\ IsBestPanel(ResolveRoleModels(c, Pipeline, role, 0), c, role,
                            Seats(c.pipelines[Pipeline].panel[role], 0))
             /\ ResolveRoleModels(c, Pipeline, role, 0) # <<>> =>
                   ResolveRoleModels(c, Pipeline, role, 1)
                   = <<ResolveRoleModels(c, Pipeline, role, 0)[1]>>
  <2>1. Seats(c.pipelines[Pipeline].panel[role], 0) \in Nat
    BY <1>1, <1>2, SeatsAreInt
  <2> QED
    BY <1>1, <2>1, PanelIsBest, FirstIsAlone
<1>3. \A i \in ResolveJudges(c, Pipeline) :
         IsEnabled(c, c.models[c.pipelines[Pipeline].judges[i]].provider)
  BY <1>1 DEF ResolveJudges
<1>4. \A seat \in CoderFusionBlock(c, Pipeline) :
         IsEnabled(c, c.models[c.pipelines[Pipeline].coder_fusion[seat]].provider)
  BY <1>1 DEF CoderFusionBlock, ResolveNamed
<1> QED
  BY <1>2, <1>3, <1>4

\* PanelInv is inductive, given what reloads are about to store.
LEMMA PanelStep ==
  ASSUME IInv, PanelInv, [Next]_vars
  PROVE  PanelInv'
<1>1. CASE \E r \in Reloaders : ReloadStore(r)
  BY <1>1 DEF ReloadStore, IInv, ReloadInv, PanelInv, job
<1>2. CASE LfReview
  BY <1>2 DEF LfReview, PanelInv, registry, job
<1>3. CASE SubmitNew
  BY <1>3 DEF SubmitNew, PanelInv, registry
<1>4. CASE Start
  <2>1. cfg \in DOMAIN Contents /\ UNCHANGED <<held, handler, cfg>>
    BY <1>4 DEF Start, PanelInv, Active, registry, agent
  <2>2. /\ Pipeline \in DOMAIN Contents[cfg].pipelines
        /\ ~Panics(Contents[cfg], Pipeline, "reviewer", 0)
        /\ reviewers' = Panel(cfg)
    BY <1>4 DEF Start
  <2>3. Seats(Contents[cfg].pipelines[Pipeline].panel["reviewer"], 0) \in Int
    BY <2>1, <2>2, SeatsAreInt, ReviewAssumption
  <2>4. Seats(Contents[cfg].pipelines[Pipeline].panel["reviewer"], 0) >= 0
    BY <2>2, <2>3 DEF Panics
  <2> QED
    BY <2>1, <2>2, <2>4 DEF PanelInv, Panel
<1>5. CASE Panic
  BY <1>5 DEF Panic, PanelInv, Active
<1>6. CASE Restart
  BY <1>6 DEF Restart, IInv, ReloadInv, PanelInv, Active, agent
<1>7. CASE UNCHANGED <<held, cfg, reviewers>> /\ handler' \in {handler, NoCall}
           /\ (pc' \in Active => pc \in Active)
  BY <1>7 DEF PanelInv, Panel
<1>8. CASE Edit \/ (\E r \in Reloaders : ReloadRead(r)) \/ ReloadFails \/ BriefRefused
           \/ SubmitActive \/ KillJob \/ UNCHANGED vars
  BY <1>7, <1>8 DEF Edit, ReloadRead, ReloadFails, BriefRefused, SubmitActive, KillJob,
     vars, registry, agent, job
<1>9. CASE Dequeue \/ Refuse \/ (\E ok \in BOOLEAN : Ask(ok)) \/ Report \/ NoReport \/ Mark
  BY <1>7, <1>9 DEF Dequeue, Refuse, Ask, Report, NoReport, Mark, Return, Active, registry, agent
<1> QED
  BY <1>1, <1>2, <1>3, <1>4, <1>5, <1>6, <1>8, <1>9 DEF Next

\* A panel is the best one, of every registry and of every job: the best come
\* first, in a fixed order, and nobody is left out who stands before one of them.
THEOREM PanelsAreBest == Spec => []SelectionBest
<1>1. Init => PanelInv
  BY ReviewAssumption DEF Init, PanelInv, Active
<1>2. IInv /\ PanelInv /\ [Next]_vars => PanelInv'
  BY PanelStep
<1>3. PanelInv => SelectionBest
  <2> SUFFICES ASSUME PanelInv PROVE SelectionBest
    OBVIOUS
  <2>1. ASSUME reviewers # <<>>
        PROVE  IsBestPanel(reviewers, Contents[cfg], "reviewer",
                  Seats(Contents[cfg].pipelines[Pipeline].panel["reviewer"], 0))
    <3>1. IsConfig(Contents[cfg]) /\ Pipeline \in DOMAIN Contents[cfg].pipelines
      BY <2>1, ReviewAssumption DEF PanelInv
    <3>2. Seats(Contents[cfg].pipelines[Pipeline].panel["reviewer"], 0) \in Nat
      BY <2>1, <3>1, SeatsAreInt DEF PanelInv
    <3>3. reviewers = ResolveRoleModels(Contents[cfg], Pipeline, "reviewer", 0)
      BY <2>1 DEF PanelInv, Panel
    <3> QED
      BY <3>1, <3>2, <3>3, PanelIsBest
  <2> QED
    BY <2>1, EveryCatalogBest DEF SelectionBest
<1> QED
  BY <1>1, <1>2, <1>3, Inductive, PTL DEF Spec
=============================================================================
