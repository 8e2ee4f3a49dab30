----------------------------- MODULE ReviewTask -----------------------------
(***************************************************************************)
(* lf_review from the submit to the report (internal/mcp/tools_stages.go,  *)
(* internal/engine/review), over a registry that is edited and reloaded    *)
(* meanwhile (providers.Holder, internal/mcp/tools_reload.go).             *)
(*                                                                         *)
(* The contents that providers.yaml takes are named; they decode to the    *)
(* configurations of Registry, or the file is broken and does not decode.  *)
(* One job key is observed, and one submitting handler at a time.          *)
(***************************************************************************)
EXTENDS BudgetedCaller, Registry

CONSTANTS Contents,       \* [names of contents -> configuration]
          Nil,            \* the name of none of them: the nil *Config
          Reloaders,      \* handlers of lf_reload that may run at once
          Catalog         \* configurations to compare the selection on

Pipeline == "default"

ASSUME ReviewAssumption ==
    /\ Nil \notin DOMAIN Contents
    /\ \A content \in DOMAIN Contents : IsConfig(Contents[content])
    /\ \A c \in Catalog : IsConfig(c) /\ Pipeline \in DOMAIN c.pipelines

VARIABLES file,           \* what providers.yaml says ...
          broken,         \* ... but for a typo: does it fail to decode?
          held,           \* Holder.cfg
          reload,         \* [Reloaders -> what lf_reload is about to store]
          up,             \* is the server process alive?
          handler,        \* the configuration lf_review has taken, if called
          pc,             \* where the job is
          cfg,            \* the configuration in its closure
          reviewers,      \* its panel
          turn, answers,  \* whose turn it is, and the turns that were answered
          review_md,      \* has this job written its report?
          err,            \* what the job wrapper returns to the runner
          loaded,         \* history: has this process had a configuration?
          current,        \* history: a reload begun after the last edit has ended well
          during,         \* history: configurations held during the call of lf_review
          inForce         \* history: those held while the job was being submitted

registry == <<file, broken, held, reload, up, loaded, current>>
agent    == <<handler, during>>
job      == <<pc, cfg, reviewers, turn, answers, review_md, err, inForce>>
vars     == <<caller, registry, agent, job>>

NotReading == [content |-> Nil, late |-> FALSE]

NoCall == "no call"

Active == {"queued", "start", "ask", "report", "mark"}

Panel(content) == ResolveRoleModels(Contents[content], Pipeline, "reviewer", 0)

Return(failed) ==
    /\ pc' = "done"
    /\ err' = StageErr(failed)

-----------------------------------------------------------------------------
(* Mutations: what plausible bugs would make of the definitions below.        *)

\* A reload that fails leaves no configuration behind.
ReloadFailsHard ==
    /\ up
    /\ Reloaders # {}
    /\ broken
    /\ held' = Nil
    /\ UNCHANGED <<caller, file, broken, reload, up, loaded, current, agent, job>>

\* The pointer is not swapped while a review is at work.
ReloadStoreUnlessBusy(r) ==
    /\ reload[r] # NotReading
    /\ held' = IF pc \in Active THEN held ELSE reload[r].content
    /\ loaded' = (held' # Nil)
    /\ current' = (current \/ ~reload[r].late)
    /\ during' = IF handler = NoCall THEN during ELSE during \cup {held'}
    /\ reload' = [reload EXCEPT ![r] = NotReading]
    /\ UNCHANGED <<caller, file, broken, up, handler, job>>

\* The job asks the holder, not its closure.
StartFromHolder ==
    /\ pc = "start"
    /\ held # Nil
    /\ Pipeline \in DOMAIN Contents[held].pipelines
    /\ ~Panics(Contents[held], Pipeline, "reviewer", 0)
    /\ reviewers' = Panel(held)
    /\ IF reviewers' = <<>> THEN Return(TRUE) ELSE pc' = "ask" /\ UNCHANGED err
    /\ UNCHANGED <<caller, registry, agent, cfg, turn, answers, review_md, inForce>>

\* A mark that cannot be written fails the review.
MarkStrictly ==
    /\ pc = "mark"
    /\ \E failed \in BOOLEAN : Return(failed)
    /\ UNCHANGED <<caller, registry, agent, cfg, reviewers, turn, answers, review_md, inForce>>

-----------------------------------------------------------------------------
Init ==
    /\ CallerInit
    /\ file \in DOMAIN Contents
    /\ broken \in BOOLEAN
    /\ held = IF broken THEN Nil ELSE file
    /\ reload = [r \in Reloaders |-> NotReading]
    /\ up = TRUE
    /\ handler = NoCall
    /\ pc = "idle"
    /\ cfg = Nil
    /\ reviewers = <<>>
    /\ turn = 1
    /\ answers = {}
    /\ review_md = FALSE
    /\ err = "none"
    /\ loaded = ~broken
    /\ current = FALSE
    /\ during = {}
    /\ inForce = {}

\* Somebody edits providers.yaml, or makes a typo in it, or mends it.
Edit ==
    /\ \/ file' \in DOMAIN Contents /\ broken' = FALSE
       \/ broken' = TRUE /\ UNCHANGED file
    /\ <<file', broken'>> # <<file, broken>>
    /\ current' = FALSE
    /\ reload' = [r \in Reloaders |->
          IF reload[r] = NotReading THEN NotReading ELSE [reload[r] EXCEPT !.late = TRUE]]
    /\ UNCHANGED <<caller, held, up, loaded, agent, job>>

\* Holder.Reload reads and decodes the file ...
ReloadRead(r) ==
    /\ up
    /\ reload[r] = NotReading
    /\ ~broken
    /\ reload' = [reload EXCEPT ![r] = [content |-> file, late |-> FALSE]]
    /\ UNCHANGED <<caller, file, broken, held, up, loaded, current, agent, job>>

\* ... and keeps what it has if that fails ...
ReloadFails ==
    /\ up
    /\ Reloaders # {}
    /\ broken
    /\ UNCHANGED vars

\* ... or swaps the pointer.
ReloadStore(r) ==
    /\ reload[r] # NotReading
    /\ held' = reload[r].content
    /\ loaded' = TRUE
    /\ current' = (current \/ ~reload[r].late)
    /\ during' = IF handler = NoCall THEN during ELSE during \cup {held'}
    /\ reload' = [reload EXCEPT ![r] = NotReading]
    /\ UNCHANGED <<caller, file, broken, up, handler, job>>

\* lf_review takes the configuration; it refuses if there is none, or if the
\* brief that was passed cannot be stored.
LfReview ==
    /\ up
    /\ handler = NoCall
    /\ held # Nil
    /\ handler' = held
    /\ during' = {held}
    /\ UNCHANGED <<caller, registry, job>>

BriefRefused ==
    /\ handler # NoCall
    /\ handler' = NoCall
    /\ during' = {}
    /\ UNCHANGED <<caller, registry, job>>

\* Runner.Submit: a new attempt with the configuration that was taken ...
SubmitNew ==
    /\ handler # NoCall
    /\ pc \notin Active
    /\ pc' = "queued"
    /\ cfg' = handler
    /\ inForce' = during
    /\ reviewers' = <<>> /\ turn' = 1 /\ answers' = {}
    /\ review_md' = FALSE
    /\ err' = "none"
    /\ modelCalls' = 0 /\ sent' = 0 /\ dead' = FALSE /\ budgetErr' = FALSE
    /\ handler' = NoCall
    /\ during' = {}
    /\ UNCHANGED registry

\* ... or the job that is active, with its older configuration, or a conflict.
SubmitActive ==
    /\ handler # NoCall
    /\ pc \in Active
    /\ handler' = NoCall
    /\ during' = {}
    /\ UNCHANGED <<caller, registry, job>>

\* A worker takes the job, unless it is cancelled while queued.
Dequeue ==
    /\ pc = "queued"
    /\ pc' \in {"start", "idle"}
    /\ UNCHANGED <<caller, registry, agent, cfg, reviewers, turn, answers, review_md, err, inForce>>

\* Task: no brief, nothing to review, or no such pipeline.
Refuse ==
    /\ pc = "start"
    /\ Return(TRUE)
    /\ UNCHANGED <<caller, registry, agent, cfg, reviewers, turn, answers, review_md, inForce>>

\* The panel is resolved.
Start ==
    /\ pc = "start"
    /\ Pipeline \in DOMAIN Contents[cfg].pipelines
    /\ ~Panics(Contents[cfg], Pipeline, "reviewer", 0)
    /\ reviewers' = Panel(cfg)
    /\ IF reviewers' = <<>> THEN Return(TRUE) ELSE pc' = "ask" /\ UNCHANGED err
    /\ UNCHANGED <<caller, registry, agent, cfg, turn, answers, review_md, inForce>>

\* A panic in the goroutine of a job is recovered by nobody: the process ends,
\* and with it every handler and every job.
Panic ==
    /\ pc = "start"
    /\ Panics(Contents[cfg], Pipeline, "reviewer", 0)
    /\ up' = FALSE
    /\ pc' = "panicked"
    /\ held' = Nil
    /\ reload' = [r \in Reloaders |-> NotReading]
    /\ loaded' = FALSE
    /\ current' = FALSE
    /\ handler' = NoCall
    /\ during' = {}
    /\ UNCHANGED <<caller, file, broken, cfg, reviewers, turn, answers, review_md, err, inForce>>

\* serve: NewHolder loads the file, if it can.
Restart ==
    /\ ~up
    /\ up' = TRUE
    /\ held' = IF broken THEN Nil ELSE file
    /\ loaded' = ~broken
    /\ pc' = "idle"
    /\ UNCHANGED <<caller, file, broken, reload, current, agent,
                   cfg, reviewers, turn, answers, review_md, err, inForce>>

\* Each reviewer is asked once, in the order of the panel, and may fail.
Ask(ok) ==
    /\ pc = "ask"
    /\ CallModel(ok)
    /\ answers' = IF ok THEN answers \cup {turn} ELSE answers
    /\ turn' = turn + 1
    /\ pc' = IF turn = Len(reviewers) THEN "report" ELSE "ask"
    /\ UNCHANGED <<registry, agent, cfg, reviewers, review_md, err, inForce>>

\* review.md holds what those say who have answered.
Report ==
    /\ pc = "report"
    /\ answers # {}
    /\ review_md' = TRUE
    /\ pc' = "mark"
    /\ UNCHANGED <<caller, registry, agent, cfg, reviewers, turn, answers, err, inForce>>

\* All reviewer calls have failed, or review.md cannot be written.
NoReport ==
    /\ pc = "report"
    /\ Return(TRUE)
    /\ UNCHANGED <<caller, registry, agent, cfg, reviewers, turn, answers, review_md, inForce>>

\* markReviewed (JudgeLedger) only logs its failure.
Mark ==
    /\ pc = "mark"
    /\ Return(FALSE)
    /\ UNCHANGED <<caller, registry, agent, cfg, reviewers, turn, answers, review_md, inForce>>

KillJob == pc \in Active \ {"queued"} /\ Kill /\ UNCHANGED <<registry, agent, job>>

Next ==
    \/ Edit
    \/ \E r \in Reloaders : ReloadRead(r) \/ ReloadStore(r)
    \/ ReloadFails
    \/ LfReview
    \/ BriefRefused
    \/ SubmitNew
    \/ SubmitActive
    \/ Dequeue
    \/ Refuse
    \/ Start
    \/ Panic
    \/ Restart
    \/ \E ok \in BOOLEAN : Ask(ok)
    \/ Report
    \/ NoReport
    \/ Mark
    \/ KillJob

Spec == Init /\ [][Next]_vars

-----------------------------------------------------------------------------
(* What a panel should be.                                                    *)

\* Who is considered for the panel: positions in the list that is gone through.
\* An explicit list counts if one of its models has a score for the role.
Pool(c, role) ==
    LET panel  == c.pipelines[Pipeline].panel[role]
        on(key) == IsEnabled(c, c.models[key].provider)
        listed == {i \in DOMAIN panel.models :
                      /\ Known(c, panel.models[i])
                      /\ on(panel.models[i])
                      /\ role \in DOMAIN c.models[panel.models[i]].scores}
        able   == {key \in DOMAIN c.models :
                      /\ MayFill(c.models[key], role)
                      /\ on(key)
                      /\ panel.providers = {} \/ c.models[key].provider \in panel.providers}
        proven == {key \in able : Score(c.models[key], role) # 0}
    IN  CASE listed # {} -> [key |-> panel.models, of |-> listed]
          [] listed = {} /\ proven # {} -> [key |-> [k \in DOMAIN c.models |-> k], of |-> proven]
          [] OTHER -> [key |-> [k \in DOMAIN c.models |-> k], of |-> able]

\* The members of a panel come from places of the pool such that the best come
\* first, ties go to the earlier place, and who is left out stands behind all
\* of a panel without a free seat.
IsBestPanel(panel, c, role, seats) ==
    LET pool     == Pool(c, role)
        score(i) == Score(c.models[pool.key[i]], role)
        Ahead(i, j) == score(i) > score(j) \/ (score(i) = score(j) /\ i < j)
    IN  /\ Len(panel) <= seats
        /\ \E place \in [DOMAIN panel -> pool.of] :
              /\ \A m \in DOMAIN panel : panel[m] = pool.key[place[m]]
              /\ \A m, n \in DOMAIN panel : m < n => Ahead(place[m], place[n])
              /\ \A i \in pool.of :
                    \/ \E m \in DOMAIN panel : place[m] = i
                    \/ Len(panel) = seats /\ \A m \in DOMAIN panel : Ahead(place[m], i)

\* Whatever a registry holds, its panels are the best ones, and a disabled
\* provider is out of the judges and of the coding seats as well.
CatalogBest == \A c \in Catalog :
    /\ \A role \in {"tl", "reviewer"} :
          LET seats == Seats(c.pipelines[Pipeline].panel[role], 0)
              alone == ResolveRoleModels(c, Pipeline, role, 1)
              all   == ResolveRoleModels(c, Pipeline, role, 0)
          IN  seats >= 0 =>
                  /\ IsBestPanel(all, c, role, seats)
                  /\ all # <<>> => alone = <<all[1]>>
    /\ LET judges == ResolveJudges(c, Pipeline)
           block  == c.pipelines[Pipeline].coder_fusion
           chosen == {c.pipelines[Pipeline].judges[i] : i \in judges}
                     \cup {block[seat] : seat \in CoderFusionBlock(c, Pipeline)}
       IN  \A key \in chosen : IsEnabled(c, c.models[key].provider)

\* A panel is the best one, of every registry that is compared and of every job:
\* as many as there are seats, none of a disabled provider, nobody better left
\* out, best first, ties in a fixed order; scores are waived only when nobody has
\* one; and the first of a panel is the one who is chosen alone (decompose and
\* haft ask the same).
SelectionBest ==
    /\ CatalogBest
    /\ reviewers # <<>> =>
           LET c == Contents[cfg]
           IN  IsBestPanel(reviewers, c, "reviewer",
                           Seats(c.pipelines[Pipeline].panel["reviewer"], 0))

\* A job works with one configuration from beginning to end, and with one that
\* was in force while it was being submitted: lf_reload never reaches into it.
ConfigInForce == reviewers # <<>> => \E content \in inForce : reviewers = Panel(content)

\* A typo never takes the gate down, nor does any other edit, with one exception:
\* a configuration once loaded stays until another replaces it, and the server
\* lives unless a panel is given a negative number of seats.
GateStaysUp ==
    /\ loaded => held # Nil
    /\ ~up => Seats(Contents[cfg].pipelines[Pipeline].panel["reviewer"], 0) < 0

\* What is reported is what was reviewed: a job that the runner is told has
\* succeeded has left its own report, of one reviewer at least, and a job that
\* is told to have failed has left none.
ReportIffSuccess == pc = "done" =>
    /\ review_md <=> err = "nil"
    /\ review_md => answers # {}

\* "New submissions use the reloaded config": after a reload that began when the
\* file had its present contents has ended well, these are what is held.  True as
\* long as reloads come one after the other.
ReloadedIsUsed == current /\ ~broken => held = file
=============================================================================
