------------------------------ MODULE PlanTask ------------------------------
(***************************************************************************)
(* Planning (internal/engine/plan, feature) against the slug it fills in   *)
(* the artifact store: InitSlug, decompose, per task the haft deliberation *)
(* (and, unless no_fusion, the TL panel and the synthesizer), the four     *)
(* artifacts of the task, and at the end the manifest that lists the       *)
(* tasks.  The process can crash between any two writes, and the job can   *)
(* be planned again.                                                       *)
(*                                                                         *)
(* Plans are numbered; a file holds the number of the plan that wrote it.  *)
(***************************************************************************)
EXTENDS BudgetedCaller, FiniteSets

CONSTANTS MaxTasks,       \* tasks a plan may have; 8 in the code
          Panel,          \* TL models of the pipeline, the primary one included
          MaxPlans,       \* bound: planning jobs
          MaxFaults       \* bound: crashes and failed writes

ASSUME PlanAssumption ==
    /\ MaxTasks \in Nat \ {0}
    /\ Panel \in Nat
    /\ MaxPlans \in Nat
    /\ MaxFaults \in Nat

VARIABLES dir,            \* does the directory of the slug exist?
          manifest,       \* the plan it comes from and how many tasks it lists
          artifact,       \* [Tasks -> [Artifacts -> plan that wrote the file]]
          pc,             \* where the job is
          fusion, force,  \* arguments of the job
          plan,           \* its number
          n, i, seat,     \* tasks decomposed, task at work, panelist at work
          err,            \* what the job wrapper returns to the runner
          faults

slug   == <<dir, manifest, artifact>>
locals == <<fusion, force, plan, n>>
vars   == <<caller, slug, pc, locals, i, seat, err, faults>>

Tasks     == 1 .. MaxTasks
Artifacts == {"adr", "plan", "acceptance", "context"}

NoManifest == [plan |-> 0, tasks |-> 0]

Calling == {"decompose", "frame", "explore", "compare", "panel", "synthesize"}
Storing == {"init", "scope", "artifacts", "commit"}
PCs     == {"idle", "seed"} \cup Calling \cup Storing

Goto(from, to) == pc = from /\ pc' = to

Return(failed) ==
    /\ pc' = "idle"
    /\ err' = StageErr(failed)

-----------------------------------------------------------------------------
(* Mutations: what plausible bugs would make of the definitions below.        *)

\* force is ignored.
InitSlugAlways ==
    /\ Goto("init", "seed")
    /\ dir' = TRUE
    /\ UNCHANGED <<caller, manifest, artifact, locals, i, seat, err, faults>>

\* A forced plan keeps the manifest until it has its own.
SeedNothing ==
    /\ Goto("seed", "decompose")
    /\ n' = 1
    /\ UNCHANGED <<caller, slug, fusion, force, plan, i, seat, err, faults>>

\* The whole plan is deliberated again when a step of it fails.
HaftRetried ==
    /\ pc \in {"frame", "explore", "compare"}
    /\ CallModel(FALSE)
    /\ pc' = "frame"
    /\ UNCHANGED <<slug, locals, i, seat, err, faults>>

\* A kill is noticed between two artifacts.
ArtifactUnlessDead(f) ==
    /\ pc = "artifacts"
    /\ artifact[i][f] # plan
    /\ IF dead THEN Return(TRUE) /\ UNCHANGED artifact
       ELSE artifact' = [artifact EXCEPT ![i][f] = plan] /\ UNCHANGED <<pc, err>>
    /\ UNCHANGED <<caller, dir, manifest, locals, i, seat, faults>>

\* On a dead context a panelist is waited for.
PanelistWaits(ok) ==
    /\ pc = "panel"
    /\ IF dead THEN UNCHANGED vars
       ELSE /\ CallModel(ok)
            /\ seat' = seat + 1
            /\ pc' = IF seat = Panel THEN "synthesize" ELSE "panel"
            /\ UNCHANGED <<slug, locals, i, err, faults>>

-----------------------------------------------------------------------------
Init ==
    /\ CallerInit
    /\ dir = FALSE
    /\ manifest = NoManifest
    /\ artifact = [t \in Tasks |-> [f \in Artifacts |-> 0]]
    /\ pc = "idle"
    /\ fusion = FALSE /\ force = FALSE
    /\ plan = 0
    /\ n = 0 /\ i = 1 /\ seat = 1
    /\ err = "none"
    /\ faults = 0

\* The runner starts the next planning job of the slug; its calls are its own.
Start(withFusion, forced) ==
    /\ Goto("idle", "init")
    /\ plan < MaxPlans
    /\ plan' = plan + 1
    /\ fusion' = withFusion
    /\ force' = forced
    /\ modelCalls' = 0 /\ sent' = 0 /\ dead' = FALSE /\ budgetErr' = FALSE
    /\ err' = "none"
    /\ n' = 0 /\ i' = 1 /\ seat' = 1
    /\ UNCHANGED <<slug, faults>>

\* InitSlug: an existing slug is refused unless forced ...
InitSlug ==
    /\ pc = "init"
    /\ IF dir /\ ~force THEN Return(TRUE) /\ UNCHANGED dir
       ELSE pc' = "seed" /\ dir' = TRUE /\ UNCHANGED err
    /\ UNCHANGED <<caller, manifest, artifact, locals, i, seat, faults>>

\* ... and otherwise gets an empty manifest.  Without a TL model Decompose
\* makes do with a single task, without a call; a panel that is configured to
\* have no seats has a model for it nonetheless.
Seed ==
    /\ \/ Goto("seed", "decompose")
       \/ Goto("seed", "scope") /\ Panel = 0
    /\ manifest' = NoManifest
    /\ n' = 1
    /\ UNCHANGED <<caller, dir, artifact, fusion, force, plan, i, seat, err, faults>>

\* Decompose: at most MaxTasks tasks, or the single fallback task.
Decompose(ok, count) ==
    /\ Goto("decompose", "scope")
    /\ CallModel(ok)
    /\ n' = IF ok THEN count ELSE 1
    /\ UNCHANGED <<slug, fusion, force, plan, i, seat, err, faults>>

\* scope.md is written; TL models, and a synthesizer for fusion, must resolve.
Scope ==
    /\ pc = "scope"
    /\ Panel > 0
    /\ pc' = "frame"
    /\ UNCHANGED <<caller, slug, locals, i, seat, err, faults>>

NoModels ==
    /\ pc = "scope"
    /\ Panel > 0 => fusion
    /\ Return(TRUE)
    /\ UNCHANGED <<caller, slug, locals, i, seat, faults>>

\* RunHaft: three calls on the primary TL model, each of them fatal.
AfterHaft(step) ==
    CASE step = "frame"   -> "explore"
      [] step = "explore" -> "compare"
      [] step = "compare" -> IF fusion THEN "panel" ELSE "artifacts"

Haft ==
    /\ pc \in {"frame", "explore", "compare"}
    /\ CallModel(TRUE)
    /\ pc' = AfterHaft(pc)
    /\ seat' = 1
    /\ UNCHANGED <<slug, locals, i, err, faults>>

HaftFails ==
    /\ pc \in {"frame", "explore", "compare"}
    /\ CallModel(FALSE)
    /\ pc' = "idle"
    /\ err' = IF budgetErr' THEN "budget" ELSE "other"
    /\ UNCHANGED <<slug, locals, i, seat, faults>>

\* RunTLPanel: a panelist who fails is skipped.
Panelist(ok) ==
    /\ pc = "panel"
    /\ CallModel(ok)
    /\ seat' = seat + 1
    /\ pc' = IF seat = Panel THEN "synthesize" ELSE "panel"
    /\ UNCHANGED <<slug, locals, i, err, faults>>

\* SynthesizePlan: without the synthesizer the haft output is the brief.
Synthesize(ok) ==
    /\ Goto("synthesize", "artifacts")
    /\ CallModel(ok)
    /\ UNCHANGED <<slug, locals, i, seat, err, faults>>

\* WriteTaskArtifacts: four files, in the order of a map iteration.
Artifact(f) ==
    /\ pc = "artifacts"
    /\ artifact[i][f] # plan
    /\ artifact' = [artifact EXCEPT ![i][f] = plan]
    /\ UNCHANGED <<caller, dir, manifest, pc, locals, i, seat, err, faults>>

TaskDone ==
    /\ pc = "artifacts"
    /\ \A f \in Artifacts : artifact[i][f] = plan
    /\ i' = i + 1
    /\ pc' = IF i = n THEN "commit" ELSE "frame"
    /\ UNCHANGED <<caller, slug, locals, seat, err, faults>>

\* WriteManifest.
Commit ==
    /\ pc = "commit"
    /\ manifest' = [plan |-> plan, tasks |-> n]
    /\ Return(FALSE)
    /\ UNCHANGED <<caller, dir, artifact, locals, i, seat, faults>>

\* A write fails.
StoreFails ==
    /\ pc \in Storing \cup {"seed"}
    /\ Return(TRUE)
    /\ faults < MaxFaults
    /\ faults' = faults + 1
    /\ UNCHANGED <<caller, slug, locals, i, seat>>

KillJob == pc # "idle" /\ Kill /\ UNCHANGED <<slug, pc, locals, i, seat, err, faults>>

\* The process dies; the files stay.
Crash ==
    /\ pc # "idle"
    /\ faults < MaxFaults
    /\ faults' = faults + 1
    /\ pc' = "idle"
    /\ err' = "none"
    /\ UNCHANGED <<caller, slug, locals, i, seat>>

\* Nobody asks for another plan (the bound on plans is reached).
Idling == pc = "idle" /\ plan = MaxPlans /\ UNCHANGED vars

Step ==
    \/ InitSlug
    \/ Seed
    \/ \E ok \in BOOLEAN, count \in Tasks : Decompose(ok, count)
    \/ Scope
    \/ NoModels
    \/ Haft
    \/ HaftFails
    \/ \E ok \in BOOLEAN : Panelist(ok) \/ Synthesize(ok)
    \/ \E f \in Artifacts : Artifact(f)
    \/ TaskDone
    \/ Commit
    \/ StoreFails

Next ==
    \/ \E withFusion, forced \in BOOLEAN : Start(withFusion, forced)
    \/ Step
    \/ KillJob
    \/ Crash
    \/ Idling

Spec == Init /\ [][Next]_vars

\* A provider call ends, at the latest by its timeout; the rest is computation.
FairSpec == Spec /\ WF_vars(Step)

-----------------------------------------------------------------------------
TypeOK ==
    /\ CallerTypeOK
    /\ dir \in BOOLEAN
    /\ manifest \in [plan : 0 .. MaxPlans, tasks : 0 .. MaxTasks]
    /\ artifact \in [Tasks -> [Artifacts -> 0 .. MaxPlans]]
    /\ pc \in PCs
    /\ fusion \in BOOLEAN /\ force \in BOOLEAN
    /\ plan \in 0 .. MaxPlans
    /\ n \in 0 .. MaxTasks /\ i \in 1 .. (MaxTasks + 1) /\ seat \in 1 .. (Panel + 1)
    /\ err \in {"none", "nil", "other", "budget"}
    /\ faults \in 0 .. MaxFaults

\* What the manifest lists is planned: all four artifacts of every listed task
\* are there and come from the plan that listed it, through crashes, failed
\* writes and forced replans over older files.
ListedIsPlanned == \A t \in 1 .. manifest.tasks, f \in Artifacts :
    artifact[t][f] = manifest.plan

\* ADR-007, "partial artifacts on kill must be coherent": as long as no write
\* fails and the process lives, a job that has ended, killed or not, leaves
\* every task directory with the artifacts of one plan.
KillIsCoherent == pc = "idle" /\ faults = 0 =>
    \A t \in Tasks : \A f, g \in Artifacts : artifact[t][f] = artifact[t][g]

\* A plan without force never touches a slug that has been planned before.
NoForceNoLoss == [][manifest.tasks > 0 /\ ~force' => UNCHANGED slug]_vars

\* A plan never deliberates a task twice: whatever fails, it asks for no more
\* calls than one for the decomposition and 4 + Panel a task, which the default
\* cap of 80 covers with 8 tasks and a panel of five.
DefaultCapSuffices == modelCalls <= 1 + MaxTasks * (4 + Panel)

\* Planning ends, whatever fails in it.
PlanEnds == pc # "idle" ~> pc = "idle"
=============================================================================
