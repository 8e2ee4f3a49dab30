----------------------------- MODULE PlanProofs -----------------------------
(***************************************************************************)
(* What holds of the planning of a slug for every number of tasks, of      *)
(* panelists, of plans and of faults, and for every step cap.              *)
(***************************************************************************)
EXTENDS PlanTask, CallerProofs, FiniteSetTheorems

\* The variables that drive the job and the slug it fills in.
SlugTypeOK ==
    /\ dir \in BOOLEAN
    /\ manifest \in [plan : 0 .. MaxPlans, tasks : 0 .. MaxTasks]
    /\ artifact \in [Tasks -> [Artifacts -> 0 .. MaxPlans]]

LocalTypeOK ==
    /\ fusion \in BOOLEAN /\ force \in BOOLEAN
    /\ pc \in PCs
    /\ plan \in 0 .. MaxPlans
    /\ n \in 0 .. MaxTasks /\ i \in 1 .. (MaxTasks + 1) /\ seat \in 1 .. (Panel + 1)
    /\ err \in {"none", "nil", "other", "budget"}
    /\ faults \in 0 .. MaxFaults

\* The job is about to deliberate its first task; it deliberates a task.
Starting     == {"init", "seed", "decompose", "scope"}
Deliberating == {"frame", "explore", "compare", "panel", "synthesize"}

\* Where the job is says which task, of how many, and which panelist are at work.
PlaceInv ==
    /\ pc \in Starting => i = 1
    /\ pc \in Deliberating \cup {"artifacts", "scope"} => i <= n
    /\ pc = "commit" => i = n + 1
    /\ pc \in Deliberating \cup {"artifacts"} => Panel > 0
    /\ pc = "panel" => seat <= Panel

\* The tasks before the one at work have been planned by this job.
DoneInv == pc # "idle" =>
    \A t \in 1 .. (i - 1), f \in Artifacts : artifact[t][f] = plan

\* A manifest lies in the directory; the job starts from an empty one, and without
\* force there was nothing to lose.
ManifestInv ==
    /\ manifest.tasks > 0 => dir
    /\ pc \notin {"idle", "init"} => dir
    /\ pc \notin {"idle", "init", "seed"} => manifest.tasks = 0
    /\ pc = "seed" => force \/ manifest.tasks = 0

\* As long as nothing has gone wrong, only the task whose files are being written
\* may have files of two plans.
Coherent(t) == \A f, g \in Artifacts : artifact[t][f] = artifact[t][g]

CoherentInv == faults = 0 =>
    \A t \in Tasks : Coherent(t) \/ (pc = "artifacts" /\ t = i)

\* What the job may have spent: a call for the decomposition, those of the tasks
\* before the one at work, and k for that one.
Spent(k) == 1 + (i - 1) * (4 + Panel) + k

CostInv ==
    /\ DefaultCapSuffices
    /\ pc \in {"init", "seed", "decompose"} => modelCalls = 0
    /\ pc = "scope"      => modelCalls <= 1
    /\ pc = "frame"      => modelCalls <= Spent(0)
    /\ pc = "explore"    => modelCalls <= Spent(1)
    /\ pc = "compare"    => modelCalls <= Spent(2)
    /\ pc = "panel"      => modelCalls <= Spent(2 + seat)
    /\ pc = "synthesize" => modelCalls <= Spent(3 + Panel)
    /\ pc = "artifacts"  => modelCalls <= Spent(4 + Panel)

IInv ==
    /\ CallerInv
    /\ SlugTypeOK
    /\ LocalTypeOK
    /\ PlaceInv
    /\ DoneInv
    /\ ManifestInv
    /\ ListedIsPlanned
    /\ CoherentInv
    /\ CostInv

-----------------------------------------------------------------------------
(* What a plan may cost.                                                      *)

\* The calls of one task more fit as long as there is one more to plan.
LEMMA SpentFits ==
  ASSUME LocalTypeOK, i <= n, NEW k \in Nat, k <= 4 + Panel
  PROVE  /\ Spent(k) \in Nat
         /\ Spent(k) <= 1 + MaxTasks * (4 + Panel)
<1>1. i \in Nat \ {0} /\ i <= MaxTasks /\ MaxTasks \in Nat /\ Panel \in Nat
  BY PlanAssumption DEF LocalTypeOK
<1> DEFINE c == 4 + Panel
           j == i - 1
<1>2. c \in Nat /\ j \in Nat /\ j + 1 <= MaxTasks
  BY <1>1
<1> HIDE DEF c, j
<1>3. j * c \in Nat /\ (j + 1) * c = j * c + c
  BY <1>2
<1>4. (j + 1) * c <= MaxTasks * c
  BY <1>1, <1>2
<1>5. MaxTasks * c \in Nat
  BY <1>1, <1>2
<1>6. Spent(k) = 1 + j * c + k /\ k <= c
  BY DEF Spent, c, j
<1> QED
  BY <1>2, <1>3, <1>4, <1>5, <1>6 DEF c

\* One more task done is one more task paid for.
LEMMA SpentNext ==
  ASSUME NEW t \in Nat, NEW p \in Nat
  PROVE  1 + (t - 1) * (4 + p) + (4 + p) = 1 + ((t + 1) - 1) * (4 + p) + 0
<1> DEFINE c == 4 + p
           j == t - 1
<1>1. c \in Int /\ j \in Int
  OBVIOUS
<1> HIDE DEF c, j
<1>2. (j + 1) * c = j * c + c
  BY <1>1
<1>3. (t + 1) - 1 = j + 1
  BY DEF j
<1>4. 1 + j * c + c = 1 + (j + 1) * c + 0
  BY <1>1, <1>2
<1> QED
  BY <1>3, <1>4 DEF c, j

-----------------------------------------------------------------------------
(* Steps that leave the slug alone.                                           *)

\* What the slug holds stays listed and coherent while nobody writes to it.
LEMMA SlugUntouched ==
  ASSUME IInv, UNCHANGED slug,
         \/ pc # "artifacts" /\ faults' = faults
         \/ faults' = faults + 1
  PROVE  /\ SlugTypeOK' /\ ListedIsPlanned' /\ CoherentInv'
         /\ manifest'.tasks > 0 => dir'
<1>1. UNCHANGED <<dir, manifest, artifact>>
  BY DEF slug
<1>2. SlugTypeOK' /\ ListedIsPlanned'
  BY <1>1 DEF IInv, SlugTypeOK, ListedIsPlanned
<1>3. CoherentInv'
  <2> SUFFICES ASSUME faults' = 0, NEW t \in Tasks PROVE Coherent(t)'
    BY DEF CoherentInv
  <2>1. faults \in Nat
    BY PlanAssumption DEF IInv, LocalTypeOK
  <2>2. faults = 0 /\ pc # "artifacts"
    BY <2>1
  <2>3. Coherent(t)
    BY <2>2 DEF IInv, CoherentInv
  <2> QED
    BY <1>1, <2>3 DEF Coherent
<1>4. manifest'.tasks > 0 => dir'
  BY <1>1, Zenon DEF IInv, ManifestInv
<1> QED
  BY <1>2, <1>3, <1>4, Zenon

\* A job may end anywhere but between two artifacts, as long as nothing fails.
LEMMA EndStep ==
  ASSUME IInv, UNCHANGED <<slug, locals, i, seat>>, pc' = "idle",
         CallerInv', DefaultCapSuffices',
         err' \in {"none", "nil", "other", "budget"},
         \/ pc # "artifacts" /\ faults' = faults
         \/ faults < MaxFaults /\ faults' = faults + 1
  PROVE  IInv'
<1>1. SlugTypeOK' /\ ListedIsPlanned' /\ CoherentInv' /\ (manifest'.tasks > 0 => dir')
  BY SlugUntouched, Zenon
<1>2. LocalTypeOK'
  BY PlanAssumption DEF IInv, LocalTypeOK, locals, PCs
<1>3. PlaceInv' /\ DoneInv' /\ CostInv'
  BY DEF PlaceInv, DoneInv, CostInv, Starting, Deliberating
<1>4. ManifestInv'
  BY <1>1, Zenon DEF ManifestInv
<1> QED
  BY <1>1, <1>2, <1>3, <1>4, Zenon DEF IInv

\* A failure ends the job: no model to ask, a failed deliberation, a failed write
\* or a crash.
LEMMA FailStep ==
  ASSUME IInv, NoModels \/ HaftFails \/ StoreFails \/ Crash
  PROVE  IInv'
<1>1. CASE NoModels
  <2>1. CallerInv' /\ DefaultCapSuffices'
    BY <1>1, CallerUnchanged
       DEF NoModels, IInv, CostInv, DefaultCapSuffices, caller
  <2> QED
    BY <1>1, <2>1, EndStep DEF NoModels, Return, StageErr
<1>2. CASE HaftFails
  <2>1. CallerInv' /\ modelCalls' = modelCalls + 1
    BY <1>2, CallKeepsInv DEF HaftFails, IInv
  <2>2. DefaultCapSuffices'
    <3>1. LocalTypeOK /\ i <= n /\ Panel \in Nat /\ modelCalls \in Nat
      BY <1>2, PlanAssumption
         DEF HaftFails, IInv, PlaceInv, Deliberating, CallerInv, CallerTypeOK
    <3>2. PICK k \in 0 .. 2 : modelCalls <= Spent(k)
      BY <1>2 DEF HaftFails, IInv, CostInv
    <3>3. Spent(k + 1) \in Nat /\ Spent(k + 1) <= 1 + MaxTasks * (4 + Panel)
      BY <3>1, SpentFits
    <3>4. Spent(k) \in Int /\ Spent(k + 1) = Spent(k) + 1
      BY <3>1 DEF Spent, LocalTypeOK
    <3> QED
      BY <2>1, <3>1, <3>2, <3>3, <3>4, PlanAssumption DEF DefaultCapSuffices
  <2>3. err' \in {"none", "nil", "other", "budget"}
    BY <1>2 DEF HaftFails
  <2> QED
    BY <1>2, <2>1, <2>2, <2>3, EndStep DEF HaftFails
<1>3. CASE StoreFails \/ Crash
  <2>1. CallerInv' /\ DefaultCapSuffices'
    BY <1>3, CallerUnchanged
       DEF StoreFails, Crash, IInv, CostInv, DefaultCapSuffices, caller
  <2> QED
    BY <1>3, <2>1, EndStep DEF StoreFails, Crash, Return, StageErr
<1> QED
  BY <1>1, <1>2, <1>3

\* A job is started: it has done nothing yet.
LEMMA StartStep ==
  ASSUME IInv, NEW withFusion \in BOOLEAN, NEW forced \in BOOLEAN,
         Start(withFusion, forced)
  PROVE  IInv'
<1>1. SlugTypeOK' /\ ListedIsPlanned' /\ CoherentInv' /\ (manifest'.tasks > 0 => dir')
  BY SlugUntouched DEF Start, Goto
<1>2. CallerInv'
  <2>1. modelCalls' = 0 /\ sent' = 0
    BY DEF Start
  <2>2. dead' \in BOOLEAN /\ budgetErr' \in BOOLEAN
    BY Zenon DEF Start
  <2>3. SpendWithinCap' /\ modelCalls' \in Nat /\ sent' \in 0 .. modelCalls'
    BY <2>1, CapAssumption DEF SpendWithinCap
  <2> QED
    BY <2>2, <2>3, Zenon DEF CallerInv, CallerTypeOK
<1>3. LocalTypeOK'
  <2>1. plan' \in 0 .. MaxPlans
    BY PlanAssumption DEF Start, IInv, LocalTypeOK
  <2>2. /\ pc' \in PCs /\ n' \in 0 .. MaxTasks /\ i' \in 1 .. (MaxTasks + 1)
        /\ seat' \in 1 .. (Panel + 1)
        /\ err' \in {"none", "nil", "other", "budget"} /\ faults' \in 0 .. MaxFaults
    BY PlanAssumption DEF Start, Goto, IInv, LocalTypeOK, PCs, Storing
  <2>3. fusion' \in BOOLEAN /\ force' \in BOOLEAN
    BY Zenon DEF Start
  <2> QED
    BY <2>1, <2>2, <2>3, Zenon DEF LocalTypeOK
<1>4. PlaceInv' /\ DoneInv'
  BY DEF Start, Goto, PlaceInv, DoneInv, Starting, Deliberating
<1>5. ManifestInv'
  BY <1>1 DEF Start, Goto, ManifestInv
<1>6. CostInv'
  <2>1. modelCalls' = 0 /\ pc' = "init"
    BY DEF Start, Goto
  <2>2. MaxTasks * (4 + Panel) \in Nat
    BY PlanAssumption
  <2> QED
    BY <2>1, <2>2 DEF CostInv, DefaultCapSuffices
<1> QED
  BY <1>1, <1>2, <1>3, <1>4, <1>5, <1>6, Zenon DEF IInv

-----------------------------------------------------------------------------
(* The first steps of a job.                                                  *)

\* InitSlug: a slug that has been planned is refused, unless forced.
LEMMA InitSlugStep ==
  ASSUME IInv, InitSlug
  PROVE  IInv'
<1>1. CallerInv' /\ DefaultCapSuffices' /\ modelCalls' = modelCalls
  BY CallerUnchanged DEF InitSlug, IInv, CostInv, DefaultCapSuffices, caller
<1>2. CASE dir /\ ~force
  <2>1. UNCHANGED slug
    BY <1>2 DEF InitSlug, slug
  <2> QED
    BY <1>1, <1>2, <2>1, EndStep DEF InitSlug, Return, StageErr
<1>3. CASE ~(dir /\ ~force)
  <2>1. /\ pc = "init" /\ pc' = "seed" /\ dir' = TRUE
        /\ UNCHANGED <<manifest, artifact, locals, i, seat, err, faults>>
    BY <1>3 DEF InitSlug
  <2>2. SlugTypeOK' /\ ListedIsPlanned' /\ CoherentInv'
    BY <2>1 DEF IInv, SlugTypeOK, ListedIsPlanned, CoherentInv, Coherent
  <2>3. LocalTypeOK' /\ PlaceInv' /\ DoneInv'
    BY <2>1 DEF IInv, LocalTypeOK, PlaceInv, DoneInv, locals, PCs, Starting, Deliberating
  <2>4. ManifestInv'
    <3>1. force' \/ manifest'.tasks = 0
      <4>1. manifest.tasks \in Nat
        BY PlanAssumption DEF IInv, SlugTypeOK
      <4>2. force \/ ~(manifest.tasks > 0)
        BY <1>3, Zenon DEF IInv, ManifestInv
      <4> QED
        BY <2>1, <4>1, <4>2 DEF locals
    <3> QED
      BY <2>1, <3>1, Zenon DEF ManifestInv
  <2>5. CostInv'
    BY <1>1, <2>1 DEF IInv, CostInv
  <2> QED
    BY <1>1, <2>2, <2>3, <2>4, <2>5, Zenon DEF IInv
<1> QED
  BY <1>2, <1>3

\* The empty manifest, the decomposition and scope.md: no task is at work yet.
LEMMA OpenStep ==
  ASSUME IInv, \/ Seed \/ Scope
               \/ \E ok \in BOOLEAN, count \in Tasks : Decompose(ok, count)
  PROVE  IInv'
<1>1. /\ pc \in {"seed", "decompose", "scope"} /\ i = 1
      /\ UNCHANGED <<dir, artifact, fusion, force, plan, i, seat, err, faults>>
      /\ manifest' = NoManifest \/ (pc # "seed" /\ UNCHANGED manifest)
  BY DEF Seed, Scope, Decompose, Goto, slug, locals, IInv, PlaceInv, Starting
<1>2. /\ pc' \in {"decompose", "scope", "frame"}
      /\ n' \in 1 .. MaxTasks \/ (pc = "scope" /\ UNCHANGED n)
      /\ pc' = "frame" => pc = "scope" /\ Panel > 0
      /\ pc' = "decompose" => pc = "seed"
      /\ pc' = "scope" => n' \in 1 .. MaxTasks
  BY PlanAssumption DEF Seed, Scope, Decompose, Goto, locals, Tasks
<1>3. CallerInv' /\ (\/ modelCalls' = modelCalls /\ (pc = "seed" \/ pc = "scope")
                     \/ modelCalls' = modelCalls + 1 /\ pc = "decompose" /\ pc' = "scope")
  <2>1. CASE Seed \/ Scope
    BY <2>1, CallerUnchanged DEF Seed, Scope, Goto, caller, IInv
  <2>2. CASE \E ok \in BOOLEAN, count \in Tasks : Decompose(ok, count)
    BY <2>2, CallKeepsInv DEF Decompose, Goto, IInv
  <2> QED
    BY <2>1, <2>2
<1>4. /\ manifest'.tasks = 0
      /\ manifest' \in [plan : 0 .. MaxPlans, tasks : 0 .. MaxTasks]
  BY <1>1, PlanAssumption DEF IInv, SlugTypeOK, ManifestInv, NoManifest
<1>5. SlugTypeOK' /\ ListedIsPlanned' /\ CoherentInv'
  <2>1. SlugTypeOK'
    BY <1>1, <1>4 DEF IInv, SlugTypeOK
  <2>2. ListedIsPlanned' /\ CoherentInv'
    BY <1>1, <1>4 DEF IInv, ListedIsPlanned, CoherentInv, Coherent
  <2> QED
    BY <2>1, <2>2
<1>6. LocalTypeOK'
  BY <1>1, <1>2, PlanAssumption DEF IInv, LocalTypeOK, PCs, Calling, Storing
<1>7. PlaceInv' /\ DoneInv'
  <2>1. n \in Nat /\ Panel \in Nat
    BY PlanAssumption DEF IInv, LocalTypeOK
  <2> QED
    BY <1>1, <1>2, <2>1, PlanAssumption DEF IInv, PlaceInv, DoneInv, Starting, Deliberating
<1>8. ManifestInv'
  <2>1. dir'
    BY <1>1, Zenon DEF IInv, ManifestInv
  <2> QED
    BY <1>2, <1>4, <2>1, Zenon DEF ManifestInv
<1>9. CostInv'
  <2>1. modelCalls \in Nat /\ modelCalls <= (IF pc = "scope" THEN 1 ELSE 0)
    BY <1>1 DEF IInv, CostInv, CallerInv, CallerTypeOK
  <2>2. modelCalls' <= 1 /\ (pc' = "decompose" => modelCalls' = 0)
    BY <1>2, <1>3, <2>1
  <2>3. MaxTasks * (4 + Panel) \in Nat /\ Panel \in Nat
    BY PlanAssumption
  <2>4. Spent(0)' = 1
    BY <1>1, <2>3 DEF Spent
  <2> QED
    BY <1>2, <1>3, <2>2, <2>3, <2>4 DEF CostInv, DefaultCapSuffices, CallerInv, CallerTypeOK
<1> QED
  BY <1>3, <1>5, <1>6, <1>7, <1>8, <1>9, Zenon DEF IInv

-----------------------------------------------------------------------------
(* The deliberation of a task, and its files.                                 *)

\* A call of the deliberation: the haft's three, a panelist's or the synthesizer's.
LEMMA DeliberateStep ==
  ASSUME IInv, \/ Haft
               \/ \E ok \in BOOLEAN : Panelist(ok) \/ Synthesize(ok)
  PROVE  IInv'
<1>1. /\ pc \in Deliberating
      /\ UNCHANGED <<slug, locals, i, err, faults>>
      /\ \E ok \in BOOLEAN : CallModel(ok)
  BY DEF Haft, Panelist, Synthesize, Goto, Deliberating
<1>2. \/ pc = "frame" /\ pc' = "explore"
      \/ pc = "explore" /\ pc' = "compare"
      \/ pc = "compare" /\ pc' \in {"panel", "artifacts"} /\ seat' = 1
      \/ pc = "panel" /\ pc' = "panel" /\ seat # Panel /\ seat' = seat + 1
      \/ pc = "panel" /\ pc' = "synthesize" /\ seat = Panel
      \/ pc = "synthesize" /\ pc' = "artifacts"
  BY DEF Haft, AfterHaft, Panelist, Synthesize, Goto
<1>3. seat' \in {1, seat} \/ (pc = "panel" /\ seat' = seat + 1)
  BY DEF Haft, Panelist, Synthesize
<1>4. /\ i \in Nat \ {0} /\ i <= n /\ n \in Nat /\ Panel \in Nat \ {0}
      /\ seat \in Nat \ {0} /\ (pc = "panel" => seat <= Panel)
  BY <1>1, PlanAssumption DEF IInv, LocalTypeOK, PlaceInv, Deliberating
<1>5. CallerInv' /\ modelCalls' = modelCalls + 1 /\ modelCalls \in Nat
  BY <1>1, CallKeepsInv DEF IInv, CallerInv, CallerTypeOK
<1>6. SlugTypeOK' /\ ListedIsPlanned' /\ CoherentInv' /\ (manifest'.tasks > 0 => dir')
  BY <1>1, SlugUntouched DEF Deliberating
<1>7. LocalTypeOK'
  <2>1. pc' \in PCs
    BY <1>2 DEF PCs, Calling, Storing
  <2>2. seat' \in 1 .. (Panel + 1) /\ seat \in 1 .. (Panel + 1)
    BY <1>3, <1>4 DEF IInv, LocalTypeOK
  <2> QED
    BY <1>1, <2>1, <2>2 DEF IInv, LocalTypeOK, locals
<1>8. PlaceInv'
  BY <1>1, <1>2, <1>4 DEF PlaceInv, locals, Deliberating, Starting
<1>9. DoneInv' /\ ManifestInv'
  <2>1. pc \notin {"idle", "init", "seed"} /\ pc' # "seed"
    BY <1>1, <1>2 DEF Deliberating
  <2>2. UNCHANGED <<dir, manifest, artifact, plan, i>>
    BY <1>1 DEF slug, locals
  <2> QED
    BY <2>1, <2>2, Zenon DEF IInv, DoneInv, ManifestInv
<1>10. CostInv'
  <2> DEFINE base == 1 + (i - 1) * (4 + Panel)
  <2>1. base \in Int
    BY <1>4
  <2>2. \A k \in Nat : Spent(k) = base + k
    BY DEF Spent
  <2>3. /\ Spent(1)' = base + 1 /\ Spent(2)' = base + 2
        /\ Spent(2 + seat)' = base + (2 + seat')
        /\ Spent(3 + Panel)' = base + (3 + Panel) /\ Spent(4 + Panel)' = base + (4 + Panel)
    BY <1>1 DEF Spent
  <2> HIDE DEF base
  <2>4. PICK k \in Nat : /\ k < 4 + Panel /\ modelCalls <= base + k
                         /\ pc' = "explore" => k = 0
                         /\ pc' = "compare" => k = 1
                         /\ pc' = "panel" => k + 1 = 2 + seat'
                         /\ pc' = "synthesize" => k + 1 = 3 + Panel
    <3>1. CASE pc = "frame"
      BY <1>2, <1>4, <2>2, <3>1 DEF IInv, CostInv
    <3>2. CASE pc = "explore"
      BY <1>2, <1>4, <2>2, <3>2 DEF IInv, CostInv
    <3>3. CASE pc = "compare"
      BY <1>2, <1>4, <2>2, <3>3 DEF IInv, CostInv
    <3>4. CASE pc = "panel"
      BY <1>2, <1>4, <2>2, <3>4 DEF IInv, CostInv
    <3>5. CASE pc = "synthesize"
      BY <1>2, <1>4, <2>2, <3>5 DEF IInv, CostInv
    <3> QED
      BY <1>2, <3>1, <3>2, <3>3, <3>4, <3>5
  <2>5. DefaultCapSuffices'
    <3>1. Spent(k + 1) <= 1 + MaxTasks * (4 + Panel)
      BY <1>4, <2>4, SpentFits DEF IInv
    <3>2. Spent(k + 1) = base + (k + 1)
      BY <2>2, <2>4
    <3>3. MaxTasks * (4 + Panel) \in Nat
      BY <1>4, PlanAssumption
    <3> QED
      BY <1>5, <2>1, <2>4, <3>1, <3>2, <3>3 DEF DefaultCapSuffices
  <2>6. seat' \in Nat
    BY <1>3, <1>4
  <2>7. /\ pc' \in {"explore", "compare", "panel", "synthesize", "artifacts"}
        /\ modelCalls' <= base + (k + 1)
    BY <1>2, <1>5, <2>1, <2>4
  <2>8. modelCalls' \in Nat
    BY <1>5
  <2>9. pc' = "explore" => modelCalls' <= Spent(1)'
    BY <1>4, <2>1, <2>3, <2>4, <2>6, <2>7, <2>8
  <2>10. pc' = "compare" => modelCalls' <= Spent(2)'
    BY <1>4, <2>1, <2>3, <2>4, <2>6, <2>7, <2>8
  <2>11. pc' = "panel" => modelCalls' <= Spent(2 + seat)'
    BY <1>4, <2>1, <2>3, <2>4, <2>6, <2>7, <2>8
  <2>12. pc' = "synthesize" => modelCalls' <= Spent(3 + Panel)'
    BY <1>4, <2>1, <2>3, <2>4, <2>6, <2>7, <2>8
  <2>13. pc' = "artifacts" => modelCalls' <= Spent(4 + Panel)'
    BY <1>4, <2>1, <2>3, <2>4, <2>6, <2>7, <2>8
  <2> QED
    BY <2>5, <2>7, <2>9, <2>10, <2>11, <2>12, <2>13 DEF CostInv
<1> QED
  BY <1>5, <1>6, <1>7, <1>8, <1>9, <1>10, Zenon DEF IInv

\* A file of the task at work is written.
LEMMA ArtifactStep ==
  ASSUME IInv, NEW f \in Artifacts, Artifact(f)
  PROVE  IInv'
<1>1. /\ pc = "artifacts"
      /\ UNCHANGED <<caller, dir, manifest, pc, locals, i, seat, err, faults>>
      /\ artifact' = [artifact EXCEPT ![i][f] = plan]
  BY DEF Artifact
<1>2. i \in Tasks /\ i \in Nat /\ plan \in 0 .. MaxPlans
  BY <1>1, PlanAssumption DEF IInv, LocalTypeOK, PlaceInv, Tasks
<1>3. CallerInv' /\ LocalTypeOK' /\ PlaceInv' /\ ManifestInv' /\ CostInv'
  <2>1. CallerInv'
    BY <1>1, CallerUnchanged DEF IInv
  <2>2. LocalTypeOK' /\ PlaceInv'
    BY <1>1 DEF IInv, LocalTypeOK, PlaceInv, locals
  <2>3. ManifestInv'
    BY <1>1, Zenon DEF IInv, ManifestInv, locals
  <2>4. CostInv'
    BY <1>1 DEF IInv, CostInv, DefaultCapSuffices, Spent, caller
  <2> QED
    BY <2>1, <2>2, <2>3, <2>4
<1>4. /\ artifact' \in [Tasks -> [Artifacts -> 0 .. MaxPlans]]
      /\ \A t \in Tasks \ {i}, g \in Artifacts : artifact'[t][g] = artifact[t][g]
  BY <1>1, <1>2 DEF IInv, SlugTypeOK
<1>5. SlugTypeOK'
  BY <1>1, <1>4 DEF IInv, SlugTypeOK
<1>6. DoneInv'
  BY <1>1, <1>2, <1>4 DEF IInv, DoneInv, Tasks, locals
<1>7. ListedIsPlanned'
  BY <1>1 DEF IInv, ManifestInv, ListedIsPlanned
<1>8. CoherentInv'
  BY <1>1, <1>4 DEF IInv, CoherentInv, Coherent
<1> QED
  BY <1>3, <1>5, <1>6, <1>7, <1>8, Zenon DEF IInv

\* The four files of a task are there: the next task, or the manifest, is due.
LEMMA TaskDoneStep ==
  ASSUME IInv, TaskDone
  PROVE  IInv'
<1>1. /\ pc = "artifacts" /\ i' = i + 1
      /\ pc' = IF i = n THEN "commit" ELSE "frame"
      /\ \A f \in Artifacts : artifact[i][f] = plan
      /\ UNCHANGED <<caller, dir, manifest, artifact, locals, seat, err, faults>>
  BY DEF TaskDone, slug
<1>2. /\ i \in Nat \ {0} /\ n \in Nat /\ i <= n /\ n <= MaxTasks
      /\ MaxTasks \in Nat /\ Panel \in Nat
  BY <1>1, PlanAssumption DEF IInv, LocalTypeOK, PlaceInv
<1>3. CallerInv' /\ SlugTypeOK' /\ ListedIsPlanned' /\ ManifestInv'
  <2>1. CallerInv'
    BY <1>1, CallerUnchanged DEF IInv
  <2>2. SlugTypeOK' /\ ListedIsPlanned'
    BY <1>1 DEF IInv, SlugTypeOK, ListedIsPlanned
  <2>3. pc' \notin {"idle", "init", "seed"}
    BY <1>1
  <2>4. ManifestInv'
    BY <1>1, <2>3, Zenon DEF IInv, ManifestInv
  <2> QED
    BY <2>1, <2>2, <2>4
<1>4. LocalTypeOK'
  BY <1>1, <1>2 DEF IInv, LocalTypeOK, locals, PCs, Calling, Storing
<1>5. PlaceInv'
  <2>1. Panel > 0
    BY <1>1 DEF IInv, PlaceInv, Deliberating
  <2> QED
    BY <1>1, <1>2, <2>1 DEF PlaceInv, locals, Starting, Deliberating
<1>6. DoneInv'
  BY <1>1, <1>2 DEF IInv, DoneInv, locals
<1>7. CoherentInv'
  BY <1>1 DEF IInv, CoherentInv, Coherent
<1>8. CostInv'
  <2>1. modelCalls <= Spent(4 + Panel) /\ UNCHANGED modelCalls
    BY <1>1 DEF IInv, CostInv, caller
  <2>2. Spent(0)' = Spent(4 + Panel)
    BY <1>1, <1>2, SpentNext DEF Spent
  <2>3. DefaultCapSuffices'
    BY <1>1 DEF IInv, CostInv, DefaultCapSuffices, caller
  <2> QED
    BY <1>1, <2>1, <2>2, <2>3 DEF CostInv
<1> QED
  BY <1>3, <1>4, <1>5, <1>6, <1>7, <1>8, Zenon DEF IInv

\* The manifest lists what has been planned.
LEMMA CommitStep ==
  ASSUME IInv, Commit
  PROVE  IInv'
<1>1. /\ pc = "commit" /\ pc' = "idle" /\ err' = "nil"
      /\ manifest' = [plan |-> plan, tasks |-> n]
      /\ UNCHANGED <<caller, dir, artifact, locals, i, seat, faults>>
  BY DEF Commit, Return, StageErr
<1>2. n \in 0 .. MaxTasks /\ n \in Nat /\ plan \in 0 .. MaxPlans /\ i = n + 1
  BY <1>1, PlanAssumption DEF IInv, LocalTypeOK, PlaceInv
<1>3. CallerInv' /\ LocalTypeOK' /\ PlaceInv' /\ DoneInv' /\ CostInv'
  <2>1. CallerInv'
    BY <1>1, CallerUnchanged DEF IInv
  <2>2. LocalTypeOK'
    BY <1>1 DEF IInv, LocalTypeOK, locals, PCs
  <2>3. PlaceInv' /\ DoneInv'
    BY <1>1 DEF PlaceInv, DoneInv, Starting, Deliberating
  <2>4. CostInv'
    BY <1>1 DEF IInv, CostInv, DefaultCapSuffices, caller
  <2> QED
    BY <2>1, <2>2, <2>3, <2>4
<1>4. SlugTypeOK'
  <2>1. manifest' \in [plan : 0 .. MaxPlans, tasks : 0 .. MaxTasks]
    BY <1>1, <1>2
  <2> QED
    BY <1>1, <2>1 DEF IInv, SlugTypeOK
<1>5. ListedIsPlanned'
  <2>1. \A t \in 1 .. n, f \in Artifacts : artifact[t][f] = plan
    BY <1>1, <1>2 DEF IInv, DoneInv
  <2> QED
    BY <1>1, <2>1 DEF ListedIsPlanned
<1>6. ManifestInv'
  <2>1. dir'
    <3>1. pc \notin {"idle", "init"}
      BY <1>1
    <3> QED
      BY <1>1, <3>1, Zenon DEF IInv, ManifestInv
  <2>2. pc' = "idle"
    BY <1>1
  <2> QED
    BY <2>1, <2>2, Zenon DEF ManifestInv
<1>7. CoherentInv'
  BY <1>1 DEF IInv, CoherentInv, Coherent
<1> QED
  BY <1>3, <1>4, <1>5, <1>6, <1>7, Zenon DEF IInv

\* A kill, and a step in which nothing happens.
LEMMA IdleStep ==
  ASSUME IInv, KillJob \/ Idling \/ UNCHANGED vars
  PROVE  IInv'
<1>1. UNCHANGED <<slug, pc, locals, i, seat, err, faults>> /\ modelCalls' = modelCalls
  BY DEF KillJob, Kill, Idling, vars, caller
<1>2. CallerInv'
  BY KillKeepsInv, CallerUnchanged DEF KillJob, Idling, vars, IInv
<1>3. UNCHANGED <<dir, manifest, artifact, fusion, force, plan, n>>
  BY <1>1 DEF slug, locals
<1>4. SlugTypeOK' /\ LocalTypeOK' /\ PlaceInv'
  BY <1>1, <1>3 DEF IInv, SlugTypeOK, LocalTypeOK, PlaceInv
<1>5. DoneInv' /\ ListedIsPlanned' /\ CoherentInv'
  BY <1>1, <1>3 DEF IInv, DoneInv, ListedIsPlanned, CoherentInv, Coherent
<1>6. ManifestInv'
  BY <1>1, <1>3, Zenon DEF IInv, ManifestInv
<1>7. CostInv'
  BY <1>1 DEF IInv, CostInv, DefaultCapSuffices, Spent
<1> QED
  BY <1>2, <1>4, <1>5, <1>6, <1>7, Zenon DEF IInv

-----------------------------------------------------------------------------
\* A slug starts without a directory, and nobody has planned anything.
LEMMA InitIInv == Init => IInv
<1> SUFFICES ASSUME Init PROVE IInv
  OBVIOUS
<1>1. CallerInv
  BY CallerInitInv DEF Init
<1>2. SlugTypeOK
  <2>1. manifest \in [plan : 0 .. MaxPlans, tasks : 0 .. MaxTasks]
    BY PlanAssumption DEF Init, NoManifest
  <2>2. artifact \in [Tasks -> [Artifacts -> 0 .. MaxPlans]]
    BY PlanAssumption DEF Init
  <2>3. dir \in BOOLEAN
    BY Zenon DEF Init
  <2> QED
    BY <2>1, <2>2, <2>3, Zenon DEF SlugTypeOK
<1>3. LocalTypeOK
  <2>1. fusion \in BOOLEAN /\ force \in BOOLEAN
    BY Zenon DEF Init
  <2>2. /\ pc \in PCs /\ plan \in 0 .. MaxPlans
        /\ n \in 0 .. MaxTasks /\ i \in 1 .. (MaxTasks + 1) /\ seat \in 1 .. (Panel + 1)
        /\ err \in {"none", "nil", "other", "budget"} /\ faults \in 0 .. MaxFaults
    BY PlanAssumption DEF Init, PCs
  <2> QED
    BY <2>1, <2>2, Zenon DEF LocalTypeOK
<1>4. PlaceInv /\ DoneInv /\ ListedIsPlanned /\ CoherentInv /\ ManifestInv
  BY DEF Init, PlaceInv, DoneInv, ListedIsPlanned, CoherentInv, Coherent, ManifestInv,
         NoManifest, Starting, Deliberating
<1>5. CostInv
  <2>1. MaxTasks * (4 + Panel) \in Nat
    BY PlanAssumption
  <2> QED
    BY <2>1 DEF Init, CallerInit, CostInv, DefaultCapSuffices
<1> QED
  BY <1>1, <1>2, <1>3, <1>4, <1>5, Zenon DEF IInv

\* The invariant holds of every reachable state.
THEOREM Inductive == Spec => []IInv
<1>1. IInv /\ [Next]_vars => IInv'
  <2> SUFFICES ASSUME IInv, [Next]_vars PROVE IInv'
    OBVIOUS
  <2>1. CASE Step
    BY <2>1, InitSlugStep, OpenStep, FailStep, DeliberateStep, ArtifactStep, TaskDoneStep,
       CommitStep DEF Step
  <2>2. CASE \E withFusion, forced \in BOOLEAN : Start(withFusion, forced)
    BY <2>2, StartStep
  <2>3. CASE Crash
    BY <2>3, FailStep
  <2>4. CASE KillJob \/ Idling \/ UNCHANGED vars
    BY <2>4, IdleStep
  <2> QED
    BY <2>1, <2>2, <2>3, <2>4, Zenon DEF Next
<1> QED
  BY <1>1, InitIInv, PTL DEF Spec

\* Every variable keeps its type.
THEOREM TypeCorrect == Spec => []TypeOK
<1>1. IInv => TypeOK
  BY Zenon DEF IInv, CallerInv, SlugTypeOK, LocalTypeOK, TypeOK
<1> QED
  BY <1>1, Inductive, PTL

\* What a manifest lists has all its artifacts, and they come from the plan that
\* listed it: after any sequence of plans, kills, failed writes and crashes.
THEOREM ListedArePlanned == Spec => []ListedIsPlanned
  BY Inductive, PTL DEF IInv

\* A job that has ended, killed or not, leaves no task with files of two plans, as
\* long as no write has failed and no process has died.
THEOREM KillsAreCoherent == Spec => []KillIsCoherent
<1>1. IInv => KillIsCoherent
  BY DEF IInv, CoherentInv, Coherent, KillIsCoherent
<1> QED
  BY <1>1, Inductive, PTL

\* A plan costs a call for the decomposition and 4 + Panel a task at most, whatever
\* fails in it and whenever it is killed.
THEOREM PlansAreAffordable == Spec => []DefaultCapSuffices
  BY Inductive, PTL DEF IInv, CostInv

\* No more calls are sent than the step cap of the job allows.
THEOREM PlanSpendWithinCap == Spec => []SpendWithinCap
  BY Inductive, PTL DEF IInv, CallerInv

\* Without force a plan never touches a slug that has been planned before: every
\* step that changes the slug is one of a forced job, or finds no task listed.
THEOREM PlannedSlugIsSafe == Spec => NoForceNoLoss
<1>1. IInv /\ [Next]_vars => [manifest.tasks > 0 /\ ~force' => UNCHANGED slug]_vars
  <2> SUFFICES ASSUME IInv, Next, manifest.tasks > 0, ~force'
               PROVE  UNCHANGED slug
    BY DEF vars
  <2>1. manifest.tasks # 0
    BY PlanAssumption DEF IInv, SlugTypeOK
  <2>2. CASE InitSlug
    <3>1. dir
      BY Zenon DEF IInv, ManifestInv
    <3>2. ~force
      BY <2>2, Zenon DEF InitSlug, locals
    <3> QED
      BY <2>2, <3>1, <3>2, Zenon DEF InitSlug, slug
  <2>3. pc \in {"idle", "init", "seed"}
    BY <2>1, Zenon DEF IInv, ManifestInv
  <2>4. ~Seed
    <3> SUFFICES ASSUME Seed PROVE FALSE
      OBVIOUS
    <3>1. pc = "seed" /\ force' = force
      BY DEF Seed, Goto
    <3> QED
      BY <2>1, <3>1, Zenon DEF IInv, ManifestInv
  <2>5. ~Commit /\ \A f \in Artifacts : ~Artifact(f)
    BY <2>3 DEF Commit, Artifact
  <2>6. UNCHANGED slug \/ InitSlug
    BY <2>4, <2>5, Zenon DEF Next, Step, Start, Decompose, Scope, NoModels, Haft, HaftFails,
       Panelist, Synthesize, TaskDone, StoreFails, KillJob, Crash, Idling, vars
  <2> QED
    BY <2>2, <2>6
<1> QED
  BY <1>1, Inductive, PTL DEF Spec, NoForceNoLoss
-----------------------------------------------------------------------------
(* What the end of a planning job rests on.                                   *)

\* Steps that one task takes at most: its calls, its four files, and the end of it.
PerTask == 9 + Panel

\* The files of the task at work that this job has yet to write.
Missing == {f \in Artifacts : artifact[i][f] # plan}

\* Steps that the task at work has left at most.
LeftOfTask ==
    CASE pc = "frame"      -> PerTask
      [] pc = "explore"    -> 8 + Panel
      [] pc = "compare"    -> 7 + Panel
      [] pc = "panel"      -> 6 + (Panel + 1 - seat)
      [] pc = "synthesize" -> 6
      [] OTHER             -> 1 + Cardinality(Missing)

\* Steps that a planning job has left at most.
Left ==
    CASE pc = "init"      -> 5 + MaxTasks * PerTask
      [] pc = "seed"      -> 4 + MaxTasks * PerTask
      [] pc = "decompose" -> 3 + MaxTasks * PerTask
      [] pc = "scope"     -> 2 + n * PerTask
      [] pc \in Deliberating \cup {"artifacts"} -> 1 + (n - i) * PerTask + LeftOfTask
      [] pc = "commit"    -> 1
      [] pc = "idle"      -> 0

\* Every step of a planning job brings its end nearer, in whatever order the files
\* of a task are written, and only a new job starts again.
Advances ==
    /\ Left \in 0 .. (5 + MaxTasks * PerTask) /\ Left' \in 0 .. (5 + MaxTasks * PerTask)
    /\ Step => Left' < Left
    /\ Left' > Left => pc = "idle" /\ pc' = "init" /\ plan' = plan + 1
    /\ Left = 0 <=> pc = "idle"

\* No more than four files are missing, and one fewer when one of them is written.
LEMMA MissingCount ==
  /\ Cardinality(Missing) \in 0 .. 4
  /\ \A f \in Missing : Cardinality(Missing \ {f}) = Cardinality(Missing) - 1
<1>1. IsFiniteSet(Artifacts) /\ Cardinality(Artifacts) = 4
  <2>1. IsFiniteSet({}) /\ Cardinality({}) = 0
    BY FS_EmptySet
  <2> DEFINE One == {} \cup {"adr"}
             Two == One \cup {"plan"}
             Three == Two \cup {"acceptance"}
             Four == Three \cup {"context"}
  <2>2. IsFiniteSet(One) /\ Cardinality(One) = 1
    BY <2>1, FS_AddElement
  <2>3. IsFiniteSet(Two) /\ Cardinality(Two) = 2
    <3>1. "plan" \notin One
      OBVIOUS
    <3> HIDE DEF One
    <3> QED
      BY <2>2, <3>1, FS_AddElement
  <2>4. IsFiniteSet(Three) /\ Cardinality(Three) = 3
    <3>1. "acceptance" \notin Two
      OBVIOUS
    <3> HIDE DEF Two
    <3> QED
      BY <2>3, <3>1, FS_AddElement
  <2>5. IsFiniteSet(Four) /\ Cardinality(Four) = 4
    <3>1. "context" \notin Three
      OBVIOUS
    <3> HIDE DEF Three
    <3> QED
      BY <2>4, <3>1, FS_AddElement
  <2>6. Artifacts = Four
    BY DEF Artifacts
  <2> QED
    BY <2>5, <2>6
<1>2. Missing \subseteq Artifacts
  BY DEF Missing
<1>3. IsFiniteSet(Missing) /\ Cardinality(Missing) <= 4
  BY <1>1, <1>2, FS_Subset
<1>4. Cardinality(Missing) \in Nat
  BY <1>3, FS_CardinalityType
<1>5. \A f \in Missing : Cardinality(Missing \ {f}) = Cardinality(Missing) - 1
  BY <1>3, FS_RemoveElement
<1> QED
  BY <1>3, <1>4, <1>5

\* A task at work has a step left at least, and no more than PerTask.
LEMMA LeftOfTaskRange ==
  ASSUME IInv, pc \in Deliberating \cup {"artifacts"}
  PROVE  LeftOfTask \in 1 .. PerTask
<1>1. Panel \in Nat /\ seat \in 1 .. (Panel + 1) /\ (pc = "panel" => seat <= Panel)
  BY PlanAssumption DEF IInv, LocalTypeOK, PlaceInv
<1> QED
  BY <1>1, MissingCount DEF LeftOfTask, PerTask, Deliberating

\* So it has in the next state.
LEMMA LaterRange ==
  /\ Cardinality(Missing)' \in 0 .. 4
  /\ IInv' /\ pc' \in Deliberating \cup {"artifacts"} => LeftOfTask' \in Int
<1> DEFINE Few     == Cardinality(Missing) \in 0 .. 4
           Between == IInv /\ pc \in Deliberating \cup {"artifacts"} => LeftOfTask \in Int
<1>1. Few /\ Between
  BY MissingCount, LeftOfTaskRange
<1>2. Few' /\ Between'
  <2> HIDE DEF Few, Between
  <2> QED
    BY <1>1, PTL
<1> QED
  BY <1>2

\* Some tasks take no more steps than more tasks do, and one task more PerTask more.
LEMMA TasksTake ==
  ASSUME NEW k \in Nat, NEW m \in Nat, k <= m, NEW c \in Nat
  PROVE  k * c \in Nat /\ k * c <= m * c /\ (k + 1) * c = k * c + c
<1> QED
  OBVIOUS

\* A planning job has a step left as long as it is not over.
LEMMA LeftRange ==
  ASSUME IInv
  PROVE  Left \in 0 .. (5 + MaxTasks * PerTask) /\ (Left = 0 <=> pc = "idle")
<1>1. /\ MaxTasks \in Nat \ {0} /\ PerTask \in Nat
      /\ n \in 0 .. MaxTasks /\ i \in 1 .. (MaxTasks + 1)
  BY PlanAssumption DEF IInv, LocalTypeOK, PerTask
<1>2. MaxTasks * PerTask \in Nat
  BY <1>1, TasksTake
<1>3. CASE pc \in Deliberating \cup {"artifacts"}
  <2>1. LeftOfTask \in 1 .. PerTask
    BY <1>3, LeftOfTaskRange
  <2>2. n - i \in Nat /\ (n - i) + 1 <= MaxTasks /\ n - i <= MaxTasks
    BY <1>1, <1>3 DEF IInv, PlaceInv
  <2> DEFINE before == (n - i) * PerTask
             all    == MaxTasks * PerTask
  <2>3. before \in Nat /\ all \in Nat /\ before + PerTask <= all
    <3>1. (n - i) * PerTask \in Nat /\ ((n - i) + 1) * PerTask = (n - i) * PerTask + PerTask
      BY <1>1, <2>2, TasksTake
    <3>2. ((n - i) + 1) * PerTask <= MaxTasks * PerTask
      BY <1>1, <2>2, TasksTake
    <3> QED
      BY <1>2, <3>1, <3>2
  <2>4. Left = 1 + before + LeftOfTask
    BY <1>3 DEF Left, Deliberating
  <2>5. pc # "idle"
    BY <1>3 DEF Deliberating
  <2> HIDE DEF before, all
  <2>6. Left \in Nat /\ 0 < Left /\ Left <= 5 + all
    BY <1>1, <2>1, <2>3, <2>4
  <2> QED
    BY <1>2, <2>5, <2>6 DEF all
<1>4. CASE pc = "scope"
  <2>1. n * PerTask \in Nat /\ n * PerTask <= MaxTasks * PerTask
    BY <1>1, TasksTake
  <2>2. Left = 2 + n * PerTask
    BY <1>4 DEF Left, Deliberating
  <2> QED
    BY <1>2, <1>4, <2>1, <2>2
<1>5. CASE pc \in {"init", "seed", "decompose", "commit", "idle"}
  <2> DEFINE all == MaxTasks * PerTask
  <2>1. Left \in {5 + all, 4 + all, 3 + all, 1, 0} /\ (Left = 0 => pc = "idle" \/ 3 + all = 0 \/ 4 + all = 0 \/ 5 + all = 0)
    BY <1>5 DEF Left, Deliberating
  <2>2. pc = "idle" => Left = 0
    BY DEF Left, Deliberating
  <2> HIDE DEF all
  <2>3. all \in Nat
    BY <1>2 DEF all
  <2>4. Left \in 0 .. (5 + all) /\ (Left = 0 <=> pc = "idle")
    BY <2>1, <2>2, <2>3
  <2> QED
    BY <2>4 DEF all
<1> QED
  BY <1>3, <1>4, <1>5 DEF IInv, LocalTypeOK, PCs, Calling, Storing, Deliberating

\* A step that ends the job leaves nothing to do.
LEMMA EndAdvances ==
  ASSUME IInv, pc # "idle", pc' = "idle"
  PROVE  Left' < Left
<1>1. Left' = 0
  BY DEF Left, Deliberating
<1> QED
  BY <1>1, LeftRange

\* The steps up to the first task.
LEMMA OpenAdvances ==
  ASSUME IInv, IInv',
         \/ InitSlug \/ Seed
         \/ (\E ok \in BOOLEAN, count \in Tasks : Decompose(ok, count))
         \/ Scope
  PROVE  Left' < Left
<1>1. /\ MaxTasks \in Nat \ {0} /\ PerTask \in Nat
      /\ n \in 0 .. MaxTasks /\ n' \in 0 .. MaxTasks
  BY PlanAssumption DEF IInv, LocalTypeOK, PerTask
<1>2. MaxTasks * PerTask \in Nat
  BY <1>1, TasksTake
<1>3. CASE InitSlug
  <2>1. pc = "init" /\ pc' \in {"idle", "seed"}
    BY <1>3 DEF InitSlug, Return
  <2>2. CASE pc' = "seed"
    BY <1>2, <2>1, <2>2 DEF Left, Deliberating, PerTask
  <2> QED
    BY <2>1, <2>2, EndAdvances
<1>4. CASE Seed \/ \E ok \in BOOLEAN, count \in Tasks : Decompose(ok, count)
  <2>1. /\ pc \in {"seed", "decompose"} /\ pc' \in {"decompose", "scope"}
        /\ pc' = "decompose" => pc = "seed"
    BY <1>4 DEF Seed, Decompose, Goto
  <2>2. Left \in {3 + MaxTasks * PerTask, 4 + MaxTasks * PerTask}
    BY <2>1 DEF Left, Deliberating
  <2>3. CASE pc' = "decompose"
    <3>1. Left = 4 + MaxTasks * PerTask /\ Left' = 3 + MaxTasks * PerTask
      BY <2>1, <2>3 DEF Left, Deliberating, PerTask
    <3> QED
      BY <1>2, <3>1
  <2>4. CASE pc' = "scope"
    <3>1. Left' = 2 + n' * PerTask
      BY <2>4 DEF Left, Deliberating, PerTask
    <3>2. n' * PerTask \in Nat /\ n' * PerTask <= MaxTasks * PerTask
      <4>1. n' \in Nat /\ MaxTasks \in Nat /\ n' <= MaxTasks /\ PerTask \in Nat
        BY <1>1
      <4> QED
        BY <4>1, TasksTake
    <3> QED
      BY <1>2, <2>2, <3>1, <3>2
  <2> QED
    BY <2>1, <2>3, <2>4
<1>5. CASE Scope
  <2>1. pc = "scope" /\ pc' = "frame" /\ n' = n /\ i' = i
    BY <1>5 DEF Scope, locals
  <2>2. i = 1 /\ i <= n
    BY <2>1 DEF IInv, PlaceInv, Starting
  <2>3. Left = 2 + n * PerTask /\ Left' = 1 + (n - 1) * PerTask + PerTask
    BY <2>1, <2>2 DEF Left, LeftOfTask, Deliberating, PerTask
  <2>4. /\ (n - 1) * PerTask \in Nat
        /\ ((n - 1) + 1) * PerTask = (n - 1) * PerTask + PerTask
    <3>1. n - 1 \in Nat
      BY <1>1, <2>2
    <3> QED
      BY <1>1, <3>1, TasksTake
  <2>5. (n - 1) + 1 = n
    BY <1>1
  <2> QED
    BY <1>1, <2>3, <2>4, <2>5
<1> QED
  BY <1>3, <1>4, <1>5

\* The calls and the files of one task bring its end nearer ...
LEMMA TaskSteps ==
  ASSUME IInv, IInv',
         \/ Haft \/ (\E ok \in BOOLEAN : Panelist(ok) \/ Synthesize(ok))
         \/ (\E f \in Artifacts : Artifact(f))
  PROVE  /\ pc \in Deliberating \cup {"artifacts"} /\ pc' \in Deliberating \cup {"artifacts"}
         /\ n' = n /\ i' = i
         /\ LeftOfTask' < LeftOfTask
<1>1. /\ Panel \in Nat /\ seat \in 1 .. (Panel + 1)
      /\ pc = "panel" => seat <= Panel
  BY PlanAssumption DEF IInv, LocalTypeOK, PlaceInv
<1>2. Cardinality(Missing) \in 0 .. 4 /\ Cardinality(Missing)' \in 0 .. 4
  <2>1. Cardinality(Missing) \in 0 .. 4
    BY MissingCount
  <2>2. Cardinality(Missing)' \in 0 .. 4
    BY LaterRange
  <2> QED
    BY <2>1, <2>2
<1>3. CASE Haft
  <2>1. /\ pc \in {"frame", "explore", "compare"} /\ pc' = AfterHaft(pc) /\ seat' = 1
        /\ n' = n /\ i' = i
    BY <1>3 DEF Haft, locals
  <2>2. \/ pc = "frame" /\ pc' = "explore"
        \/ pc = "explore" /\ pc' = "compare"
        \/ pc = "compare" /\ pc' \in {"panel", "artifacts"}
    BY <2>1 DEF AfterHaft
  <2> QED
    BY <1>1, <1>2, <2>1, <2>2 DEF LeftOfTask, PerTask, Deliberating
<1>4. CASE \E ok \in BOOLEAN : Panelist(ok)
  <2>1. /\ pc = "panel" /\ pc' \in {"panel", "synthesize"} /\ seat' = seat + 1
        /\ n' = n /\ i' = i
    BY <1>4 DEF Panelist, locals
  <2>2. pc' = "panel" => seat + 1 <= Panel
    BY <1>1, <1>4, <2>1 DEF Panelist
  <2> QED
    BY <1>1, <2>1, <2>2 DEF LeftOfTask, PerTask, Deliberating
<1>5. CASE \E ok \in BOOLEAN : Synthesize(ok)
  <2>1. pc = "synthesize" /\ pc' = "artifacts" /\ n' = n /\ i' = i
    BY <1>5 DEF Synthesize, Goto, locals
  <2> QED
    BY <1>2, <2>1 DEF LeftOfTask, Deliberating
<1>6. ASSUME NEW f \in Artifacts, Artifact(f)
      PROVE  /\ pc = "artifacts" /\ pc' = "artifacts" /\ n' = n /\ i' = i
             /\ Cardinality(Missing)' = Cardinality(Missing) - 1
  <2>1. /\ pc = "artifacts" /\ pc' = "artifacts" /\ n' = n /\ i' = i /\ plan' = plan
        /\ artifact[i][f] # plan
        /\ artifact' = [artifact EXCEPT ![i][f] = plan]
    BY <1>6 DEF Artifact, locals
  <2>2. i \in Tasks /\ artifact \in [Tasks -> [Artifacts -> 0 .. MaxPlans]]
    BY <2>1, PlanAssumption DEF IInv, SlugTypeOK, LocalTypeOK, PlaceInv, Tasks
  <2>3. \A g \in Artifacts : artifact'[i][g] = IF g = f THEN plan ELSE artifact[i][g]
    BY <2>1, <2>2
  <2>4. Missing' = Missing \ {f} /\ f \in Missing
    BY <2>1, <2>3 DEF Missing
  <2> QED
    BY <2>1, <2>4, MissingCount
<1>7. CASE \E f \in Artifacts : Artifact(f)
  BY <1>2, <1>6, <1>7 DEF LeftOfTask, Deliberating
<1> QED
  BY <1>3, <1>4, <1>5, <1>7

\* ... and with it that of the job.
LEMMA TaskAdvances ==
  ASSUME IInv, IInv',
         \/ Haft \/ (\E ok \in BOOLEAN : Panelist(ok) \/ Synthesize(ok))
         \/ (\E f \in Artifacts : Artifact(f))
  PROVE  Left' < Left
<1>1. /\ pc \in Deliberating \cup {"artifacts"} /\ pc' \in Deliberating \cup {"artifacts"}
      /\ n' = n /\ i' = i
      /\ LeftOfTask' < LeftOfTask
  BY TaskSteps
<1>2. LeftOfTask \in Int /\ LeftOfTask' \in Int
  <2>1. LeftOfTask \in Int
    BY <1>1, LeftOfTaskRange
  <2>2. LeftOfTask' \in Int
    BY <1>1, LaterRange
  <2> QED
    BY <2>1, <2>2
<1> DEFINE before == (n - i) * PerTask
<1>3. Left = 1 + before + LeftOfTask /\ Left' = 1 + before + LeftOfTask'
  BY <1>1 DEF Left, Deliberating, PerTask
<1>4. before \in Int
  BY PlanAssumption DEF IInv, LocalTypeOK, PerTask
<1> HIDE DEF before
<1>5. \A k, later, now \in Int : later < now => 1 + k + later < 1 + k + now
  OBVIOUS
<1>6. 1 + before + LeftOfTask' < 1 + before + LeftOfTask
  BY <1>1, <1>2, <1>4, <1>5, Zenon
<1> QED
  BY <1>3, <1>6

\* The end of a task is the beginning of the next one, or of the end.
LEMMA NextTaskAdvances ==
  ASSUME IInv, TaskDone
  PROVE  Left' < Left
<1>1. /\ pc = "artifacts" /\ i' = i + 1 /\ n' = n
      /\ pc' = IF i = n THEN "commit" ELSE "frame"
  BY DEF TaskDone, locals
<1>2. /\ n \in Nat /\ i \in Nat /\ i <= n /\ PerTask \in Nat
      /\ LeftOfTask \in Nat /\ 1 <= LeftOfTask
  BY <1>1, PlanAssumption, LeftOfTaskRange DEF IInv, LocalTypeOK, PlaceInv, PerTask
<1>3. Left = 1 + (n - i) * PerTask + LeftOfTask
  BY <1>1 DEF Left, Deliberating
<1>4. CASE i = n
  <2>1. Left' = 1 /\ (n - i) * PerTask = 0
    BY <1>1, <1>2, <1>4 DEF Left, Deliberating
  <2> QED
    BY <1>2, <1>3, <2>1
<1>5. CASE i # n
  <2>1. Left' = 1 + (n - (i + 1)) * PerTask + PerTask
    BY <1>1, <1>5 DEF Left, LeftOfTask, Deliberating, PerTask
  <2> DEFINE after == n - (i + 1)
  <2>2. after \in Nat /\ n - i = after + 1
    BY <1>2, <1>5
  <2> HIDE DEF after
  <2>3. after * PerTask \in Nat /\ (after + 1) * PerTask = after * PerTask + PerTask
    BY <1>2, <2>2, TasksTake
  <2>4. Left = 1 + (after * PerTask + PerTask) + LeftOfTask
    BY <1>3, <2>2, <2>3
  <2>5. Left' = 1 + after * PerTask + PerTask
    BY <2>1 DEF after
  <2> QED
    BY <1>2, <2>3, <2>4, <2>5
<1> QED
  BY <1>4, <1>5

\* Planning goes on to its end, in 5 + MaxTasks * (9 + Panel) steps at most for a job,
\* whatever fails in it and in whatever order the files of a task are written:
\* PlanEnds needs no more than that some step of the job is taken, which is the
\* fairness it assumes.  Only another job starts again.
THEOREM PlansAdvance == Spec => [][Advances]_vars
<1> DEFINE Bounded == Left \in 0 .. (5 + MaxTasks * PerTask) /\ (Left = 0 <=> pc = "idle")
<1>1. IInv => Bounded
  BY LeftRange
<1>2. IInv /\ IInv' /\ Bounded /\ Bounded' /\ [Next]_vars => [Advances]_vars
  <2> SUFFICES ASSUME IInv, IInv', Bounded, Bounded', Next PROVE Advances \/ UNCHANGED vars
    OBVIOUS
  <2>1. /\ Left \in 0 .. (5 + MaxTasks * PerTask) /\ Left' \in 0 .. (5 + MaxTasks * PerTask)
        /\ Left = 0 <=> pc = "idle"
    BY DEF PerTask
  <2> HIDE DEF Bounded
  <2>2. Left \in Int /\ Left' \in Int
    BY <2>1, PlanAssumption DEF PerTask
  <2>3. Step => Left' < Left
    <3>1. NoModels \/ HaftFails \/ Commit \/ StoreFails => pc # "idle" /\ pc' = "idle"
      BY DEF NoModels, HaftFails, Commit, StoreFails, Return, Storing
    <3> QED
      BY <3>1, EndAdvances, OpenAdvances, TaskAdvances, NextTaskAdvances DEF Step
  <2>4. CASE Step
    BY <2>1, <2>2, <2>3, <2>4 DEF Advances
  <2>5. CASE Crash
    <3>1. Left' < Left
      BY <2>5, EndAdvances DEF Crash
    <3> QED
      BY <2>1, <2>2, <3>1 DEF Advances
  <2>6. CASE KillJob
    <3>1. Left' = Left
      BY <2>6 DEF KillJob, slug, locals, Left, LeftOfTask, Missing, PerTask
    <3> QED
      BY <2>1, <2>2, <2>3, <3>1 DEF Advances
  <2>7. CASE \E withFusion, forced \in BOOLEAN : Start(withFusion, forced)
    <3>1. pc = "idle" /\ pc' = "init" /\ plan' = plan + 1
      BY <2>7 DEF Start, Goto
    <3> QED
      BY <2>1, <2>3, <3>1 DEF Advances
  <2>8. CASE Idling
    BY <2>8 DEF Idling
  <2> QED
    BY <2>4, <2>5, <2>6, <2>7, <2>8 DEF Next
<1> HIDE DEF Bounded
<1> QED
  BY <1>1, <1>2, Inductive, PTL DEF Spec
=============================================================================
