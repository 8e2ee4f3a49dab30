# A TLA+ model of local-fusion

local-fusion is an MCP server in Go that runs multi-model pipelines (plan, code,
review, judge) as asynchronous jobs for coding agents. An agent submits a job,
polls it, may cancel it, and reads the artifacts the job leaves in a directory
per *slug*. This directory holds TLA+ modules of the program, TLC configurations
that check them on small instances, and proofs checked by TLAPS. Paths below are
relative to the repository.

## 1. Inventory

| Component | Source | State | Operations | Modelled in |
|---|---|---|---|---|
| Job engine | `internal/jobs/runner.go`, `context.go`, `jobs.go` | active and recent maps, worker semaphore, per-job context, WaitGroup | Submit, run, finish, Cancel, Close, Get; the stage's Progress, SetPartial, StartModelCall, AddTokens, RecordFailure | `Runner`, against `JobBoard` |
| Job persistence | `internal/store/jobs.go` | one JSON file per job key | Persist, LoadJob, LoadJobs | `Runner`, `JobTools` |
| Job tools | `internal/mcp/tools.go`, the submit part of the stage tools | none of its own | lf_job, lf_cancel, submit answers, lf_status | `JobTools` |
| Stage tools, judge-retry ledger | `internal/mcp/tools_stages.go`, `tools_plan.go`, `tools_coder.go` | `judge_attempts` in the manifest; `budgetErr` of a job | ensureBrief, judgeAttempts, bumpJudgeAttempts, the job wrappers | `JudgeLedger`, `LedgerJobs`, `BudgetedCaller` |
| Artifact store | `internal/store/store.go` | slug directory, manifest.json, task artifacts, verdicts, proposals | InitSlug, Read/WriteManifest, WriteTaskArtifact(s), WriteProposed | `JudgeLedger`, `PlanTask` |
| Judge stage | `internal/engine/judge` | locals of a round | Task with NormalizeTestReport, ParseScores, AggregateResults, both gates | `JudgeTask` |
| Coder-fusion stage | `internal/engine/coder` | locals of a job, two goroutines | Task with runCoder, runEvaluator, runLead, ParseFileBlocks | `CoderTask` |
| Plan stage | `internal/engine/plan` | locals of a job | feature with Decompose, RunHaft, RunTLPanel, SynthesizePlan | `PlanTask` |
| Review stage | `internal/engine/review`, its handler in `tools_stages.go` | locals of a job | Task | `ReviewTask`; as a manifest writer in `JudgeLedger` |
| Provider client | `internal/engine/providers/client.go` | latency counters | CallModel | `BudgetedCaller`, as seen by a stage |
| Provider registry, hot reload | `internal/engine/providers/config.go`, `internal/mcp/tools_reload.go` | an atomic pointer to a configuration | ResolveNamed, ResolveJudges, ResolveRoleModels, CoderFusionBlock, NewHolder, Load, Reload | `Registry` (the selection), `ReviewTask` (the holder) |
| Charters, transport, prompt templates, scheduler, version, spikes | see `PROJECT.json` | | | no |

### How the parts interact

A tool handler runs in a goroutine of the MCP library. A stage tool checks its
arguments, may touch the manifest (ensureBrief, the ledger check), and calls
`Runner.Submit` with a closure; Submit registers the job under one mutex and
starts a goroutine, which waits for a slot of a channel used as a semaphore, runs
the stage and finishes. The stage reports through its `JobContext`, calls models
through `budgetedCaller`, and writes the store. The runner and the store share
nothing but the job files; jobs of one slug share its manifest and directory,
**without a lock**. A restarted server reads nothing back: the runner begins
empty and lf_job falls back on the files.

### What is hard, and what makes each part right

* *Job engine.* Several lock regions per operation; three writers of one job file
  outside every lock or under different ones; four ways to kill a context
  (lf_cancel, a limit, the wall clock, shutdown) that race with the return of the
  stage. Right means: one run per key, no more runs than workers, no success on a
  dead context, a named cause for a cancellation, a lifecycle that only moves
  forward in memory and in each file, and everything ends and drains.
* *Job tools.* A session polls and lists across resubmits by other sessions and across
  restarts; a handler asks the runner and then the files. Right means: answers move
  forward, a handed-out id stays known, and a job listed twice can be told apart.
* *Ledger.* Whole-file read-modify-write by five kinds of writers; check before
  submit, count at the end of the job; crashes in between. Right means: never
  more than the rounds that were judged; exact where nothing was overwritten.
* *Judge.* Rounding twice before a threshold; two gates in order; judges that
  fail or answer nonsense. Right means: PASS and FAIL are earned, a red test is
  the reason that is given, and verdict.md tells whether the round succeeded.
* *Coder.* Four models that each can fail; two of them concurrently. Right means:
  the files proposed are those of the rung of the degradation ladder the job is
  on, and one loss never costs the job.
* *Plan.* A long sequence of calls and writes, each of which can fail, over a slug
  that may have been planned before. Right means: what the manifest lists is
  there and comes from the plan that listed it; a plan without force loses nothing.
* *Review.* Reviewers fail one by one, also for want of budget. Right means: the job
  succeeds if and only if it has left its own report.
* *Registry and reload.* A configuration is swapped under queued and running jobs, by
  handlers that may overlap, from a file that may be broken. Right means: a panel is
  the best one its configuration allows, a job keeps one configuration, and a bad
  file changes nothing.
* *Budgets.* Charged before compared, by concurrent goroutines. Right means: no
  call beyond the cap is sent, and the default caps are enough.

`PROJECT.json` lists every hazard at its line with the properties aimed at it.

## 2. The modules

```
JobBoard <--implements-- Runner <--EXTENDS-- JobTools <-- MCJobTools
                           ^  ^-- MCRunner       ^
                           `----- RunnerProofs <-`-- ToolsProofs
BudgetedCaller <--EXTENDS-- JudgeTask (MCJudgeTask), CoderTask, PlanTask
BudgetedCaller, Registry <--EXTENDS-- ReviewTask (MCReviewTask)
             `- CallerProofs <--EXTENDS-- JudgeProofs, CoderProofs, PlanProofs, ReviewProofs,
                                          each of which EXTENDS its stage
JudgeLedger <-- MCJudgeLedger
         ^--EXTENDS-- LedgerJobs <-- LedgerProofs
Runner <--INSTANCE------'
```

### JobBoard (abstract)

What a poller is promised: per key a current attempt whose status goes
`queued -> running -> done | failed | cancelled | budget_exhausted` (or from queued
straight to cancelled), a terminal attempt that is never touched again, and a next
attempt only after it. With `BoardFairness`, whatever is on the board is settled.

### Runner (core)

A run `<<k, a>>` is the goroutine of attempt `a` of key `k`. Every lock region, and
every read of `runCtx.Err()`, is one action, so everything interleaves wherever
the code holds no lock. The program counter follows the code:

| `pc` | where the goroutine is | action that leaves it |
|---|---|---|
| queued | `run`, at the select | Acquire, AbortQueued |
| slotted | holds a slot | SetRunning |
| started | status set | PersistRunning |
| stage | in `fn(runCtx, jc)` | Return (Narrate, Trip, Deadline meanwhile) |
| returned, checked | at the first, second read of `runCtx.Err()` | CheckDead, CheckDeadline |
| finishing | `finish`, first region (r.mu) | ReadCancelled |
| deciding | second region (jc.mu) | Decide |
| decided | third region (r.mu) | Publish |
| published | before `r.persist` | PersistTerminal |
| exiting | deferred calls | Exit |

`active`, `recent`, `sem` are the runner's fields; `status`, `fp` those of the job;
`ctx`, `err`, `explicit`, `cancelled` the context and the locals; `disk` is what the
store last wrote for the key; `delivering` holds the runs that `Cancel` has flagged
and whose `cancel()` is still to come. `life` is the process (`open`, `stopping` once
`Close` has called `stop()`, `closed` once its `wg.Wait` has returned).
`ctxAtReturn` is history: what the context was when the stage returned. The three
calls of a stage that can cancel its context are one action, `Trip`, because the
runner sees of them only the sentinel; the counting behind the step cap is in
`BudgetedCaller`. The result, the partial output and the timestamps of a job are
left out: no property is about them. What only a finished goroutine referred to is
reset in `Exit`, which keeps the state space small and hides nothing, as nothing
reads it any more.

### JobTools

`Runner` plus one observed agent session that makes a call at a time and remembers,
per job, the snapshot behind the last answer (`told`; `fresh` holds the keys of
which the runner of the present process gave it). Other sessions act through the
steps of `Runner`. A handler that asks the runner and then the store takes a step for
each: findJob two, lf_status one for `List` (a single lock region), one for the names
in the directory and one for each file. `Listed` is what lf_status shows of a key in the
order of submission, which is how it sorts; the times of submission are taken to
order as the attempts do. `Restart` is a crash, or a regular exit, followed by a
start: only the job files and the memory of the agent survive.

### JudgeLedger

One slug: its directory, its manifest (which tasks it lists, with what
`judge_attempts`), the briefs, and everybody who reads and writes them. `copy` is the
manifest a writer has read and will write back whole. `rounds` (history) counts the
judge rounds completed, and `spoiled` (history) the reasons why the ledger may
differ from it: `overwritten` (a manifest was written over a newer one, or planning
replaced one that listed tasks) and `uncounted` (the judged task is in no manifest, or
a crash or a failed write came between verdict and count). Every write may fail: in
ensureBrief that ends the tool call, in a job it is only logged, or not even that. A
job is its stage function, at most one per key at a time; that the runner's jobs are such
jobs is proved of `LedgerJobs`. `Submit` may start nothing although no stage of the key is at work, since
the runner's key is active until the outcome is published, and a closed runner starts nothing.
Task statuses are not modelled: writing them matters only as a write of the manifest.

### LedgerJobs

`JudgeLedger` and `Runner` together: the keys of the slug in the hands of one runner.
What each step is for the two modules:

| Step | `JudgeLedger` | `Runner` |
|---|---|---|
| `Handler`, `Stage` | a step of a tool call, of a stage | nothing |
| `SubmitNew` | `Submit`, the job begins | `SubmitNew` |
| `SubmitActive` | `Submit`, the job is left alone | a look at `active` |
| `AbortQueued` | the job ends before it did anything | `AbortQueued` |
| `Return` | nothing: the job is idle already | `Return`, with any error |
| `Goroutine`, `Control` | nothing | every other step of `Runner` |
| `Restart` | `Crash` | all is lost but the job files |

A stage begins when its goroutine has a worker, and may be cancelled, or killed by a
limit, at any step of it: a stage that has seen its context die is one that fails. Which error
it returns is not tied to how it ended, which allows more than the code does. What
`JudgeLedger` assumed of the runner becomes its theorem (`JobsImplementLedger`), and so does
what its polite agents rely on (`OverIsOver`): whoever is told that a job is over finds
all its writes in the slug. The module has no run of its own: an
instance of one agent, one task, one worker, two attempts and one fault already has a million
states, and shows less than the theorems, which hold for every instance.

### BudgetedCaller

What a stage can tell of a model call: charged first, compared then, sent only if
within the cap; it answers or it does not, and it never raises. The stage modules
extend it. `dead` is the job context, which a tripped cap, lf_cancel, the wall clock
or a shutdown kills. `StageErr` is the rule of the stage wrappers: the budget
sentinel is returned only when the stage itself failed.

### JudgeTask, CoderTask, PlanTask

One module per stage, one action per model call or store operation, every call with
all its outcomes.

* `JudgeTask`: an answer is the sum of its three scores, an integer with `Unit` of them to a
  hundredth. The pattern of a score takes any number of decimals (`judge.go:190`), and so
  does `Unit`, any number but 0. The answers of a round are added up as they arrive
  (`Added`), which is the loop of AggregateResults spread over the round: the verdict takes
  only their number and the sum of their averages. `pyRound2`, of a judge's average and of the
  mean of all, gives the nearest hundredth, and either of two when it is half way: in the code
  that depends on the last bit of a float and, if the float is exactly half way, on the
  even digit. (7.985, as the average of three scores of three decimals, is rounded to 7.98
  or to 7.99, depending on the three.) What the model leaves out is that a float of that
  size cannot tell a number from half way that is off by less than about 1e-14: with scores
  of that many decimals `PassEarned` and `FailEarned` hold up to that error. An `exit_code` is a JSON
  value of some kind, a number in hundredths.
* `CoderTask`: an output is usable FILE blocks, prose, or a path that fails
  the parse, which is all that `ParseFileBlocks` decides. `config` is the set of roles
  that resolve to a model; it is chosen in `Init`.
* `PlanTask`: a file holds the number of the plan that wrote it, so that a later,
  forced plan over the same directory shows. The four artifacts of a task are
  written in any order, as the code iterates over a map. Tasks keep their directory
  from one plan to the next.

### Registry, ReviewTask

`Registry` has no state. A configuration is a record of what providers.yaml decodes to; the
keys of models are positions, because their order is all that the selection uses of
their names. `ResolveNamed`, `CoderFusionBlock`, `ResolveJudges` and `ResolveRoleModels` follow
`config.go` with its exceptions: a provider that the file does not mention is enabled,
except to `ResolveNamed`; an explicit panel is judged by the score for its very role and
ignores its provider restriction; a negative number of seats panics. Candidates are a
set of records that hold their place in the list they come from, and `sort.SliceStable` is
what it promises: whoever scores more comes first, and whoever comes first in the list
among equals. Scores are integers, since only comparisons of them matter (a NaN is
excluded by `IsConfig`).

`ReviewTask` is lf_review over a holder. `file` and `broken` are the text on the volume
(`Contents` names the texts, and what they decode to), `held` the pointer; `Reloaders` are the
handlers of lf_reload that may be at work together, each of which reads first and
stores then. `handler` is the configuration that the handler of lf_review has taken and
`cfg` the one in the closure of the job; `inForce` (history) collects what was held
between the two. The runner is reduced to one job that is queued, run, resubmitted
and killed, as `Runner` shows it. A panic in the job ends the process: the runner has no
`recover`. The review job is the one shown with the holder; the others take the
configuration by the same two lines of their handlers.

Each module has a section of *mutations*: operators that are no part of the
specification and stand for plausible bugs (a dropped guard, a swapped order). Every
property of every passing run has one that violates it (`PROJECT.json`, `mutants`).

## 3. The runs

| Run | Instance | Shows |
|---|---|---|
| `runner_two_keys` | 2 keys, 1 worker, 1 attempt each, wall clock, both limits, fair | worker bound; no success on a dead context; lf_cancel is named; no file left that claims an unfinished job; every job ends if timers fire; lf_cancel ends what it flags and Close drains, also if they do not; `JobBoard` with its liveness is implemented |
| `runner_attempts` | 1 key, 2 attempts, writes may fail | one run per key; files tell published outcomes only and move forward; `JobBoard`'s safety; the inductive invariant |
| `runner_outlive` | 1 key, 2 attempts | **violated**, finding 1 |
| `tools_session` | 1 key, 2 fingerprints, 2 attempts, 1 restart | a handed-out id is never unknown to a tool; what the runner answers a session only moves forward; a job listed twice can be told apart |
| `tools_attempts` | 1 key, 2 attempts, 1 restart | **violated**, finding 2 |
| `ledger_calls` | 2 impatient agents, 1 task, judge, coder and plan, 1 plan, 2 faults (crashes or failed writes), 5 rounds | never overcounted; exact where nothing was lost; at most one more round per call in flight; a call that passes a brief finds its task listed |
| `ledger_third` | 1 patient agent, 2 tasks, judge and review | **violated**, finding 3 |
| `judge_round` | 2 judges, scores around 8.0, up to 2 criteria, every kind of report, cap 3 | how a verdict comes about, what a round costs, that it ends |
| `coder_ladder` | every configuration of roles, cap 5 | the ladder, its cost, also for a role that does not resolve; no call beyond the cap |
| `plan_job` | 2 plans, 2 tasks, panel of 2, cap 9, 1 fault | what is listed is planned; coherence; no loss without force; that it ends |
| `review_reload` | 4 texts of the file, 1 reload at a time, panel of up to 2, cap 1; a catalog of 15,552 registries of 3 models | panels are the best possible; a job keeps its configuration; a failed reload changes nothing; success means a report; the file that was reloaded is used |
| `reload_race` | the same with 2 overlapping reloads | **violated**, finding 4 |

### The bounds and why they are enough

* `Keys`, `Workers`: two keys for one worker is the smallest competition for a slot;
  keys are otherwise independent. `MaxAttempts = 2`: an attempt meets only its
  predecessor, since a third cannot begin before the second is published. The proofs
  hold for every value of all three.
* `MaxCrashes = 1`, `MaxFaults = 1`: nothing but the files survives a crash, so a second
  one begins like the first with other files. The ledger has `MaxFaults = 2`, a failed
  write and a crash after it.
* `MaxRounds = 5`: two rounds, one for each of two agents' calls in flight, and one
  beyond the bound that is claimed. `MaxPlans`: a replan over a plan in `PlanTask`, and
  one plan (forced or not) that races with judge jobs in the ledger.
* `Unit = 10`, `Sums = {23955, 23976, 23985, 24015, 24020, 30000}`: averages half way between
  two hundredths (7.985, 7.995, 8.005), one that rounds down to 7.99, one just above 8.0, and full
  marks. Two judges at 7.985 and 7.995 reach the floor of `PassEarned`, a mean of 7.99 that
  passes, and two at 7.995 and 8.005 the exception of `FailEarned`, a mean of 8.0 that
  fails. `MaxCriteria = 2`: a coverage that is shorter than, as long as and longer
  than the criteria.
* The step caps 3, 5 and 9 lie between the cheapest success and the worst case of the
  stage, so that the cap trips in the middle and jobs also succeed under it.
* The texts of providers.yaml: two panels that differ, one without pipelines, one with a
  negative number of seats; each can also be broken. One step cap below the size of
  the larger panel. The catalog crosses six kinds of model (each role, both, none of
  them; scores for the role, another, none; a provider that is listed or not) with
  disabled providers, explicit panels with unknown and ineligible models, a
  restriction and every kind of number of seats.
* Symmetry is used for fingerprints and agents, in runs without liveness only.

### Fairness

`Runner!Fairness`: the Go scheduler runs what can run (WF of a goroutine's own steps
and of `cancel()` after the flag); a channel serves blocked senders in order, so a
goroutine that waits for a slot again and again gets one (SF of `Acquire`); a stage whose context is dead returns, which
`StageFunc`'s comment demands and the stages do, since every wait of theirs is a provider
call under that context. That timers fire (`TimersFire`, WF of
`Deadline`) is a premise of `EveryJobEnds` and of the liveness in `Lifecycle` only: `CancelEnds`
and `CloseDrains` hold of jobs without a wall-clock budget as well. **Not assumed**: that a stage with a live context returns, or
that a client submits, cancels or stops the server. In the stage modules a provider
call ends, at the latest by its timeout, and the rest is computation (WF of the
stage's steps); a kill is never forced.

## 4. The proofs

TLAPS checks every theorem below for all values of the constants that the named
assumptions allow, bounds such as `MaxAttempts`, `MaxRounds` or `MaxCrashes` included. TLC
evaluates the assumptions in the runs. No proof uses any other assumption, except
where a theorem states it as its hypothesis. Every proof is built alike: an invariant `IInv` of
named parts, a lemma for each action or for a few actions alike, in it a step
for each part that they can disturb, and theorems that follow from `IInv`.
The invariant was checked with TLC on the instance of a run first.

### The job engine: RunnerProofs

`RunnerProofs.tla` is checked by TLAPS for every set of keys and fingerprints, every
positive number of workers and attempts, with and without a wall clock, limits and
failing writes (`RunnerAssumption`).

| Theorem | Property |
|---|---|
| `TypeCorrect` | the type invariant `TypeOK` |
| `Inductive` | `IInv` |
| `IdempotentSubmit` | `OneRunPerKey` |
| `WorkerBound` | `BoundedWorkers` |
| `KillSwitchIntegrity` | `KillSwitch` |
| `CancelClassified` | `CancelIsNamed` |
| `TruthfulFiles` | `DiskTruthful` |
| `NoFileLeftBehind` | `NoOrphanFile` |
| `FilesMoveForward` | `DiskForward` |
| `ImplementsBoard` | `LifecycleSafety` |
| `NoKillIsLost` | `KillsArrive`, the safety behind `CancelEnds` and `CloseDrains` |
| `NoSlotIsLost` | `SlotsComeBack`, the safety behind `EveryJobEnds` |
| `GoroutinesAdvance` | a goroutine never goes back to an earlier place |
| `PatientResultsOutlive` | `ResultsOutlive`, of patient clients and if writes succeed |

None of the properties is inductive as it stands. `IInv` strengthens them, in named
parts that each say what the code relies on:

* `RegistryInv`: `active` holds exactly the runs whose outcome is not published, and
  attempts are numbered without gaps. Without it a second run of a key could not be
  excluded.
* `StatusInv`: the job's status follows the goroutine; a run that skips `running` does so
  only because it was cancelled while queued. The refinement needs it.
* `SlotInv`: whoever executes holds a slot, and there are no more slots than workers.
  It differs from the bound because a run keeps its slot until it exits.
* `KillInv`: a dead context stays dead until the checks, and no success survives the
  first check.
* `CancelInv`: before a limit trips or the server stops, a cancelled context means that
  the flag is already set, hence `finish` reads it.
* `DiskInv`: a file names a run that has begun; if it is not terminal and writes succeed,
  that run is still to persist; if it is terminal, the run is published so.

The first five parts and `TypeOK` are `EngineInv`: they speak of the process alone, are preserved
without a look at the disk (`EngineStep`), and imply the first four properties
(`EngineSafe`). That is what makes them usable across restarts in `ToolsProofs`.

Each part has a lemma of its own, with a step for every action; an action that leaves
the variables of a part alone is dismissed at once. `BoundedWorkers` follows from `SlotInv` by the cardinality of a subset.
`FilesMoveForward` uses a lemma that a persisted snapshot of a run never precedes
what its file already says. `ImplementsBoard` rests on `BoardStep`, which maps `board` to what `Get` answers: SubmitNew
is Enqueue, SetRunning is Start, Decide is Conclude or Abandon, and every other step
stutters, Publish included, because there `recent` takes over exactly what `active` showed.

The last four theorems are what the liveness properties rest on besides fairness, and
what finding 1 leaves of the sentence it refutes. `KillsArrive`: whom lf_cancel has flagged has
a dead context or is still in `delivering`; a tripped limit has killed the context; after `stop()`
every context is dead, also that of a job submitted during the shutdown, and once
Close has returned no goroutine is left. It needs that a run which has not begun is not
flagged (`UnflaggedInv`). `SlotsComeBack`: whoever holds a slot is past the semaphore and has
its exit before it, so that a full semaphore always means somebody else who goes on;
it follows from `HolderInv`, the converse of `SlotInv`. `GoroutinesAdvance` orders
the places (`Rank`): what the fairness has to bring about is a bounded number of steps per
goroutine. `PatientResultsOutlive` has a hypothesis about the clients: they submit a key anew when the
last write of the run before is over (`Patient`). Then the run about to write its
outcome is the latest of its key (`SettledInv`), and results outlive the request.

### The job tools: ToolsProofs

`ToolsProofs` adds the session, the files and the restarts (`RunnerAssumption`, `CrashAssumption`:
any number of crashes).

| Theorem | Property |
|---|---|
| `ToolsInductive` | `ToolsInv` |
| `ToolsTypeCorrect` | the type invariant `ToolsTypeOK` |
| `SafeInEveryProcess` | `OneRunPerKey`, `BoundedWorkers`, `KillSwitch`, `CancelIsNamed`, of every process |
| `StatusReadable` | `StatusUnambiguous` |
| `PollsMoveForward` | `PollForward` |
| `KnownJobsStayKnown` | `KnownStaysKnown`, if writes succeed (`~LossyDisk`) |
| `GoesOnInEveryProcess` | `KillsArrive` and `SlotsComeBack`, of every process |
| `AttemptsAreNewPerProcess` | a submit after a terminal answer answers a later attempt, within a process |

`ToolsInv` is `EngineInv` and

* `FreshInv`: what the present process has told the agent of a job is behind what `Get` answers
  now. `PollForward` alone is about two successive answers and says nothing of what
  the next one will be compared with.
* `CallInv`: a call goes to the store only for jobs of which this process has told the agent
  nothing. Without it an answer from an older file could follow one from memory.
* `KnownInv`: whatever the runner or the agent knows has a file, if writes succeed.
  `KnownStaysKnown` needs the runner's part of it, since Submit answers from memory.

Two facts carry the proof. `EngineMoves`: a step of the engine moves what `Get` answers
for a key forward or leaves it, which is `BoardStep` of `RunnerProofs` read per key. And
`EveryStepAnswers`: whichever tool is asked, an answer comes from the runner, from the file of a
job that this process has told nothing of, or is no answer (`Answer`). `DiskInv` is not part
of `ToolsInv`: after a restart the attempts begin again and the files of the old
process contradict it. That is finding 2 of section 5, seen from the proof;
`AttemptsAreNewPerProcess` is what remains of ADR-003.

### The ledger: LedgerProofs

`LedgerProofs` holds for every finite set of agents, every number of tasks, rounds,
plans and faults, any set of stages, and agents that await their judge jobs or
do not (`LedgerAssumption`).

| Theorem | Property |
|---|---|
| `Inductive` | `IInv` |
| `TypeCorrect` | the type invariant `TypeOK` |
| `NeverEscalatedEarly` | `NeverOvercounts` |
| `ExactUnlessSpoiled` | `LedgerExact` |
| `RoundsAreLimited` | `RoundLimit` |
| `BriefsAreListed` | `BriefIsListed` |
| `PoliteRoundsRefused` | `ThirdRoundRefused`, of polite agents while nothing is spoiled |
| `JobsInductive` | `IInv` and `JobsInv` of `LedgerJobs` |
| `JobsImplementLedger` | `Spec` of `JudgeLedger`, by `LedgerJobs` |
| `LedgerIsSafe` | `NeverOvercounts`, `LedgerExact`, `RoundLimit`, `BriefIsListed` of `LedgerJobs` |
| `OverMeansWritten` | `OverIsOver` of `LedgerJobs` |

The parts of its `IInv`:

* `CountInv`: neither the manifest on disk nor any copy in the hands of a writer claims more
  than is `Due`: the rounds judged, less the one that is still to be counted. The
  copies are the point, since any of them may become the manifest.
* `ExactInv`: while nothing is spoiled, the manifest claims all that is due, also in
  the middle of a round, when `LedgerExact` is silent.
* `LimitInv`: the rounds judged, the one at work, and the calls that have passed the check and
  not submitted yet are together within the limit and the number of agents that may be in
  flight. `RoundLimit` counts only the first of the three.
* `PoliteInv`: a polite agent judges a task alone. It is what removes the slack from `LimitInv`.
* `KeyInv`: who is where, and for which key.

Lemmas say once what reading, writing back, not writing back and replacing a manifest do to these
parts (`ReadKeeps`, `WriteKeeps`, `DropKeeps`, `ReplaceKeeps`), and what becomes of them when a round
is not counted (`RoundLost`), for whoever does it; the actions cite them.
`PoliteRoundsRefused` is the sentence of `tools_stages.go` that finding 3 refutes, with the
conditions under which it is true.

The last four are about the composition, for any number of attempts (`MaxAttempts \in Nat`,
which is all of `RunnerAssumption` they need; so any number of workers and any limits). Their
`JobsInv` relates the two modules: a run is registered exactly if its key is active with its attempt;
the job of a key that is not active is idle; a goroutine that has not reached its stage has a job
that has not begun; one that is past it has a job that is idle, and only then a
terminal status. `JobsStep` shows that every step of `LedgerJobs` preserves it and
is a step of `JudgeLedger` or a stutter, `InductiveStep` that `IInv` goes through those; the
properties of the ledger then carry over without being proved again.

### A judge round: JudgeProofs

`JudgeProofs` holds for every positive number of judges, every set of scores and of
reports, and every step cap (`JudgeAssumption`, `CapAssumption`).

| Theorem | Property |
|---|---|
| `Inductive` | `IInv` |
| `TypeCorrect` | the type invariant `TypeOK` |
| `PassIsEarned` | `PassEarned` |
| `FailIsEarned` | `FailEarned` |
| `RedComesFirst` | `RedIsTheReason` |
| `VerdictsAreSuccesses` | `VerdictIffSuccess` |
| `TwoCallsPerJudge` | at most two calls per judge |
| `JudgeSpendWithinCap` | `SpendWithinCap` |
| `RoundsAdvance` | a round is over in `2 * Judges + 2` steps, the safety half of `RoundEnds` |

Arithmetic carries the first two. `RoundIsClose`: rounding errs by half a hundredth at
most, whichever way a tie goes. `AddedIsClose` adds that up over the judges, `MeanIsClose`
says it of the mean: one that is rounded to 8.00 was at least 7.995 before, and one that is rounded
to less at most that. `MeanDecides` puts them together: a PASS has an exact mean of 7.99 at
least, the two halves being a whole hundredth; a FAIL has one below 8.0, or 8.0 and rounded
averages with a mean of exactly 7.995. No better bound is true: TLC reaches both, and so does
the code (section 5). `TruncateIsZero` says which exit codes `int(x)` turns green. `SumInv` keeps the sums
close while the answers arrive, `TurnInv` relates whose turn it is to the answers and the
calls there may be, `OpenInv` keeps the verdict empty until the end. `GatesDecide` is the
lemma about the two gates in their order. `RoundsAdvance` is about a measure, `Left`: every
step of the round makes it smaller, no other step makes it larger, and it is 0 exactly
when the round is over.

### Planning: PlanProofs

`PlanProofs` holds for every number of tasks, panelists, plans and faults, and every step cap
(`PlanAssumption`, `CapAssumption`).

| Theorem | Property |
|---|---|
| `Inductive` | `IInv` |
| `TypeCorrect` | the type invariant `TypeOK` |
| `ListedArePlanned` | `ListedIsPlanned` |
| `KillsAreCoherent` | `KillIsCoherent` |
| `PlansAreAffordable` | `DefaultCapSuffices` |
| `PlanSpendWithinCap` | `SpendWithinCap` |
| `PlannedSlugIsSafe` | `NoForceNoLoss` |
| `PlansAdvance` | a job is over in `5 + MaxTasks * (9 + Panel)` steps, the safety half of `PlanEnds` |

The parts of its `IInv`: `PlaceInv` says which task and which panelist are at work; `DoneInv` that the
tasks before it carry files of this plan, which is what the manifest will list;
`ManifestInv` that the job works over an empty manifest, and got there without loss unless
forced; `CoherentInv` that only the task whose files are being written may mix two plans; `CostInv`
what has been spent up to each place (`Spent`), since the bound on the whole
says nothing about the steps. `SpentFits` and `SpentNext` are its arithmetic. The measure of
`PlansAdvance` counts the tasks still to come, and within a task the panelists and the
files that have not been written (`Missing`), whose order is open.

### A coding job: CallerProofs, CoderProofs

`CallerProofs` has the lemmas about one budgeted call that any stage can cite: what is sent has
been charged, and stays within the cap. `CoderProofs` holds for every step cap
(`CapAssumption`) and every set of the roles of a coding job that may resolve
(`RoleAssumption`).

| Theorem | Property |
|---|---|
| `Inductive` | `IInv` |
| `TypeCorrect` | the type invariant `TypeOK` |
| `CoderSpendWithinCap` | `SpendWithinCap` |
| `CoderProposesLadder` | `ProposesLadder` |
| `CoderOneLossIsSurvived` | `OneLossIsSurvived` |
| `CoderMisconfiguredCostsFour` | `MisconfiguredCostsFour` |
| `CoderDefaultCapSuffices` | `DefaultCapSuffices` |
| `CodingJobsAdvance` | a job is over in ten steps, whatever fails in it |

The parts of its `IInv`: `RouteInv` says what must have resolved for the job to be where it is,
and that both coders have answered before the evaluator is asked; without it the
rung of the ladder could not be told from the place in the code. `CostInv` counts what each
coder's goroutine has paid for (`Paid`) while they run concurrently, and adds one for
the evaluator and two for the lead; the bound of seven alone is not inductive.
`LadderInv` says that a chosen source is the rung already before it is written.

### Review and reload: ReviewProofs

`ReviewProofs` holds for every set of contents and every catalog of registries
(`ReviewAssumption`: the nil configuration is no content, contents and registries are
configurations, and those of the catalog have the pipeline), every way of editing the file, any number of reloads at once, and every cap.

| Theorem | Property |
|---|---|
| `Inductive` | `IInv` |
| `ReviewConfigInForce` | `ConfigInForce` |
| `ReviewGateStaysUp` | `GateStaysUp` |
| `ReviewReportIffSuccess` | `ReportIffSuccess` |
| `ReviewSpendWithinCap` | `SpendWithinCap` |
| `SerialReloadIsUsed` | `ReloadedIsUsed`, if there is one reload at a time |
| `PanelsAreBest` | `SelectionBest` |

Its `IInv` adds that a reload has read a configuration before it stores one (`ReloadInv`),
that a server that is down has neither reloads nor handlers (`DownInv`: whoever holds a
configuration lives), that what a handler has taken was in force since (`TakenInv`), and
that a report is there exactly from `Report` on (`ReportInv`). `SerialReloadIsUsed` adds
`FreshInv`: a read that no edit has overtaken is of the present contents, and one that an edit
has overtaken leaves no fresher reload behind. The second half is what two
overlapping reloads break: finding 4 is its counterexample.

`PanelsAreBest` is about what the selection yields from any registry. A stable sort puts a candidate
behind as many others as precede it; the lemmas on ranks say that this is a place for
each (`RankFollowsOrder`, `RankIdentifies`) and a candidate for each place (`RanksAreTaken`, by
counting), so that what `SortLinesUp` yields is all candidates, once each and in their order,
whatever finite set they come from. The first seats of it are then the best, from the
explicit panel (`ExplicitFound`) or from the role's models (`RoleFound`), with the fallbacks between
the two. `PanelInv`, inductive beside `IInv`, says that the panel of a job is the one its
configuration gives, and that the configuration has the pipeline and no negative number of seats.

### What is only model-checked

Everything temporal that needs fairness: `EveryJobEnds`, `CancelEnds`, `CloseDrains`, `Lifecycle`
with its fairness, `RoundEnds`, `PlanEnds`. Liveness is beyond the prover. What they need besides
fairness is proved: the safety of the refinement (`ImplementsBoard`), that no kill and no
slot is lost and no goroutine goes back (`NoKillIsLost`, `NoSlotIsLost`, `GoroutinesAdvance`), and
that every step of a round, a coding job or a planning job brings its end nearer
(`RoundsAdvance`, `CodingJobsAdvance`, `PlansAdvance`).

Every other invariant and action property that a passing run checks is a theorem.

## 5. Where the code and its texts disagree

Shown by a run:

1. `runner_outlive`. finish releases the key and persists afterwards without a lock
   (`runner.go:207`), so the late write of attempt 1 can replace the file of attempt 2,
   the terminal one included, against `jobs.go:71` ("results outlive both the request and
   the agent"). It takes a client that resubmits before that write: `PatientResultsOutlive`
   proves the sentence for the others.
2. `tools_attempts`. The attempt number comes from memory (`runner.go:95`): after a restart
   a resubmission is attempt 1 again and replaces the file of the attempt the agent
   has seen end, against ADR-003 ("recorded as a new attempt"). Within one process ADR-003 is
   right (`AttemptsAreNewPerProcess`).
3. `ledger_third`. Manifest writers overwrite one another's counts
   (`tools_stages.go:213-228`, `judge.go:569-583`, `review.go:182-194`), so a third judge round runs, against
   `tools_stages.go:193` ("a third is refused").
4. `reload_race`. `Holder.Reload` reads the file and then stores the pointer without a lock
   (`config.go:101`): of two overlapping lf_reload calls the one that has read the older
   file can store last, and stay, although the other has answered ok, against
   `docs/tools.md:181` ("new submissions use the reloaded config").

Met while modelling, visible in the modules, and without a run of their own:

* `runner.go:17` says that returning `ctx.Err()` after a budget kill is mapped to
  budget_exhausted; that is so for the wall clock only (`Outcome`). The tool handlers
  avoid the case by returning the sentinel.
* `runner.go:192` says a shutdown leaves a job cancelled; a stage that reports its dead
  context as an error of its own ends failed. `CancelIsNamed` therefore requires `life = "open"`.
* A submit between `Decide` and `Publish` is answered `existing: true` with a terminal snapshot
  (`LfSubmitActive`), against `runner.go:78`.
* After a restart lf_cancel answers "job already terminal" for the file of an interrupted
  job with status running (`LfCancelTooLate`, `tools.go:143`), and a terminal status that was
  polled but not yet persisted is unfinished again.
* The ledger is read before Submit (`tools_stages.go:253`) and counts listed tasks only
  (`:221`). `RoundLimit` states what holds in spite of the first; the second is the
  cause `uncounted`.
* An absent or empty test report makes the test gate inert, against `docs/tools.md:119`
  ("`PASS` only when `exit_code == 0`"); an `exit_code` of 0.5 is truncated to 0
  (`judge.go:69`). `PassEarned` says "not red", and `Red` takes the exit code as it arrived: red
  is one that is not less than 1 in size.
* An average of 8.0 that is the mean of rounded averages (`judge.go:218`, `:263`) is not one of
  the scores, against `docs/tools.md:119` ("the average is ≥ 8.0"). Two judges with 8.194,
  8.494, 7.267 (mean 7.985, rounded to 7.99) and 8.326, 7.895, 7.764 (7.995, rounded to
  8.0) pass with a mean of 7.99; two with 7.107, 6.32, 7.708 (7.045, rounded to 7.04) and
  8.411, 9.514, 8.94 (8.955, rounded to 8.95) fail with a mean of 8.0. `PassEarned` and
  `FailEarned` say that it is never more than that.
* With two solutions, a bad path from the lead, or a base without FILE blocks, ends the
  coding job although the other solution is usable, against `coder.go:206`.
  `OneLossIsSurvived` says what holds.
* A negative `n` of a panel decodes well, and then `take` panics (`config.go:277`) in the
  goroutine of the job, where nobody recovers (`runner.go:152`): the server ends, against
  `docs/tools.md:180` ("a typo never takes the gate down"). `GateStaysUp` names the exception.
* A review or judge job whose step cap trips after somebody has answered succeeds as a
  stage, with its report or verdict written; but the cap has cancelled its context,
  so the runner (`runner.go:153`, `:191`) reports it cancelled, "server shutting down", against
  `docs/tools.md:147` ("budget kills name the exhausted budget"). `ReportIffSuccess` and
  `VerdictIffSuccess` are about what the stage returns, `KillSwitch` about what the runner
  makes of it.
* A submit that is answered `existing: true` after a reload goes on with the older
  configuration (`SubmitActive`), against `docs/tools.md:181`.
* No stage calls AddTokens, RecordFailure or SetPartial: the token budget and the no-progress
  limit of ADR-007 are in the engine (`Trip`) but never trip.
* The schema of lf_plan says "default 40" for the step cap (`tools_plan.go:54`); the code uses
  80 (`:139`).

## 6. What is not modelled

Prompts, regular expressions, rendering and formatting, except for what they decide; the
HTTP exchange of the provider client and its counters; path validation; metrics (an
append under a mutex); charters and constitution (two reads that decide a refusal or
extend a prompt); the transports; the decoding of YAML. The data race on `budgetErr`
between the two coders is one write of the same sentinel twice; it has one outcome
in the model.

## 7. Plan

Done: `JobBoard`, `Runner`, `JobTools`, `JudgeLedger`, `LedgerJobs`, `BudgetedCaller`, `JudgeTask`, `CoderTask`, `PlanTask`,
`Registry`, `ReviewTask`, and the proofs about each of them.

Next, in this order:

1. Task statuses in `JudgeLedger`, so that planned, implemented, reviewed, judged can be
   related to the files.
2. An abstract *panel* that the judge and review panels implement.
