----------------------------- MODULE JudgeLedger -----------------------------
(***************************************************************************)
(* The manifest of one slug and everybody who writes it.  The judge-retry  *)
(* ledger (Task.JudgeAttempts) lives in manifest.json, which every writer  *)
(* replaces as a whole after having read it, under no lock: the handlers   *)
(* of lf_judge and lf_review through ensureBrief, the judge, review and    *)
(* coder jobs when they mark their task, the judge job once more when it   *)
(* counts the round, and a planning job, which starts the manifest anew.   *)
(*                                                                         *)
(* A job is its stage function from the submit to the return; LedgerJobs   *)
(* puts the runner around it, which runs one job per key at a time.        *)
(***************************************************************************)
EXTENDS Naturals, FiniteSets

CONSTANTS Agents,         \* concurrent tool calls
          Tasks,          \* number of tasks: ids 1 .. Tasks, in planning order
          Stages,         \* the stages that are used, of AllStages
          Polite,         \* do agents await a judge job before they judge again?
          MaxRounds,      \* bound: judge rounds explored per task
          MaxPlans,       \* bound: planning jobs
          MaxFaults       \* bound: crashes of the process and failed writes

AllStages == {"judge", "review", "coder", "plan"}

ASSUME LedgerAssumption ==
    /\ IsFiniteSet(Agents)
    /\ Tasks \in Nat \ {0}
    /\ Stages \subseteq AllStages
    /\ Polite \in BOOLEAN
    /\ MaxRounds \in Nat /\ MaxPlans \in Nat /\ MaxFaults \in Nat

VARIABLES dir,            \* does the directory of the slug exist?
          manifest,       \* manifest.json
          plan_md,        \* the tasks whose plan.md exists
          acceptance_md,  \* the tasks whose acceptance.md exists
          agent,          \* [Agents -> the tool call in progress]
          job,            \* [Keys -> where the job of the key is]
          copy,           \* [Writers -> the manifest it read and will replace]
          next,           \* the next task of the planning job
          rounds,         \* history: [TaskIds -> judge rounds completed]
          spoiled,        \* history: what has kept the ledger from being exact
          plans, faults   \* bounded counters

files   == <<dir, manifest, plan_md, acceptance_md>>
history == <<rounds, spoiled, plans, faults>>
vars    == <<files, agent, job, copy, next, history>>

TaskIds == 1 .. Tasks
PlanKey == <<"plan", 0>>
Keys    == ((Stages \ {"plan"}) \X TaskIds) \cup {PlanKey}
Writers == Keys \cup Agents

\* The constant of tools_stages.go.
maxJudgeAttempts == 2

\* A manifest lists some tasks, each with its judge_attempts.
NoManifest == [exists |-> FALSE, tasks |-> {}, attempts |-> [t \in TaskIds |-> 0]]
Listing(S) == [NoManifest EXCEPT !.exists = TRUE, !.tasks = S]
Manifests  == [exists : BOOLEAN, tasks : SUBSET TaskIds, attempts : [TaskIds -> Nat]]

\* A tool call: its stage, its task, and whether it passes brief (force for
\* lf_plan).
Idle  == [pc |-> "idle", stage |-> "none", task |-> 0, opt |-> FALSE]
Steps == {"ensure", "mkdir", "seed", "list", "append", "file", "check", "submit"}
Calls == [pc : Steps \cup {"idle"}, stage : AllStages \cup {"none"},
          task : 0 .. Tasks, opt : BOOLEAN]

\* Where a job is: idle, planning, at its model calls, or updating the manifest.
Planning == {"init", "force", "mkdir", "seed", "plan"}
Judged   == {"mark", "marking", "bump", "bumping"}
JobPCs   == {"idle", "work"} \cup Planning \cup Judged

judgeAttempts(t) == manifest.attempts[t]

At(a, step) == agent[a].pc = step
To(a, step) == agent' = [agent EXCEPT ![a].pc = step]
Reply(a)    == agent' = [agent EXCEPT ![a] = Idle]
KeyOf(a)    == <<agent[a].stage, agent[a].task>>

JobTo(k, from, to) ==
    /\ job[k] = from
    /\ job' = [job EXCEPT ![k] = to]

\* The job of a call begins.
Begins(a) ==
    job' = [job EXCEPT ![KeyOf(a)] = IF KeyOf(a) # PlanKey THEN "work"
                                     ELSE IF agent[a].opt THEN "force" ELSE "init"]

Fault == faults < MaxFaults /\ faults' = faults + 1

Spoil(cause, happened) == spoiled \cup (IF happened THEN {cause} ELSE {})

\* ReadManifest by somebody who is going to write the manifest back ...
Read(w) ==
    /\ manifest.exists
    /\ copy' = [copy EXCEPT ![w] = manifest]

\* ... and WriteManifest: what another has written in between is lost.
Update(w, m) ==
    /\ manifest' = m
    /\ copy' = [copy EXCEPT ![w] = NoManifest]

\* WriteManifest of a manifest made from nothing.
Replace(m) ==
    /\ manifest' = m
    /\ spoiled' = Spoil("overwritten", manifest.tasks # {})

\* JudgeAttempts++ for the task, if the manifest lists it.
Bumped(m, t) ==
    IF t \in m.tasks THEN [m EXCEPT !.attempts[t] = @ + 1] ELSE m

-----------------------------------------------------------------------------
(* Mutations: what plausible bugs would make of the definitions below.  None  *)
(* is part of the specification.                                              *)

\* The round is counted although the task was never judged to the end.
WorkFailsCounted(k) ==
    /\ JobTo(k, "work", IF k[1] = "judge" THEN "bump" ELSE "idle")
    /\ UNCHANGED <<files, agent, copy, next, history>>

\* The ledger is compared with > instead of >=.
CheckOffByOne(a) ==
    /\ At(a, "check")
    /\ IF judgeAttempts(agent[a].task) > maxJudgeAttempts THEN Reply(a) ELSE To(a, "submit")
    /\ UNCHANGED <<files, job, copy, next, history>>

\* The round is not counted.
AfterMarkNothing(k) == "idle"

\* ensureBrief writes plan.md without listing the task.
ListNever(a) ==
    /\ At(a, "list")
    /\ IF manifest.exists THEN To(a, "file") ELSE Reply(a)
    /\ UNCHANGED <<files, job, copy, next, history>>

-----------------------------------------------------------------------------
Init ==
    /\ dir = FALSE
    /\ manifest = NoManifest
    /\ plan_md = {}
    /\ acceptance_md = {}
    /\ agent = [a \in Agents |-> Idle]
    /\ job = [k \in Keys |-> "idle"]
    /\ copy = [w \in Writers |-> NoManifest]
    /\ next = 1
    /\ rounds = [t \in TaskIds |-> 0]
    /\ spoiled = {}
    /\ plans = 0
    /\ faults = 0

\* A polite agent judges a task when nobody else is judging it.
MayJudge(t) ==
    Polite => job[<<"judge", t>>] = "idle" /\ \A a \in Agents : KeyOf(a) # <<"judge", t>>

\* The handlers of lf_judge, lf_review, lf_coder_fusion and lf_plan are entered.
Call(a, stage, t, opt) ==
    /\ At(a, "idle")
    /\ stage \in Stages
    /\ <<stage, t>> \in Keys
    /\ stage = "judge" => MayJudge(t)
    /\ stage = "coder" => ~opt
    /\ stage = "plan" => plans < MaxPlans
    /\ plans' = IF stage = "plan" THEN plans + 1 ELSE plans
    /\ agent' = [agent EXCEPT ![a] =
          [pc    |-> IF opt /\ stage \in {"judge", "review"} THEN "ensure"
                     ELSE IF stage = "judge" THEN "check" ELSE "submit",
           stage |-> stage, task |-> t, opt |-> opt]]
    /\ UNCHANGED <<files, job, copy, next, rounds, spoiled, faults>>

-----------------------------------------------------------------------------
\* ensureBrief.  Is there a manifest?  If not, InitSlug: an existing directory
\* is left as it is ...
Ensure(a) ==
    /\ At(a, "ensure")
    /\ To(a, IF manifest.exists \/ dir THEN "list" ELSE "mkdir")
    /\ UNCHANGED <<files, job, copy, next, history>>

\* ... otherwise it is made, and then given an empty manifest.
Mkdir(a) ==
    /\ At(a, "mkdir")
    /\ dir' = TRUE
    /\ To(a, "seed")
    /\ UNCHANGED <<manifest, plan_md, acceptance_md, job, copy, next, history>>

Seed(a) ==
    /\ At(a, "seed")
    /\ Replace(Listing({}))
    /\ To(a, "list")
    /\ UNCHANGED <<dir, plan_md, acceptance_md, job, copy, next, rounds, plans, faults>>

\* The manifest is read again; without one the tool call answers an error.
List(a) ==
    /\ At(a, "list")
    /\ IF manifest.exists /\ agent[a].task \notin manifest.tasks
       THEN Read(a) /\ To(a, "append")
       ELSE /\ IF manifest.exists THEN To(a, "file") ELSE Reply(a)
            /\ UNCHANGED copy
    /\ UNCHANGED <<files, job, next, history>>

Append(a) ==
    /\ At(a, "append")
    /\ Update(a, [copy[a] EXCEPT !.tasks = @ \cup {agent[a].task}])
    /\ spoiled' = Spoil("overwritten", manifest # copy[a])
    /\ To(a, "file")
    /\ UNCHANGED <<dir, plan_md, acceptance_md, job, next, rounds, plans, faults>>

\* plan.md is written.
File(a) ==
    /\ At(a, "file")
    /\ plan_md' = plan_md \cup {agent[a].task}
    /\ To(a, IF agent[a].stage = "judge" THEN "check" ELSE "submit")
    /\ UNCHANGED <<dir, manifest, acceptance_md, job, copy, next, history>>

\* A write of ensureBrief fails: the tool call answers the error.
BriefFails(a) ==
    /\ agent[a].pc \in {"mkdir", "seed", "append", "file"}
    /\ Fault
    /\ Reply(a)
    /\ copy' = [copy EXCEPT ![a] = NoManifest]
    /\ UNCHANGED <<files, job, next, rounds, spoiled, plans>>

\* The judge-retry ledger: after two rounds escalate_to_human, without a job.
Check(a) ==
    /\ At(a, "check")
    /\ IF judgeAttempts(agent[a].task) >= maxJudgeAttempts THEN Reply(a) ELSE To(a, "submit")
    /\ UNCHANGED <<files, job, copy, next, history>>

\* Runner.Submit: a key with an active job gets no second one.  A key is active
\* for as long as the runner is busy with its job, which is longer than the stage.
Submit(a) ==
    /\ At(a, "submit")
    /\ (job[KeyOf(a)] = "idle" /\ Begins(a)) \/ UNCHANGED job
    /\ Reply(a)
    /\ UNCHANGED <<files, copy, next, history>>

-----------------------------------------------------------------------------
\* A judge, review or coder job: an error or a kill ends it at once ...
WorkFails(k) ==
    /\ JobTo(k, "work", "idle")
    /\ UNCHANGED <<files, agent, copy, next, history>>

\* ... or its calls yield a verdict, a report, or files.  It needs the brief,
\* and a coder needs the acceptance criteria as well.
WorkSucceeds(k) ==
    /\ JobTo(k, "work", "mark")
    /\ k[2] \in plan_md
    /\ k[1] = "coder" => k[2] \in acceptance_md
    /\ k[1] = "judge" => rounds[k[2]] < MaxRounds
    /\ rounds' = IF k[1] = "judge" THEN [rounds EXCEPT ![k[2]] = @ + 1] ELSE rounds
    /\ UNCHANGED <<files, agent, copy, next, spoiled, plans, faults>>

\* markJudged, markReviewed, markImplemented: read, set the status of the task
\* (not modelled), write.  What fails of it is only logged.
AfterMark(k) == IF k[1] = "judge" THEN "bump" ELSE "idle"

MarkRead(k) ==
    /\ IF manifest.exists
       THEN JobTo(k, "mark", "marking") /\ Read(k)
       ELSE JobTo(k, "mark", AfterMark(k)) /\ UNCHANGED copy
    /\ UNCHANGED <<files, agent, next, history>>

MarkWrite(k) ==
    /\ JobTo(k, "marking", AfterMark(k))
    /\ Update(k, copy[k])
    /\ spoiled' = Spoil("overwritten", manifest # copy[k])
    /\ UNCHANGED <<dir, plan_md, acceptance_md, agent, next, rounds, plans, faults>>

MarkFails(k) ==
    /\ Fault
    /\ JobTo(k, "marking", AfterMark(k))
    /\ copy' = [copy EXCEPT ![k] = NoManifest]
    /\ UNCHANGED <<files, agent, next, rounds, spoiled, plans>>

\* bumpJudgeAttempts: read, count, write.  Its failure is not even logged.
BumpRead(k) ==
    /\ IF manifest.exists
       THEN JobTo(k, "bump", "bumping") /\ Read(k)
       ELSE JobTo(k, "bump", "idle") /\ UNCHANGED copy
    /\ spoiled' = Spoil("uncounted", ~manifest.exists)
    /\ UNCHANGED <<files, agent, next, rounds, plans, faults>>

BumpWrite(k) ==
    /\ JobTo(k, "bumping", "idle")
    /\ Update(k, Bumped(copy[k], k[2]))
    /\ spoiled' = Spoil("overwritten", manifest # copy[k])
                    \cup Spoil("uncounted", k[2] \notin copy[k].tasks)
    /\ UNCHANGED <<dir, plan_md, acceptance_md, agent, next, rounds, plans, faults>>

BumpFails(k) ==
    /\ Fault
    /\ JobTo(k, "bumping", "idle")
    /\ copy' = [copy EXCEPT ![k] = NoManifest]
    /\ spoiled' = Spoil("uncounted", TRUE)
    /\ UNCHANGED <<files, agent, next, rounds, plans>>

-----------------------------------------------------------------------------
\* A planning job: InitSlug refuses an existing directory unless forced ...
PlanInit ==
    /\ \/ JobTo(PlanKey, "init", IF dir THEN "idle" ELSE "mkdir")
       \/ JobTo(PlanKey, "force", "mkdir")
    /\ UNCHANGED <<files, agent, copy, next, history>>

PlanMkdir ==
    /\ JobTo(PlanKey, "mkdir", "seed")
    /\ dir' = TRUE
    /\ UNCHANGED <<manifest, plan_md, acceptance_md, agent, copy, next, history>>

\* ... and gives it an empty manifest.
PlanSeed ==
    /\ JobTo(PlanKey, "seed", "plan")
    /\ Replace(Listing({}))
    /\ next' = 1
    /\ UNCHANGED <<dir, plan_md, acceptance_md, agent, copy, rounds, plans, faults>>

\* The artifacts of one task after the other are written.
PlanTask ==
    /\ job[PlanKey] = "plan"
    /\ next <= Tasks
    /\ plan_md' = plan_md \cup {next}
    /\ acceptance_md' = acceptance_md \cup {next}
    /\ next' = next + 1
    /\ UNCHANGED <<dir, manifest, agent, job, copy, history>>

\* A call or a write fails, or the job is killed, be it before it begins.
PlanFails ==
    /\ \E place \in Planning : JobTo(PlanKey, place, "idle")
    /\ UNCHANGED <<files, agent, copy, next, history>>

\* The manifest that lists the tasks is the last thing written.
PlanCommit ==
    /\ JobTo(PlanKey, "plan", "idle")
    /\ next > 1
    /\ Replace(Listing(1 .. (next - 1)))
    /\ UNCHANGED <<dir, plan_md, acceptance_md, agent, copy, next, rounds, plans, faults>>

-----------------------------------------------------------------------------
\* The process dies and is started again: only the files remain.
Crash ==
    /\ Fault
    /\ agent' = [a \in Agents |-> Idle]
    /\ job' = [k \in Keys |-> "idle"]
    /\ copy' = [w \in Writers |-> NoManifest]
    /\ spoiled' = Spoil("uncounted", \E k \in Keys : k[1] = "judge" /\ job[k] \in Judged)
    /\ UNCHANGED <<files, next, rounds, plans>>

EnsureBrief(a) ==
    Ensure(a) \/ Mkdir(a) \/ Seed(a) \/ List(a) \/ Append(a) \/ File(a) \/ BriefFails(a)

JobStep(k) ==
    \/ WorkFails(k)
    \/ WorkSucceeds(k)
    \/ MarkRead(k)
    \/ MarkWrite(k)
    \/ MarkFails(k)
    \/ BumpRead(k)
    \/ BumpWrite(k)
    \/ BumpFails(k)

PlanStep == PlanInit \/ PlanMkdir \/ PlanSeed \/ PlanTask \/ PlanFails \/ PlanCommit

Next ==
    \/ \E a \in Agents :
          \/ \E stage \in Stages, t \in 0 .. Tasks, opt \in BOOLEAN : Call(a, stage, t, opt)
          \/ EnsureBrief(a)
          \/ Check(a)
          \/ Submit(a)
    \/ \E k \in Keys \ {PlanKey} : JobStep(k)
    \/ PlanStep
    \/ Crash

Spec == Init /\ [][Next]_vars

-----------------------------------------------------------------------------
TypeOK ==
    /\ dir \in BOOLEAN
    /\ manifest \in Manifests
    /\ plan_md \in SUBSET TaskIds
    /\ acceptance_md \in SUBSET plan_md
    /\ agent \in [Agents -> Calls]
    /\ job \in [Keys -> JobPCs]
    /\ copy \in [Writers -> Manifests]
    /\ next \in 1 .. (Tasks + 1)
    /\ rounds \in [TaskIds -> 0 .. MaxRounds]
    /\ spoiled \in SUBSET {"overwritten", "uncounted"}
    /\ plans \in 0 .. MaxPlans
    /\ faults \in 0 .. MaxFaults

\* The ledger never claims a round that was not completed, however stale the
\* copies are that jobs and handlers write back, and whatever crashes: nobody
\* is sent to a human before two rounds have been judged.
NeverOvercounts == \A t \in TaskIds : judgeAttempts(t) <= rounds[t]

\* The ledger is exact between judge rounds as long as no manifest was written
\* over a newer one, none was replanned, every judged task was listed, every
\* count was written, and no crash hit a round between its verdict and its count.
LedgerExact == spoiled = {} =>
    \A t \in TaskIds : "judge" \in Stages /\ job[<<"judge", t>>] \notin Judged
        => judgeAttempts(t) = rounds[t]

\* As long as it is exact, two rounds are judged and no third, if agents await
\* their judge jobs; if they do not, every call in flight can add one, because
\* the ledger is read before and not in the Submit.
RoundLimit == spoiled = {} => \A t \in TaskIds :
    rounds[t] <= maxJudgeAttempts + (IF Polite THEN 0 ELSE Cardinality(Agents))

\* A judge or review call that passes a brief finds its task listed when it
\* goes on, unless manifests have been written over one another.
BriefIsListed == "overwritten" \notin spoiled => \A a \in Agents :
    agent[a].stage \in {"judge", "review"} /\ agent[a].opt
        /\ agent[a].pc \in {"file", "check", "submit"}
        => agent[a].task \in manifest.tasks

\* tools_stages.go: "two judge rounds run; a third is refused with
\* escalate_to_human".
ThirdRoundRefused == \A t \in TaskIds : rounds[t] <= maxJudgeAttempts
=============================================================================
