---------------------------- MODULE LedgerProofs ----------------------------
(***************************************************************************)
(* What holds of the manifest of a slug and of the judge-retry ledger in   *)
(* it, for every number of agents, tasks, rounds, plans and faults, and    *)
(* whichever stages are used; and that the jobs of the slug, in the hands  *)
(* of the runner, keep to it.                                              *)
(***************************************************************************)
EXTENDS LedgerJobs, FiniteSetTheorems, TLAPS

\* The steps of ensureBrief.
Briefing == {"ensure", "mkdir", "seed", "list", "append", "file"}

\* Tool calls name keys that exist, only two tools take a brief, and only judge jobs count rounds.
KeyInv ==
    /\ \A a \in Agents :
          /\ agent[a] = Idle \/ (agent[a].pc # "idle" /\ KeyOf(a) \in Keys)
          /\ agent[a].pc \in Briefing => agent[a].stage \in {"judge", "review"}
    /\ \A k \in Keys : job[k] \in {"bump", "bumping"} => k[1] = "judge"

\* A task whose round has been judged and not counted yet.
Open(t) == "judge" \in Stages /\ job[<<"judge", t>>] \in Judged

\* The rounds that a ledger may claim by now.
Due(t) == IF Open(t) THEN rounds[t] - 1 ELSE rounds[t]

\* No manifest claims a round that is not due, be it on disk or in the hands of
\* somebody who is going to write it back, and none counts an unlisted task.
ClaimsNoMore(m) == \A t \in TaskIds :
    m.attempts[t] <= Due(t) /\ (m.attempts[t] > 0 => t \in m.tasks)

CountInv == ClaimsNoMore(manifest) /\ \A w \in Writers : ClaimsNoMore(copy[w])

\* Unless something has spoiled it, the ledger has every round that is due.
ExactInv == spoiled = {} => \A t \in TaskIds : judgeAttempts(t) = Due(t)

\* The calls that have passed the check of the ledger and not submitted yet.
Passed(t) == {a \in Agents : At(a, "submit") /\ KeyOf(a) = <<"judge", t>>}

\* Rounds that the judge job of a task may still add by itself.
Working(t) == IF "judge" \in Stages /\ job[<<"judge", t>>] = "work" THEN 1 ELSE 0

Slack == IF Polite THEN 0 ELSE Cardinality(Agents)

\* A round has been let through by the check, and a check lets no more through
\* than there are calls.
LimitInv == spoiled = {} => \A t \in TaskIds :
    rounds[t] + Working(t) + Cardinality(Passed(t)) <= maxJudgeAttempts + Slack

\* Polite agents judge a task one at a time, and when no job is judging it.
PoliteInv == Polite => \A a, b \in Agents : agent[a].stage = "judge" =>
    /\ job[KeyOf(a)] = "idle"
    /\ KeyOf(b) = KeyOf(a) => b = a

IInv ==
    /\ TypeOK
    /\ KeyInv
    /\ CountInv
    /\ ExactInv
    /\ PoliteInv
    /\ LimitInv
    /\ BriefIsListed

-----------------------------------------------------------------------------
(* What the operators that the actions are made of do.                        *)

\* A call goes on to its next step and stays the same call.
LEMMA ToStep ==
  ASSUME TypeOK, NEW a \in Agents, NEW step \in Steps, To(a, step)
  PROVE  /\ agent' \in [Agents -> Calls]
         /\ agent'[a].pc = step
         /\ \A b \in Agents : /\ b # a => agent'[b] = agent[b]
                              /\ agent'[b].stage = agent[b].stage
                              /\ agent'[b].task = agent[b].task
                              /\ agent'[b].opt = agent[b].opt
  BY DEF TypeOK, Calls, To

\* An answer ends the call.
LEMMA ReplyStep ==
  ASSUME TypeOK, NEW a \in Agents, Reply(a)
  PROVE  /\ agent' \in [Agents -> Calls]
         /\ agent'[a] = Idle
         /\ \A b \in Agents : b # a => agent'[b] = agent[b]
<1>1. Idle \in Calls
  BY LedgerAssumption DEF Idle, Calls
<1> QED
  BY <1>1 DEF TypeOK, Reply

\* A job goes on, and no other.
LEMMA JobToStep ==
  ASSUME TypeOK, NEW k \in Keys, NEW from, NEW to \in JobPCs, JobTo(k, from, to)
  PROVE  /\ job' \in [Keys -> JobPCs]
         /\ job[k] = from /\ job'[k] = to
         /\ \A j \in Keys : j # k => job'[j] = job[j]
  BY DEF TypeOK, JobTo

\* A new manifest lists its tasks and counts nothing.
LEMMA ListingType == \A S \in SUBSET TaskIds :
    /\ Listing(S) \in Manifests
    /\ Listing(S).tasks = S
    /\ \A t \in TaskIds : Listing(S).attempts[t] = 0
  BY DEF Listing, NoManifest, Manifests

\* No manifest is one that lists and counts nothing.
LEMMA NoManifestType ==
    /\ NoManifest \in Manifests
    /\ NoManifest.tasks = {}
    /\ \A t \in TaskIds : NoManifest.attempts[t] = 0
  BY DEF NoManifest, Manifests

\* Counting a round adds one to a listed task, and nothing to any other.
LEMMA BumpedType == \A m \in Manifests, t \in TaskIds :
    /\ Bumped(m, t) \in Manifests
    /\ Bumped(m, t).tasks = m.tasks
    /\ t \notin m.tasks => Bumped(m, t) = m
    /\ \A u \in TaskIds : Bumped(m, t).attempts[u] =
          m.attempts[u] + (IF u = t /\ t \in m.tasks THEN 1 ELSE 0)
  BY DEF Bumped, Manifests

\* Listing a task leaves the counts alone.
LEMMA AddedType == \A m \in Manifests, t \in TaskIds :
    LET added == [m EXCEPT !.tasks = @ \cup {t}]
    IN  /\ added \in Manifests
        /\ added.tasks = m.tasks \cup {t}
        /\ added.attempts = m.attempts
  BY DEF Manifests

\* The keys of the judge, review and coder jobs of a task.
LEMMA KeyFacts ==
    /\ PlanKey \in Keys
    /\ PlanKey[1] = "plan"
    /\ \A k \in Keys : k # PlanKey => k[2] \in TaskIds /\ k[1] \in Stages \ {"plan"}
    /\ \A t \in TaskIds : "judge" \in Stages => <<"judge", t>> \in Keys
    /\ \A k \in Keys : k[1] = "judge" => k = <<"judge", k[2]>> /\ "judge" \in Stages
    /\ \A k \in Keys : k \in Writers
    /\ \A a \in Agents : a \in Writers
  BY LedgerAssumption DEF Keys, PlanKey, Writers, AllStages

-----------------------------------------------------------------------------
\* Every variable keeps its type.
LEMMA InitType == Init => TypeOK
<1> SUFFICES ASSUME Init PROVE TypeOK
  OBVIOUS
<1>1. Idle \in Calls
  BY LedgerAssumption DEF Idle, Calls
<1>2. job \in [Keys -> JobPCs] /\ copy \in [Writers -> Manifests] /\ manifest \in Manifests
  BY NoManifestType DEF Init, JobPCs
<1>3. next \in 1 .. (Tasks + 1) /\ rounds \in [TaskIds -> 0 .. MaxRounds]
  BY LedgerAssumption DEF Init
<1>4. agent \in [Agents -> Calls]
  BY <1>1 DEF Init
<1>5. acceptance_md \in SUBSET plan_md /\ plan_md \in SUBSET TaskIds /\ dir \in BOOLEAN
  BY DEF Init
<1>6. plans \in 0 .. MaxPlans /\ faults \in 0 .. MaxFaults
  BY LedgerAssumption DEF Init
<1>7. spoiled \in SUBSET {"overwritten", "uncounted"}
  BY DEF Init
<1> QED
  BY <1>2, <1>3, <1>4, <1>5, <1>6, <1>7 DEF TypeOK

\* What spoils the ledger is one of two causes, and stays.
LEMMA SpoilType ==
  ASSUME TypeOK, NEW cause \in {"overwritten", "uncounted"}, NEW happened
  PROVE  /\ Spoil(cause, happened) \in SUBSET {"overwritten", "uncounted"}
         /\ spoiled \subseteq Spoil(cause, happened)
         /\ happened => cause \in Spoil(cause, happened)
  BY DEF TypeOK, Spoil

\* Faults are bounded.
LEMMA FaultType ==
  ASSUME TypeOK, Fault
  PROVE  faults' \in 0 .. MaxFaults
  BY LedgerAssumption DEF TypeOK, Fault

\* A tool call that passes a brief is about a task of the slug.
LEMMA BriefTask ==
  ASSUME TypeOK, KeyInv, NEW a \in Agents, agent[a].pc \in Briefing
  PROVE  agent[a].task \in TaskIds
<1>1. KeyOf(a) \in Keys /\ agent[a].stage # "plan"
  BY DEF KeyInv, Idle, Briefing
<1> QED
  BY <1>1, KeyFacts DEF KeyOf, PlanKey

\* A tool call keeps the types.
LEMMA AgentType ==
  ASSUME TypeOK, KeyInv, NEW a \in Agents,
         \/ \E stage \in Stages, t \in 0 .. Tasks, opt \in BOOLEAN : Call(a, stage, t, opt)
         \/ EnsureBrief(a)
         \/ Check(a)
         \/ Submit(a)
  PROVE  TypeOK'
<1> USE DEF TypeOK
<1>1. CASE \E stage \in Stages, t \in 0 .. Tasks, opt \in BOOLEAN : Call(a, stage, t, opt)
  <2>1. PICK stage \in Stages, t \in 0 .. Tasks, opt \in BOOLEAN : Call(a, stage, t, opt)
    BY <1>1
  <2>2. agent' \in [Agents -> Calls]
    BY <2>1, LedgerAssumption DEF Call, Calls, Steps
  <2>3. plans' \in 0 .. MaxPlans
    BY <2>1, LedgerAssumption DEF Call
  <2> QED
    BY <2>1, <2>2, <2>3 DEF Call, files
<1>2. CASE Ensure(a) \/ Mkdir(a)
  BY <1>2, ToStep DEF Ensure, Mkdir, Steps, files, history
<1>3. CASE Seed(a)
  BY <1>3, ToStep, ListingType, SpoilType DEF Seed, Replace, Steps
<1>4. CASE List(a)
  <2>1. agent' \in [Agents -> Calls]
    BY <1>4, ToStep, ReplyStep DEF List, Steps
  <2>2. copy' \in [Writers -> Manifests]
    BY <1>4, KeyFacts DEF List, Read
  <2> QED
    BY <1>4, <2>1, <2>2 DEF List, files, history
<1>5. CASE Append(a)
  <2>1. agent' \in [Agents -> Calls]
    BY <1>5, ToStep DEF Append, Steps
  <2>2. manifest' \in Manifests /\ copy' \in [Writers -> Manifests]
    BY <1>5, BriefTask, AddedType, NoManifestType, KeyFacts DEF Append, Update, At, Briefing
  <2>3. spoiled' \in SUBSET {"overwritten", "uncounted"}
    BY <1>5, SpoilType DEF Append
  <2> QED
    BY <1>5, <2>1, <2>2, <2>3 DEF Append
<1>6. CASE File(a)
  <2>1. agent' \in [Agents -> Calls]
    BY <1>6, ToStep DEF File, Steps
  <2>2. plan_md' \in SUBSET TaskIds /\ plan_md \subseteq plan_md'
    BY <1>6, BriefTask DEF File, At, Briefing
  <2> QED
    BY <1>6, <2>1, <2>2 DEF File, history
<1>7. CASE Check(a)
  BY <1>7, ToStep, ReplyStep DEF Check, Steps, files, history
<1>8. CASE Submit(a)
  <2>1. agent' \in [Agents -> Calls]
    BY <1>8, ReplyStep DEF Submit
  <2>2. job' \in [Keys -> JobPCs]
    BY <1>8 DEF Submit, Begins, JobPCs, Planning
  <2> QED
    BY <1>8, <2>1, <2>2 DEF Submit, files, history
<1>9. CASE BriefFails(a)
  <2>1. agent' \in [Agents -> Calls] /\ faults' \in 0 .. MaxFaults
    BY <1>9, ReplyStep, FaultType DEF BriefFails
  <2>2. copy' \in [Writers -> Manifests]
    BY <1>9, NoManifestType DEF BriefFails
  <2> QED
    BY <1>9, <2>1, <2>2 DEF BriefFails, files
<1> QED
  BY <1>1, <1>2, <1>3, <1>4, <1>5, <1>6, <1>7, <1>8, <1>9 DEF EnsureBrief

\* A judge, review or coder job keeps the types.
LEMMA JobType ==
  ASSUME TypeOK, NEW k \in Keys \ {PlanKey}, JobStep(k)
  PROVE  TypeOK'
<1> USE DEF TypeOK
<1>1. CASE WorkFails(k)
  BY <1>1, JobToStep DEF WorkFails, JobPCs, files, history
<1>2. CASE WorkSucceeds(k)
  <2>1. job' \in [Keys -> JobPCs]
    BY <1>2, JobToStep DEF WorkSucceeds, JobPCs, Judged
  <2>2. rounds' \in [TaskIds -> 0 .. MaxRounds]
    BY <1>2, KeyFacts, LedgerAssumption DEF WorkSucceeds
  <2> QED
    BY <1>2, <2>1, <2>2 DEF WorkSucceeds, files
<1>3. CASE MarkRead(k)
  <2>1. job' \in [Keys -> JobPCs]
    BY <1>3, JobToStep DEF MarkRead, AfterMark, JobPCs, Judged
  <2>2. copy' \in [Writers -> Manifests]
    BY <1>3, KeyFacts DEF MarkRead, Read
  <2> QED
    BY <1>3, <2>1, <2>2 DEF MarkRead, files, history
<1>4. CASE MarkWrite(k)
  <2>1. job' \in [Keys -> JobPCs]
    BY <1>4, JobToStep DEF MarkWrite, AfterMark, JobPCs, Judged
  <2>2. manifest' \in Manifests /\ copy' \in [Writers -> Manifests]
    BY <1>4, NoManifestType, KeyFacts DEF MarkWrite, Update
  <2>3. spoiled' \in SUBSET {"overwritten", "uncounted"}
    BY <1>4, SpoilType DEF MarkWrite
  <2> QED
    BY <1>4, <2>1, <2>2, <2>3 DEF MarkWrite
<1>5. CASE BumpRead(k)
  <2>1. job' \in [Keys -> JobPCs]
    BY <1>5, JobToStep DEF BumpRead, JobPCs, Judged
  <2>2. copy' \in [Writers -> Manifests]
    BY <1>5, KeyFacts DEF BumpRead, Read
  <2>3. spoiled' \in SUBSET {"overwritten", "uncounted"}
    BY <1>5, SpoilType DEF BumpRead
  <2> QED
    BY <1>5, <2>1, <2>2, <2>3 DEF BumpRead, files
<1>6. CASE BumpWrite(k)
  <2>1. job' \in [Keys -> JobPCs]
    BY <1>6, JobToStep DEF BumpWrite, JobPCs
  <2>2. manifest' \in Manifests /\ copy' \in [Writers -> Manifests]
    BY <1>6, BumpedType, NoManifestType, KeyFacts DEF BumpWrite, Update
  <2>3. spoiled' \in SUBSET {"overwritten", "uncounted"}
    BY <1>6, SpoilType DEF BumpWrite
  <2> QED
    BY <1>6, <2>1, <2>2, <2>3 DEF BumpWrite
<1>7. CASE MarkFails(k) \/ BumpFails(k)
  <2>1. job' \in [Keys -> JobPCs]
    BY <1>7, JobToStep DEF MarkFails, BumpFails, AfterMark, JobPCs, Judged
  <2>2. copy' \in [Writers -> Manifests]
    BY <1>7, NoManifestType DEF MarkFails, BumpFails
  <2>3. spoiled' \in SUBSET {"overwritten", "uncounted"}
    BY <1>7, SpoilType DEF MarkFails, BumpFails
  <2>4. faults' \in 0 .. MaxFaults
    BY <1>7, FaultType DEF MarkFails, BumpFails
  <2> QED
    BY <1>7, <2>1, <2>2, <2>3, <2>4 DEF MarkFails, BumpFails, files
<1> QED
  BY <1>1, <1>2, <1>3, <1>4, <1>5, <1>6, <1>7 DEF JobStep

\* So does a planning job.
LEMMA PlanType ==
  ASSUME TypeOK, PlanStep
  PROVE  TypeOK'
<1> USE DEF TypeOK
<1>1. job' \in [Keys -> JobPCs]
  BY JobToStep, KeyFacts DEF PlanStep, PlanInit, PlanMkdir, PlanSeed, PlanTask, PlanFails, PlanCommit,
     JobPCs, Planning
<1>2. CASE PlanInit \/ PlanMkdir \/ PlanFails
  BY <1>1, <1>2 DEF PlanInit, PlanMkdir, PlanFails, files, history
<1>3. CASE PlanSeed \/ PlanCommit
  <2>1. manifest' \in Manifests
    BY <1>3, ListingType, LedgerAssumption DEF PlanSeed, PlanCommit, Replace, TaskIds
  <2>2. spoiled' \in SUBSET {"overwritten", "uncounted"}
    BY <1>3, SpoilType DEF PlanSeed, PlanCommit, Replace
  <2>3. next' \in 1 .. (Tasks + 1)
    BY <1>3, LedgerAssumption DEF PlanSeed, PlanCommit
  <2> QED
    BY <1>1, <1>3, <2>1, <2>2, <2>3 DEF PlanSeed, PlanCommit
<1>4. CASE PlanTask
  <2>1. next \in TaskIds /\ next' \in 1 .. (Tasks + 1)
    BY <1>4, LedgerAssumption DEF PlanTask, TaskIds
  <2>2. plan_md' \in SUBSET TaskIds /\ acceptance_md' \in SUBSET plan_md'
    BY <1>4, <2>1 DEF PlanTask
  <2> QED
    BY <1>1, <1>4, <2>1, <2>2 DEF PlanTask, history
<1> QED
  BY <1>2, <1>3, <1>4 DEF PlanStep

\* And a crash.
LEMMA CrashType ==
  ASSUME TypeOK, Crash
  PROVE  TypeOK'
<1> USE DEF TypeOK
<1>1. agent' \in [Agents -> Calls]
  BY LedgerAssumption DEF Crash, Idle, Calls
<1>2. job' \in [Keys -> JobPCs] /\ copy' \in [Writers -> Manifests]
  BY NoManifestType DEF Crash, JobPCs
<1>3. spoiled' \in SUBSET {"overwritten", "uncounted"}
  BY SpoilType DEF Crash
<1>4. faults' \in 0 .. MaxFaults
  BY FaultType DEF Crash
<1> QED
  BY <1>1, <1>2, <1>3, <1>4 DEF Crash, files

-----------------------------------------------------------------------------
(* Which changes keep which part of the invariant.                            *)

\* What is due from a task changes with its judge job alone.
LEMMA DueKept ==
  ASSUME TypeOK, UNCHANGED rounds, NEW k \in Keys, NEW from, NEW to \in JobPCs, JobTo(k, from, to),
         k[1] = "judge" => (from \in Judged <=> to \in Judged)
  PROVE  \A t \in TaskIds : Due(t)' = Due(t)
<1> SUFFICES ASSUME NEW t \in TaskIds PROVE Open(t)' <=> Open(t)
  BY DEF Due
<1>1. CASE k = <<"judge", t>>
  BY <1>1, JobToStep DEF Open
<1>2. CASE k # <<"judge", t>>
  BY <1>2, JobToStep, KeyFacts DEF Open
<1> QED
  BY <1>1, <1>2

\* ... and nothing is due that was not before when jobs stand still.
LEMMA StandStill ==
  ASSUME UNCHANGED <<job, rounds>>
  PROVE  \A t \in TaskIds : Due(t)' = Due(t) /\ Working(t)' = Working(t)
  BY DEF Due, Open, Working

\* A manifest that stays is as good as it was.
LEMMA CountKept ==
  ASSUME IInv, UNCHANGED <<manifest, copy>>, spoiled \subseteq spoiled',
         \A t \in TaskIds : Due(t)' = Due(t)
  PROVE  CountInv' /\ ExactInv'
  BY DEF IInv, CountInv, ClaimsNoMore, ExactInv, judgeAttempts

\* A manifest that is read claims no more than the one on disk.
LEMMA ReadKeeps ==
  ASSUME IInv, UNCHANGED manifest, NEW w \in Writers, Read(w),
         spoiled \subseteq spoiled', \A t \in TaskIds : Due(t)' = Due(t)
  PROVE  CountInv' /\ ExactInv'
<1>1. \A x \in Writers : copy'[x] = copy[x] \/ copy'[x] = manifest
  BY DEF IInv, TypeOK, Read
<1> QED
  BY <1>1 DEF IInv, CountInv, ClaimsNoMore, ExactInv, judgeAttempts

\* One that is written back, with its counts, claims no more either, and if it
\* is still the one on disk it counts all that is due.
LEMMA WriteKeeps ==
  ASSUME IInv, NEW w \in Writers, NEW m, Update(w, m),
         m.attempts = copy[w].attempts, copy[w].tasks \subseteq m.tasks,
         spoiled \subseteq spoiled', manifest # copy[w] => spoiled' # {},
         \A t \in TaskIds : Due(t)' = Due(t)
  PROVE  CountInv' /\ ExactInv'
<1>1. \A x \in Writers : copy'[x] = copy[x] \/ copy'[x] = NoManifest
  BY DEF IInv, TypeOK, Update
<1>2. \A t \in TaskIds : copy[w].attempts[t] \in Nat /\ copy[w].attempts[t] <= Due(t)
  BY DEF IInv, TypeOK, Manifests, CountInv, ClaimsNoMore
<1>3. ClaimsNoMore(manifest)'
  BY DEF IInv, CountInv, ClaimsNoMore, Update
<1>4. \A x \in Writers : ClaimsNoMore(copy[x])'
  <2>1. \A t \in TaskIds : 0 <= Due(t)
    BY <1>2 DEF Due, IInv, TypeOK
  <2> QED
    BY <1>1, <2>1, NoManifestType DEF IInv, CountInv, ClaimsNoMore
<1>5. ExactInv'
  BY DEF IInv, ExactInv, judgeAttempts, Update
<1> QED
  BY <1>3, <1>4, <1>5 DEF CountInv

\* One that is not written back, because that fails, leaves the others.
LEMMA DropKeeps ==
  ASSUME IInv, UNCHANGED manifest, NEW w \in Writers, copy' = [copy EXCEPT ![w] = NoManifest],
         spoiled \subseteq spoiled', \A t \in TaskIds : Due(t)' = Due(t)
  PROVE  CountInv' /\ ExactInv'
<1>1. \A x \in Writers : copy'[x] = copy[x] \/ copy'[x] = NoManifest
  BY DEF IInv, TypeOK
<1>2. \A t \in TaskIds : 0 <= Due(t)
  <2>1. \A t \in TaskIds : manifest.attempts[t] \in Nat /\ manifest.attempts[t] <= Due(t)
    BY DEF IInv, TypeOK, Manifests, CountInv, ClaimsNoMore
  <2> QED
    BY <2>1 DEF Due, IInv, TypeOK
<1>3. CountInv'
  BY <1>1, <1>2, NoManifestType DEF IInv, CountInv, ClaimsNoMore
<1>4. ExactInv'
  BY DEF IInv, ExactInv, judgeAttempts
<1> QED
  BY <1>3, <1>4

\* One that is made from nothing claims nothing, which is all that is due if it
\* replaces one without tasks.
LEMMA ReplaceKeeps ==
  ASSUME IInv, NEW S \in SUBSET TaskIds, Replace(Listing(S)), UNCHANGED copy,
         \A t \in TaskIds : Due(t)' = Due(t)
  PROVE  CountInv' /\ ExactInv'
<1>1. \A t \in TaskIds : manifest.attempts[t] \in Nat /\ manifest.attempts[t] <= Due(t)
  BY DEF IInv, TypeOK, Manifests, CountInv, ClaimsNoMore
<1>2. \A t \in TaskIds : 0 <= Due(t)
  BY <1>1 DEF Due, IInv, TypeOK
<1>3. CountInv'
  BY <1>2, ListingType DEF IInv, CountInv, ClaimsNoMore, Replace
<1>4. ASSUME spoiled' = {}, NEW t \in TaskIds
      PROVE  manifest.attempts[t] = 0 /\ manifest.attempts[t] = Due(t)
  <2>1. spoiled = {} /\ manifest.tasks = {}
    BY <1>4 DEF Replace, Spoil
  <2>2. manifest.attempts[t] = Due(t)
    BY <2>1 DEF IInv, ExactInv, judgeAttempts
  <2>3. ~(manifest.attempts[t] > 0)
    BY <2>1 DEF IInv, CountInv, ClaimsNoMore
  <2> QED
    BY <1>1, <2>2, <2>3
<1>5. ExactInv'
  BY <1>4, ListingType DEF ExactInv, judgeAttempts, Replace
<1> QED
  BY <1>3, <1>5

\* Rounds and calls that are let through do not grow in number by themselves.
LEMMA LimitKept ==
  ASSUME IInv, TypeOK', spoiled \subseteq spoiled',
         \A t \in TaskIds : /\ rounds'[t] + Working(t)' <= rounds[t] + Working(t)
                            /\ Passed(t)' \subseteq Passed(t)
  PROVE  LimitInv'
<1> SUFFICES ASSUME spoiled' = {}, NEW t \in TaskIds
             PROVE  rounds'[t] + Working(t)' + Cardinality(Passed(t)') <= maxJudgeAttempts + Slack
  BY DEF LimitInv, Slack
<1>1. IsFiniteSet(Passed(t)) /\ Cardinality(Passed(t)) \in Nat
  BY LedgerAssumption, FS_Subset, FS_CardinalityType DEF Passed
<1>2. Cardinality(Passed(t)') <= Cardinality(Passed(t)) /\ Cardinality(Passed(t)') \in Nat
  BY <1>1, FS_Subset, FS_CardinalityType
<1>3. rounds[t] + Working(t) + Cardinality(Passed(t)) <= maxJudgeAttempts + Slack
  BY DEF IInv, LimitInv
<1>4. rounds[t] \in Nat /\ rounds'[t] \in Nat /\ Working(t) \in Nat /\ Working(t)' \in Nat
  BY DEF IInv, TypeOK, Working
<1>5. maxJudgeAttempts + Slack \in Nat
  BY LedgerAssumption, FS_CardinalityType DEF maxJudgeAttempts, Slack
<1> QED
  BY <1>1, <1>2, <1>3, <1>4, <1>5

\* In particular when jobs stand still.
LEMMA LimitStill ==
  ASSUME IInv, TypeOK', spoiled \subseteq spoiled', UNCHANGED <<job, rounds>>,
         \A t \in TaskIds : Passed(t)' \subseteq Passed(t)
  PROVE  LimitInv'
<1>1. \A t \in TaskIds : rounds[t] \in Nat /\ Working(t) \in Nat /\ Working(t)' = Working(t)
  BY StandStill DEF IInv, TypeOK, Working
<1>2. \A t \in TaskIds : rounds'[t] + Working(t)' <= rounds[t] + Working(t)
  BY <1>1
<1> QED
  BY <1>2, LimitKept

\* Whoever has a listed task keeps it while manifests only grow.
LEMMA BriefKept ==
  ASSUME IInv, spoiled \subseteq spoiled',
         \/ manifest.tasks \subseteq manifest'.tasks
         \/ "overwritten" \in spoiled',
         \A a \in Agents :
            \/ agent'[a].pc \notin {"file", "check", "submit"}
            \/ agent'[a].task \in manifest'.tasks
            \/ ~agent'[a].opt \/ agent'[a].stage \notin {"judge", "review"}
            \/ /\ agent'[a].stage = agent[a].stage
               /\ agent'[a].task = agent[a].task
               /\ agent'[a].opt = agent[a].opt
               /\ agent[a].pc \in {"file", "check", "submit"}
  PROVE  BriefIsListed'
  BY DEF IInv, BriefIsListed

\* A call that goes on without a new judge round.
LEMMA MoveKeeps ==
  ASSUME IInv, NEW a \in Agents, NEW step \in Steps, To(a, step), UNCHANGED job,
         agent[a].pc # "idle",
         step \in Briefing => agent[a].pc \in Briefing
  PROVE  /\ KeyInv' /\ PoliteInv'
         /\ \A t \in TaskIds : step # "submit" \/ KeyOf(a) # <<"judge", t>>
               => Passed(t)' \subseteq Passed(t)
<1>1. /\ agent'[a].pc = step
      /\ \A b \in Agents : /\ b # a => agent'[b] = agent[b]
                           /\ agent'[b].stage = agent[b].stage
                           /\ KeyOf(b)' = KeyOf(b)
  BY ToStep DEF IInv, KeyOf
<1>2. agent[a] # Idle
  BY DEF Idle
<1>3. KeyInv'
  BY <1>1, <1>2 DEF IInv, KeyInv, Steps
<1>4. PoliteInv'
  BY <1>1 DEF IInv, PoliteInv
<1>5. \A t \in TaskIds : step # "submit" \/ KeyOf(a) # <<"judge", t>>
         => Passed(t)' \subseteq Passed(t)
  BY <1>1 DEF Passed, At
<1> QED
  BY <1>3, <1>4, <1>5

\* A call that ends.
LEMMA ReplyKeeps ==
  ASSUME IInv, NEW a \in Agents, Reply(a), UNCHANGED job
  PROVE  /\ KeyInv' /\ PoliteInv'
         /\ \A t \in TaskIds : Passed(t)' \subseteq Passed(t)
<1>1. agent'[a] = Idle /\ \A b \in Agents : b # a => agent'[b] = agent[b]
  BY ReplyStep DEF IInv
<1>2. \A b \in Agents : b # a => KeyOf(b)' = KeyOf(b)
  BY <1>1 DEF KeyOf
<1>3. KeyInv'
  BY <1>1, <1>2 DEF IInv, KeyInv, Idle, Briefing
<1>4. PoliteInv'
  <2> SUFFICES ASSUME Polite, NEW b \in Agents, NEW c \in Agents, agent'[b].stage = "judge"
               PROVE  job'[KeyOf(b)'] = "idle" /\ (KeyOf(c)' = KeyOf(b)' => c = b)
    BY DEF PoliteInv
  <2>1. b # a /\ KeyOf(b)' = KeyOf(b) /\ agent[b].stage = "judge" /\ KeyOf(b)'[1] = "judge"
    BY <1>1, <1>2 DEF Idle, KeyOf
  <2>2. KeyOf(a)'[1] # "judge"
    BY <1>1 DEF Idle, KeyOf
  <2>3. job[KeyOf(b)] = "idle" /\ (KeyOf(c) = KeyOf(b) => c = b)
    BY <2>1 DEF IInv, PoliteInv
  <2> QED
    BY <1>2, <2>1, <2>2, <2>3
<1>5. \A t \in TaskIds : Passed(t)' \subseteq Passed(t)
  BY <1>1, <1>2 DEF Passed, At, Idle
<1> QED
  BY <1>3, <1>4, <1>5

\* A job that goes on: no polite agent has a call for it, and it is no planning
\* job that counts rounds.
LEMMA JobKeeps ==
  ASSUME IInv, NEW k \in Keys, NEW from \in JobPCs \ {"idle"}, NEW to \in JobPCs,
         JobTo(k, from, to), UNCHANGED agent, to \in {"bump", "bumping"} => k[1] = "judge"
  PROVE  /\ KeyInv' /\ PoliteInv'
         /\ \A t \in TaskIds : Passed(t)' \subseteq Passed(t)
<1>1. job[k] = from /\ job'[k] = to /\ \A j \in Keys : j # k => job'[j] = job[j]
  BY JobToStep DEF IInv
<1>2. \A a \in Agents : KeyOf(a)' = KeyOf(a)
  BY DEF KeyOf
<1>3. KeyInv'
  BY <1>1, <1>2 DEF IInv, KeyInv
<1>4. PoliteInv'
  <2> SUFFICES ASSUME Polite, NEW a \in Agents, agent[a].stage = "judge"
               PROVE  job'[KeyOf(a)] = "idle"
    BY <1>2 DEF IInv, PoliteInv
  <2>1. KeyOf(a) \in Keys /\ job[KeyOf(a)] = "idle"
    BY DEF IInv, KeyInv, PoliteInv, Idle
  <2> QED
    BY <1>1, <2>1
<1>5. \A t \in TaskIds : Passed(t)' \subseteq Passed(t)
  BY <1>2 DEF Passed, At
<1> QED
  BY <1>3, <1>4, <1>5

-----------------------------------------------------------------------------
(* One lemma per action.                                                      *)

\* An agent is idle, and polite if it must be, before it calls.
LEMMA CallStep ==
  ASSUME IInv, NEW a \in Agents, NEW stage \in Stages, NEW t \in 0 .. Tasks, NEW opt \in BOOLEAN,
         Call(a, stage, t, opt)
  PROVE  IInv'
<1>1. /\ stage = "judge" => MayJudge(t)
      /\ agent[a].pc = "idle"
      /\ <<stage, t>> \in Keys
      /\ UNCHANGED <<files, job, copy, rounds, spoiled>>
  BY DEF Call, At
<1>2. /\ agent'[a].stage = stage /\ agent'[a].task = t /\ agent'[a].opt = opt
      /\ agent'[a].pc = IF opt /\ stage \in {"judge", "review"} THEN "ensure"
                        ELSE IF stage = "judge" THEN "check" ELSE "submit"
      /\ \A b \in Agents : b # a => agent'[b] = agent[b]
  BY DEF Call, IInv, TypeOK
<1>3. KeyOf(a)' = <<stage, t>> /\ \A b \in Agents : b # a => KeyOf(b)' = KeyOf(b)
  BY <1>2 DEF KeyOf
<1>4. TypeOK'
  BY AgentType DEF IInv
<1>5. KeyInv'
  BY <1>1, <1>2, <1>3 DEF IInv, KeyInv, Briefing
<1>6. CountInv' /\ ExactInv'
  BY <1>1, StandStill, CountKept DEF files
<1>7. PoliteInv'
  <2> SUFFICES ASSUME Polite, NEW b \in Agents, NEW c \in Agents, agent'[b].stage = "judge"
               PROVE  job'[KeyOf(b)'] = "idle" /\ (KeyOf(c)' = KeyOf(b)' => c = b)
    BY DEF PoliteInv
  <2>1. stage = "judge" => job[<<"judge", t>>] = "idle" /\ \A d \in Agents : KeyOf(d) # <<"judge", t>>
    BY <1>1 DEF MayJudge
  <2>2. b # a => job[KeyOf(b)] = "idle" /\ \A d \in Agents : KeyOf(d) = KeyOf(b) => d = b
    BY <1>2 DEF IInv, PoliteInv
  <2>3. b # a => KeyOf(b)' = KeyOf(b) /\ KeyOf(b) = <<"judge", agent[b].task>>
    BY <1>2, <1>3 DEF KeyOf
  <2>4. b = a => stage = "judge"
    BY <1>2
  <2> QED
    BY <1>1, <1>3, <2>1, <2>2, <2>3, <2>4
<1>8. LimitInv'
  <2>1. \A u \in TaskIds : Passed(u)' \subseteq Passed(u)
    BY <1>2, <1>3 DEF Passed, At
  <2> QED
    BY <1>1, <1>4, <2>1, LimitStill
<1>9. BriefIsListed'
  BY <1>1, <1>2, BriefKept DEF files
<1> QED
  BY <1>4, <1>5, <1>6, <1>7, <1>8, <1>9 DEF IInv

\* ensureBrief up to the manifest that is read again: Ensure, Mkdir, Seed, List.
LEMMA EnsureStep ==
  ASSUME IInv, NEW a \in Agents, Ensure(a) \/ Mkdir(a) \/ Seed(a) \/ List(a)
  PROVE  IInv'
<1>1. TypeOK'
  BY AgentType DEF IInv, EnsureBrief
<1>2. UNCHANGED <<job, rounds>> /\ spoiled \subseteq spoiled' /\ agent[a].pc \in Briefing
  BY SpoilType DEF Ensure, Mkdir, Seed, List, Replace, At, Briefing, files, history, IInv
<1>3. \A t \in TaskIds : Due(t)' = Due(t)
  BY <1>2, StandStill
<1>4. \/ /\ \E step \in {"mkdir", "seed", "list", "append"} : To(a, step)
      \/ /\ To(a, "file") /\ agent[a].task \in manifest.tasks /\ UNCHANGED manifest
      \/ /\ Reply(a)
  BY DEF Ensure, Mkdir, Seed, List, files
<1>5. KeyInv' /\ PoliteInv' /\ \A t \in TaskIds : Passed(t)' \subseteq Passed(t)
  BY <1>2, <1>4, MoveKeeps, ReplyKeeps DEF Steps, Briefing
<1>6. CountInv' /\ ExactInv'
  <2>1. CASE Seed(a)
    BY <1>3, <2>1, ReplaceKeeps DEF Seed
  <2>2. CASE ~Seed(a) /\ Read(a)
    BY <1>2, <1>3, <2>2, ReadKeeps, KeyFacts DEF Ensure, Mkdir, List, files
  <2>3. CASE ~Seed(a) /\ UNCHANGED copy
    BY <1>2, <1>3, <2>3, CountKept DEF Ensure, Mkdir, List, files
  <2> QED
    BY <2>1, <2>2, <2>3 DEF Ensure, Mkdir, List
<1>7. LimitInv'
  BY <1>1, <1>2, <1>5, LimitStill
<1>8. BriefIsListed'
  <2>1. \A b \in Agents :
           \/ agent'[b] = agent[b]
           \/ agent'[b].pc \notin {"file", "check", "submit"}
           \/ agent'[b].task \in manifest'.tasks
    BY <1>4, ToStep, ReplyStep DEF IInv, Steps, Idle
  <2>2. \/ manifest.tasks \subseteq manifest'.tasks
        \/ "overwritten" \in spoiled'
    BY DEF Ensure, Mkdir, Seed, List, Replace, Spoil, files
  <2> QED
    BY <1>2, <2>1, <2>2, BriefKept
<1> QED
  BY <1>1, <1>5, <1>6, <1>7, <1>8 DEF IInv

\* ensureBrief adds its task to the manifest it has read.
LEMMA AppendStep ==
  ASSUME IInv, NEW a \in Agents, Append(a)
  PROVE  IInv'
<1>1. TypeOK'
  BY AgentType DEF IInv, EnsureBrief
<1>2. /\ UNCHANGED <<job, rounds>> /\ To(a, "file")
      /\ agent[a].pc \in Briefing /\ agent[a].task \in TaskIds
      /\ spoiled \subseteq spoiled' /\ (manifest # copy[a] => "overwritten" \in spoiled')
  BY SpoilType, BriefTask DEF Append, At, Briefing, IInv
<1>3. copy[a] \in Manifests /\ a \in Writers
  BY KeyFacts DEF IInv, TypeOK
<1> DEFINE added == [copy[a] EXCEPT !.tasks = @ \cup {agent[a].task}]
<1>4. /\ Update(a, added)
      /\ added.attempts = copy[a].attempts
      /\ added.tasks = copy[a].tasks \cup {agent[a].task}
  BY <1>2, <1>3, AddedType DEF Append
<1>5. KeyInv' /\ PoliteInv' /\ \A t \in TaskIds : Passed(t)' \subseteq Passed(t)
  BY <1>2, MoveKeeps DEF Steps, Briefing
<1>6. CountInv' /\ ExactInv'
  <2> HIDE DEF added
  <2> QED
    BY <1>2, <1>3, <1>4, StandStill, WriteKeeps
<1>7. LimitInv'
  BY <1>1, <1>2, <1>5, LimitStill
<1>8. BriefIsListed'
  <2>1. \A b \in Agents : agent'[b] = agent[b] \/ agent'[b].task \in manifest'.tasks
    BY <1>2, <1>4, ToStep DEF IInv, Steps, Update
  <2>2. manifest.tasks \subseteq manifest'.tasks \/ "overwritten" \in spoiled'
    BY <1>2, <1>4 DEF Update
  <2> QED
    BY <1>2, <2>1, <2>2, BriefKept
<1> QED
  BY <1>1, <1>5, <1>6, <1>7, <1>8 DEF IInv

\* plan.md is written.
LEMMA FileStep ==
  ASSUME IInv, NEW a \in Agents, File(a)
  PROVE  IInv'
<1>1. TypeOK'
  BY AgentType DEF IInv, EnsureBrief
<1>2. /\ UNCHANGED <<manifest, copy, job, rounds, spoiled>>
      /\ agent[a].pc = "file"
      /\ \/ To(a, "check")
         \/ To(a, "submit") /\ agent[a].stage # "judge"
  BY DEF File, At, history
<1>3. KeyInv' /\ PoliteInv' /\ \A t \in TaskIds : Passed(t)' \subseteq Passed(t)
  BY <1>2, MoveKeeps DEF Steps, Briefing, KeyOf
<1>4. CountInv' /\ ExactInv'
  BY <1>2, StandStill, CountKept
<1>5. LimitInv'
  BY <1>1, <1>2, <1>3, LimitStill
<1>6. BriefIsListed'
  BY <1>2, ToStep, BriefKept DEF IInv, Steps
<1> QED
  BY <1>1, <1>3, <1>4, <1>5, <1>6 DEF IInv

\* A write of ensureBrief fails, and the call with it.
LEMMA BriefFailsStep ==
  ASSUME IInv, NEW a \in Agents, BriefFails(a)
  PROVE  IInv'
<1>1. TypeOK'
  BY AgentType DEF IInv, EnsureBrief
<1>2. /\ UNCHANGED <<manifest, job, rounds, spoiled>> /\ Reply(a)
      /\ copy' = [copy EXCEPT ![a] = NoManifest]
  BY DEF BriefFails, files
<1>3. KeyInv' /\ PoliteInv' /\ \A t \in TaskIds : Passed(t)' \subseteq Passed(t)
  BY <1>2, ReplyKeeps
<1>4. CountInv' /\ ExactInv'
  BY <1>2, StandStill, DropKeeps, KeyFacts
<1>5. LimitInv'
  BY <1>1, <1>2, <1>3, LimitStill
<1>6. BriefIsListed'
  BY <1>2, ReplyStep DEF Idle, IInv, BriefIsListed
<1> QED
  BY <1>1, <1>3, <1>4, <1>5, <1>6 DEF IInv

\* What the rounds of a task, its job and a call that passes now come to.
LEMMA CheckedLimit ==
  ASSUME IInv, spoiled = {}, NEW a \in Agents, NEW t \in TaskIds, KeyOf(a) = <<"judge", t>>,
         judgeAttempts(t) < maxJudgeAttempts,
         NEW S \in SUBSET Agents, Polite => S = {a}
  PROVE  rounds[t] + Working(t) + Cardinality(S) <= maxJudgeAttempts + Slack
<1>1. rounds[t] \in Nat /\ judgeAttempts(t) = Due(t) /\ judgeAttempts(t) \in Nat
  BY DEF IInv, TypeOK, ExactInv, judgeAttempts, Manifests
<1>2. rounds[t] + Working(t) <= 2 /\ Working(t) \in Nat
  BY <1>1 DEF Working, Due, Open, Judged, maxJudgeAttempts
<1>3. IsFiniteSet(S) /\ Cardinality(S) \in Nat
      /\ Cardinality(S) <= Cardinality(Agents) /\ Cardinality(Agents) \in Nat
  BY LedgerAssumption, FS_Subset, FS_CardinalityType
<1>4. CASE Polite
  <2>1. agent[a].stage = "judge" /\ job[<<"judge", t>>] = "idle"
    BY <1>4 DEF IInv, PoliteInv, KeyOf
  <2>2. Working(t) = 0 /\ rounds[t] <= 1
    BY <1>1, <2>1 DEF Working, Due, Open, Judged, maxJudgeAttempts
  <2>3. Cardinality(S) = 1
    BY <1>4, FS_Singleton
  <2> QED
    BY <1>1, <1>4, <2>2, <2>3 DEF Slack, maxJudgeAttempts
<1>5. CASE ~Polite
  BY <1>1, <1>2, <1>3, <1>5 DEF Slack, maxJudgeAttempts
<1> QED
  BY <1>4, <1>5

\* The ledger is checked: whoever passes adds to the calls that may judge.
LEMMA CheckStep ==
  ASSUME IInv, NEW a \in Agents, Check(a)
  PROVE  IInv'
<1>1. TypeOK'
  BY AgentType DEF IInv
<1>2. /\ UNCHANGED <<manifest, copy, job, rounds, spoiled>> /\ agent[a].pc = "check"
      /\ Reply(a) \/ (To(a, "submit") /\ ~(judgeAttempts(agent[a].task) >= maxJudgeAttempts))
  BY DEF Check, At, files, history
<1>3. KeyInv' /\ PoliteInv'
  BY <1>2, MoveKeeps, ReplyKeeps DEF Steps, Briefing
<1>4. CountInv' /\ ExactInv'
  BY <1>2, StandStill, CountKept
<1>5. LimitInv'
  <2>1. CASE Reply(a)
    BY <1>1, <1>2, <2>1, ReplyKeeps, LimitStill
  <2>2. CASE To(a, "submit")
    <3> SUFFICES ASSUME spoiled' = {}, NEW t \in TaskIds
                 PROVE  rounds'[t] + Working(t)' + Cardinality(Passed(t)') <= maxJudgeAttempts + Slack
      BY DEF LimitInv, Slack
    <3>1. rounds'[t] = rounds[t] /\ Working(t)' = Working(t) /\ spoiled = {}
      BY <1>2, StandStill
    <3>2. \A b \in Agents : KeyOf(b)' = KeyOf(b) /\ (b # a => agent'[b] = agent[b])
      BY <2>2, ToStep DEF IInv, KeyOf, Steps
    <3>3. CASE KeyOf(a) = <<"judge", t>>
      <4>1. judgeAttempts(t) < maxJudgeAttempts
        <5>1. judgeAttempts(t) \in Nat /\ agent[a].task = t /\ agent[a].pc # "idle"
          BY <1>2, <3>3 DEF IInv, TypeOK, judgeAttempts, Manifests, KeyOf
        <5>2. ~Reply(a) => ~(judgeAttempts(t) >= maxJudgeAttempts)
          BY <1>2, <5>1
        <5>3. ~Reply(a)
          BY <2>2, ToStep, ReplyStep DEF IInv, Steps, Idle
        <5> QED
          BY <5>1, <5>2, <5>3 DEF maxJudgeAttempts
      <4>2. Polite => Passed(t)' = {a}
        <5> SUFFICES ASSUME Polite PROVE Passed(t)' = {a}
          OBVIOUS
        <5>1. \A b \in Agents : KeyOf(b) = KeyOf(a) => b = a
          BY <3>3 DEF IInv, PoliteInv, KeyOf
        <5>2. At(a, "submit")'
          BY <2>2, ToStep DEF IInv, Steps, At
        <5> QED
          BY <3>2, <3>3, <5>1, <5>2 DEF Passed
      <4>3. Passed(t)' \in SUBSET Agents
        BY DEF Passed
      <4> QED
        BY <3>1, <3>3, <4>1, <4>2, <4>3, CheckedLimit
    <3>4. CASE KeyOf(a) # <<"judge", t>>
      <4>1. Passed(t)' = Passed(t)
        BY <3>2, <3>4 DEF Passed, At
      <4> QED
        BY <3>1, <4>1 DEF IInv, LimitInv
    <3> QED
      BY <3>3, <3>4
  <2> QED
    BY <1>2, <2>1, <2>2
<1>6. BriefIsListed'
  <2>1. \A b \in Agents : \/ agent'[b] = agent[b]
                          \/ agent'[b].pc = "idle"
                          \/ /\ agent'[b].stage = agent[b].stage
                             /\ agent'[b].task = agent[b].task
                             /\ agent'[b].opt = agent[b].opt
                             /\ agent[b].pc = "check"
    BY <1>2, ToStep, ReplyStep DEF IInv, Steps, Idle
  <2> QED
    BY <1>2, <2>1, BriefKept
<1> QED
  BY <1>1, <1>3, <1>4, <1>5, <1>6 DEF IInv

\* A call that submits hands its right to a round to the job, or loses it.
LEMMA SubmitStep ==
  ASSUME IInv, NEW a \in Agents, Submit(a)
  PROVE  IInv'
<1> DEFINE k == KeyOf(a)
<1>1. TypeOK'
  BY AgentType DEF IInv
<1>2. /\ UNCHANGED <<manifest, copy, rounds, spoiled>> /\ agent[a].pc = "submit" /\ Reply(a)
  BY DEF Submit, At, files, history
<1>3. k \in Keys
  BY <1>2 DEF IInv, KeyInv, Idle
<1>4. /\ agent'[a] = Idle
      /\ \A b \in Agents : b # a => agent'[b] = agent[b] /\ KeyOf(b)' = KeyOf(b)
  BY <1>2, ReplyStep DEF IInv, KeyOf
<1>5. /\ \A j \in Keys : j # k => job'[j] = job[j]
      /\ job'[k] = job[k]
         \/ (job[k] = "idle" /\ job'[k] \in {"work", "init", "force"} /\ (k # PlanKey => job'[k] = "work"))
  BY <1>3 DEF Submit, Begins, IInv, TypeOK
<1>6. KeyInv'
  BY <1>3, <1>4, <1>5 DEF IInv, KeyInv, Idle, Briefing
<1>7. \A t \in TaskIds : Due(t)' = Due(t)
  BY <1>2, <1>5, KeyFacts DEF Due, Open, Judged
<1>8. CountInv' /\ ExactInv'
  BY <1>2, <1>7, CountKept
<1>9. PoliteInv'
  <2> SUFFICES ASSUME Polite, NEW b \in Agents, NEW c \in Agents, agent'[b].stage = "judge"
               PROVE  job'[KeyOf(b)'] = "idle" /\ (KeyOf(c)' = KeyOf(b)' => c = b)
    BY DEF PoliteInv
  <2>1. b # a /\ KeyOf(b)' = KeyOf(b) /\ agent[b].stage = "judge" /\ KeyOf(b)[1] = "judge"
    BY <1>4 DEF Idle, KeyOf
  <2>2. KeyOf(a)'[1] # "judge"
    BY <1>4 DEF Idle, KeyOf
  <2>3. job[KeyOf(b)] = "idle" /\ \A d \in Agents : KeyOf(d) = KeyOf(b) => d = b
    BY <2>1 DEF IInv, PoliteInv
  <2>4. KeyOf(b) \in Keys /\ KeyOf(b) # k
    BY <2>1, <2>3 DEF IInv, KeyInv, Idle
  <2> QED
    BY <1>4, <1>5, <2>1, <2>2, <2>3, <2>4
<1>10. LimitInv'
  <2> SUFFICES ASSUME spoiled' = {}, NEW t \in TaskIds
               PROVE  rounds'[t] + Working(t)' + Cardinality(Passed(t)') <= maxJudgeAttempts + Slack
    BY DEF LimitInv, Slack
  <2>1. Passed(t)' = Passed(t) \ {a}
    BY <1>4 DEF Passed, At, Idle
  <2>2. /\ IsFiniteSet(Passed(t)) /\ Cardinality(Passed(t)) \in Nat
        /\ Cardinality(Passed(t)') \in Nat
        /\ Cardinality(Passed(t)') = IF a \in Passed(t) THEN Cardinality(Passed(t)) - 1
                                     ELSE Cardinality(Passed(t))
    BY <2>1, LedgerAssumption, FS_Subset, FS_CardinalityType, FS_RemoveElement DEF Passed
  <2>3. Working(t)' <= Working(t) + (IF a \in Passed(t) THEN 1 ELSE 0)
        /\ Working(t) \in Nat /\ Working(t)' \in Nat
    <3>1. CASE k = <<"judge", t>>
      BY <1>2, <1>5, <3>1 DEF Working, Passed, At
    <3>2. CASE k # <<"judge", t>>
      BY <1>5, <3>2, KeyFacts DEF Working
    <3> QED
      BY <3>1, <3>2
  <2>4. rounds[t] + Working(t) + Cardinality(Passed(t)) <= maxJudgeAttempts + Slack
        /\ rounds'[t] = rounds[t] /\ rounds[t] \in Nat
    BY <1>2 DEF IInv, LimitInv, TypeOK
  <2>5. maxJudgeAttempts + Slack \in Nat
    BY LedgerAssumption, FS_CardinalityType DEF maxJudgeAttempts, Slack
  <2> QED
    BY <2>2, <2>3, <2>4, <2>5
<1>11. BriefIsListed'
  BY <1>2, <1>4, BriefKept DEF Idle
<1> QED
  BY <1>1, <1>6, <1>8, <1>9, <1>10, <1>11 DEF IInv

\* A job that goes on to its next step keeps the rest when it keeps the counts
\* and adds no round.
LEMMA JobTurn ==
  ASSUME IInv, TypeOK', CountInv', ExactInv',
         NEW k \in Keys, NEW from \in JobPCs \ {"idle"}, NEW to \in JobPCs,
         JobTo(k, from, to), UNCHANGED agent, to \in {"bump", "bumping"} => k[1] = "judge",
         spoiled \subseteq spoiled',
         \A t \in TaskIds : rounds'[t] + Working(t)' <= rounds[t] + Working(t),
         \/ manifest.tasks \subseteq manifest'.tasks
         \/ "overwritten" \in spoiled'
  PROVE  IInv'
<1>1. KeyInv' /\ PoliteInv' /\ \A t \in TaskIds : Passed(t)' \subseteq Passed(t)
  BY JobKeeps
<1>2. LimitInv'
  BY <1>1, LimitKept
<1>3. BriefIsListed'
  BY BriefKept
<1> QED
  BY <1>1, <1>2, <1>3 DEF IInv

\* A job that does not start to work adds no round by that.
LEMMA WorkKept ==
  ASSUME TypeOK, NEW k \in Keys, NEW from, NEW to \in JobPCs \ {"work"}, JobTo(k, from, to),
         UNCHANGED rounds
  PROVE  \A t \in TaskIds : rounds'[t] + Working(t)' <= rounds[t] + Working(t)
<1> SUFFICES ASSUME NEW t \in TaskIds
             PROVE  rounds'[t] + Working(t)' <= rounds[t] + Working(t)
  OBVIOUS
<1>1. rounds'[t] = rounds[t] /\ rounds[t] \in Nat
  BY DEF TypeOK
<1>2. Working(t)' <= Working(t) /\ Working(t) \in Nat /\ Working(t)' \in Nat
  BY JobToStep, KeyFacts DEF Working
<1> QED
  BY <1>1, <1>2

\* A job fails while it works, and has judged nothing.
LEMMA WorkFailsStep ==
  ASSUME IInv, NEW k \in Keys \ {PlanKey}, WorkFails(k)
  PROVE  IInv'
<1>1. TypeOK'
  BY JobType DEF IInv, JobStep
<1>2. JobTo(k, "work", "idle") /\ UNCHANGED <<agent, manifest, copy, rounds, spoiled>>
  BY DEF WorkFails, files, history
<1>3. "work" \in JobPCs \ {"idle"} /\ "idle" \in JobPCs \ {"work"}
  BY DEF JobPCs
<1>4. \A t \in TaskIds : Due(t)' = Due(t)
  BY <1>2, <1>3, DueKept DEF Judged, IInv
<1>5. CountInv' /\ ExactInv'
  BY <1>2, <1>4, CountKept
<1>6. \A t \in TaskIds : rounds'[t] + Working(t)' <= rounds[t] + Working(t)
  BY <1>2, <1>3, WorkKept DEF IInv
<1> QED
  BY <1>1, <1>2, <1>3, <1>5, <1>6, JobTurn

\* A verdict is a round that is not due before it has been counted.
LEMMA WorkSucceedsStep ==
  ASSUME IInv, NEW k \in Keys \ {PlanKey}, WorkSucceeds(k)
  PROVE  IInv'
<1>1. TypeOK'
  BY JobType DEF IInv, JobStep
<1>2. /\ JobTo(k, "work", "mark") /\ UNCHANGED <<agent, manifest, copy, spoiled>>
      /\ rounds' = IF k[1] = "judge" THEN [rounds EXCEPT ![k[2]] = @ + 1] ELSE rounds
  BY DEF WorkSucceeds, files
<1>3. "work" \in JobPCs \ {"idle"} /\ "mark" \in JobPCs \ {"work"}
  BY DEF JobPCs, Judged
<1>4. job[k] = "work" /\ job'[k] = "mark" /\ \A j \in Keys : j # k => job'[j] = job[j]
  BY <1>2, <1>3, JobToStep DEF IInv
<1>5. \A t \in TaskIds : rounds[t] \in Nat
  BY DEF IInv, TypeOK
<1>6. ASSUME NEW t \in TaskIds
      PROVE  Due(t)' = Due(t) /\ rounds'[t] + Working(t)' <= rounds[t] + Working(t)
  <2>1. CASE k = <<"judge", t>>
    <3>1. rounds'[t] = rounds[t] + 1 /\ "judge" \in Stages
      BY <1>2, <2>1, KeyFacts DEF IInv, TypeOK
    <3>2. Open(t)' /\ ~Open(t) /\ Working(t) = 1 /\ Working(t)' = 0
      BY <1>4, <2>1, <3>1 DEF Open, Working, Judged
    <3> QED
      BY <1>5, <3>1, <3>2 DEF Due
  <2>2. CASE k # <<"judge", t>>
    <3>1. rounds'[t] = rounds[t]
      BY <1>2, <2>2, KeyFacts DEF IInv, TypeOK
    <3>2. (Open(t)' <=> Open(t)) /\ Working(t)' = Working(t) /\ Working(t) \in Nat
      BY <1>4, <2>2, KeyFacts DEF Open, Working
    <3> QED
      BY <1>5, <3>1, <3>2 DEF Due
  <2> QED
    BY <2>1, <2>2
<1>7. CountInv' /\ ExactInv'
  BY <1>2, <1>6, CountKept
<1> QED
  BY <1>1, <1>2, <1>3, <1>6, <1>7, JobTurn

\* The manifest in which a task is marked is read.
LEMMA MarkReadStep ==
  ASSUME IInv, NEW k \in Keys \ {PlanKey}, MarkRead(k)
  PROVE  IInv'
<1>1. TypeOK'
  BY JobType DEF IInv, JobStep
<1>2. UNCHANGED <<agent, manifest, rounds, spoiled>>
  BY DEF MarkRead, files, history
<1>3. PICK to \in {"marking", AfterMark(k)} : JobTo(k, "mark", to)
  BY DEF MarkRead
<1>4. /\ "mark" \in JobPCs \ {"idle"} /\ to \in JobPCs \ {"work"}
      /\ to \in {"bump", "bumping"} => k[1] = "judge"
      /\ k[1] = "judge" => to \in Judged
  BY <1>3 DEF AfterMark, JobPCs, Judged
<1>5. \A t \in TaskIds : Due(t)' = Due(t)
  BY <1>2, <1>3, <1>4, DueKept DEF Judged, IInv
<1>6. CountInv' /\ ExactInv'
  BY <1>2, <1>5, ReadKeeps, CountKept, KeyFacts DEF MarkRead
<1>7. \A t \in TaskIds : rounds'[t] + Working(t)' <= rounds[t] + Working(t)
  BY <1>2, <1>3, <1>4, WorkKept DEF IInv
<1> QED
  BY <1>1, <1>2, <1>3, <1>4, <1>6, <1>7, JobTurn

\* ... and written back.
LEMMA MarkWriteStep ==
  ASSUME IInv, NEW k \in Keys \ {PlanKey}, MarkWrite(k)
  PROVE  IInv'
<1>1. TypeOK'
  BY JobType DEF IInv, JobStep
<1>2. /\ UNCHANGED <<agent, rounds>> /\ JobTo(k, "marking", AfterMark(k)) /\ Update(k, copy[k])
      /\ spoiled \subseteq spoiled' /\ (manifest # copy[k] => "overwritten" \in spoiled')
  BY SpoilType DEF MarkWrite, IInv
<1>3. /\ "marking" \in JobPCs \ {"idle"} /\ AfterMark(k) \in JobPCs \ {"work"}
      /\ AfterMark(k) \in {"bump", "bumping"} => k[1] = "judge"
      /\ k[1] = "judge" => AfterMark(k) \in Judged
  BY DEF AfterMark, JobPCs, Judged
<1>4. \A t \in TaskIds : Due(t)' = Due(t)
  BY <1>2, <1>3, DueKept DEF Judged, IInv
<1>5. CountInv' /\ ExactInv'
  BY <1>2, <1>4, WriteKeeps, KeyFacts
<1>6. \A t \in TaskIds : rounds'[t] + Working(t)' <= rounds[t] + Working(t)
  BY <1>2, <1>3, WorkKept DEF IInv
<1>7. manifest.tasks \subseteq manifest'.tasks \/ "overwritten" \in spoiled'
  BY <1>2 DEF Update
<1> QED
  BY <1>1, <1>2, <1>3, <1>5, <1>6, <1>7, JobTurn

\* ... or not, which changes neither counts nor rounds.
LEMMA MarkFailsStep ==
  ASSUME IInv, NEW k \in Keys \ {PlanKey}, MarkFails(k)
  PROVE  IInv'
<1>1. TypeOK'
  BY JobType DEF IInv, JobStep
<1>2. /\ UNCHANGED <<agent, manifest, rounds, spoiled>> /\ JobTo(k, "marking", AfterMark(k))
      /\ copy' = [copy EXCEPT ![k] = NoManifest]
  BY DEF MarkFails, files
<1>3. /\ "marking" \in JobPCs \ {"idle"} /\ AfterMark(k) \in JobPCs \ {"work"}
      /\ AfterMark(k) \in {"bump", "bumping"} => k[1] = "judge"
      /\ k[1] = "judge" => AfterMark(k) \in Judged
  BY DEF AfterMark, JobPCs, Judged
<1>4. \A t \in TaskIds : Due(t)' = Due(t)
  BY <1>2, <1>3, DueKept DEF Judged, IInv
<1>5. CountInv' /\ ExactInv'
  BY <1>2, <1>4, DropKeeps, KeyFacts
<1>6. \A t \in TaskIds : rounds'[t] + Working(t)' <= rounds[t] + Working(t)
  BY <1>2, <1>3, WorkKept DEF IInv
<1> QED
  BY <1>1, <1>2, <1>3, <1>5, <1>6, JobTurn

\* A round that is left behind uncounted is due all the same.
LEMMA DueGrows ==
  ASSUME TypeOK, UNCHANGED rounds, NEW k \in Keys, NEW from \in Judged, NEW to \in JobPCs,
         JobTo(k, from, to), k[1] = "judge"
  PROVE  /\ \A t \in TaskIds : Due(t)' >= Due(t) /\ Due(t) \in Int /\ Due(t)' \in Int
         /\ to \notin Judged => \A t \in TaskIds :
               Due(t)' = Due(t) + (IF t = k[2] THEN 1 ELSE 0)
<1>1. job[k] = from /\ job'[k] = to /\ \A j \in Keys : j # k => job'[j] = job[j]
  BY JobToStep
<1>2. k = <<"judge", k[2]>> /\ "judge" \in Stages
  BY KeyFacts
<1> SUFFICES ASSUME NEW t \in TaskIds
             PROVE  /\ Due(t)' >= Due(t) /\ Due(t) \in Int /\ Due(t)' \in Int
                    /\ to \notin Judged => Due(t)' = Due(t) + (IF t = k[2] THEN 1 ELSE 0)
  OBVIOUS
<1>3. rounds[t] \in Nat /\ rounds'[t] = rounds[t]
  BY DEF TypeOK
<1>4. CASE t = k[2]
  <2>1. Open(t) /\ (Open(t)' <=> to \in Judged)
    BY <1>1, <1>2, <1>4 DEF Open
  <2> QED
    BY <1>3, <1>4, <2>1 DEF Due
<1>5. CASE t # k[2]
  <2>1. <<"judge", t>> # k
    BY <1>2, <1>5
  <2>2. Open(t)' <=> Open(t)
    BY <1>1, <1>2, <2>1, KeyFacts DEF Open
  <2> QED
    BY <1>3, <1>5, <2>2 DEF Due
<1> QED
  BY <1>4, <1>5

\* What claims no more than is due does not when more is due.
LEMMA ClaimsGrow ==
  ASSUME \A t \in TaskIds : Due(t)' >= Due(t) /\ Due(t) \in Int /\ Due(t)' \in Int,
         NEW m \in Manifests, ClaimsNoMore(m)
  PROVE  \A t \in TaskIds : m.attempts[t] <= Due(t)' /\ (m.attempts[t] > 0 => t \in m.tasks)
<1> SUFFICES ASSUME NEW t \in TaskIds
             PROVE  m.attempts[t] <= Due(t)' /\ (m.attempts[t] > 0 => t \in m.tasks)
  OBVIOUS
<1>1. m.attempts[t] \in Nat
  BY DEF Manifests
<1> QED
  BY <1>1 DEF ClaimsNoMore

\* A round that is lost leaves the ledger short, and no longer exact.
LEMMA RoundLost ==
  ASSUME IInv, UNCHANGED <<manifest, rounds>>, spoiled' # {},
         \A w \in Writers : copy'[w] = copy[w] \/ copy'[w] = NoManifest,
         NEW k \in Keys, NEW from \in Judged, NEW to \in JobPCs, JobTo(k, from, to),
         k[1] = "judge"
  PROVE  CountInv' /\ ExactInv'
<1>1. \A t \in TaskIds : Due(t)' >= Due(t) /\ Due(t) \in Int /\ Due(t)' \in Int
  BY DueGrows DEF IInv
<1>2. manifest \in Manifests /\ ClaimsNoMore(manifest)
  BY DEF IInv, TypeOK, CountInv
<1>3. ClaimsNoMore(manifest)'
  BY <1>1, <1>2, ClaimsGrow DEF ClaimsNoMore
<1>4. ASSUME NEW w \in Writers PROVE ClaimsNoMore(copy[w])'
  <2>1. ClaimsNoMore(NoManifest)
    BY <1>2, NoManifestType DEF ClaimsNoMore, Manifests, Due, IInv, TypeOK
  <2>2. copy'[w] \in Manifests /\ ClaimsNoMore(copy'[w])
    BY <2>1, NoManifestType DEF IInv, TypeOK, CountInv
  <2> QED
    BY <1>1, <2>2, ClaimsGrow DEF ClaimsNoMore
<1> QED
  BY <1>3, <1>4 DEF CountInv, ExactInv

\* The manifest in which a round is counted is read; when there is none, the
\* round is lost, and the ledger no longer exact.
LEMMA BumpReadStep ==
  ASSUME IInv, NEW k \in Keys \ {PlanKey}, BumpRead(k)
  PROVE  IInv'
<1>1. TypeOK'
  BY JobType DEF IInv, JobStep
<1>2. UNCHANGED <<agent, manifest, rounds>> /\ spoiled \subseteq spoiled'
  BY SpoilType DEF BumpRead, files, IInv
<1>3. PICK to \in {"bumping", "idle"} : JobTo(k, "bump", to)
  BY DEF BumpRead
<1>4. "bump" \in JobPCs \ {"idle"} /\ "bump" \in Judged /\ to \in JobPCs \ {"work"}
  BY <1>3 DEF JobPCs, Judged
<1>5. k[1] = "judge"
  BY <1>3 DEF JobTo, IInv, KeyInv
<1>6. CountInv' /\ ExactInv'
  <2>1. CASE manifest.exists
    <3>1. JobTo(k, "bump", "bumping") /\ Read(k) /\ "bumping" \in JobPCs
      BY <2>1 DEF BumpRead, JobPCs, Judged
    <3>2. \A t \in TaskIds : Due(t)' = Due(t)
      BY <1>2, <3>1, DueKept DEF Judged, IInv
    <3> QED
      BY <1>2, <3>1, <3>2, ReadKeeps, KeyFacts
  <2>2. CASE ~manifest.exists
    <3>1. UNCHANGED copy /\ spoiled' # {} /\ "idle" \in JobPCs /\ JobTo(k, "bump", "idle")
      BY <2>2 DEF BumpRead, Spoil, JobPCs
    <3> QED
      BY <1>2, <1>4, <1>5, <3>1, RoundLost
  <2> QED
    BY <2>1, <2>2
<1>7. \A t \in TaskIds : rounds'[t] + Working(t)' <= rounds[t] + Working(t)
  BY <1>2, <1>3, <1>4, WorkKept DEF IInv
<1> QED
  BY <1>1, <1>2, <1>3, <1>4, <1>5, <1>6, <1>7, JobTurn

\* The round is counted in the manifest that was read: one more claim, and one
\* more round that is due.
LEMMA BumpWriteStep ==
  ASSUME IInv, NEW k \in Keys \ {PlanKey}, BumpWrite(k)
  PROVE  IInv'
<1> DEFINE u == k[2]
           bumped == Bumped(copy[k], u)
<1>1. TypeOK'
  BY JobType DEF IInv, JobStep
<1>2. /\ UNCHANGED <<agent, rounds>> /\ JobTo(k, "bumping", "idle") /\ Update(k, bumped)
      /\ spoiled \subseteq spoiled' /\ (manifest # copy[k] => "overwritten" \in spoiled')
      /\ u \notin copy[k].tasks => spoiled' # {}
  BY SpoilType DEF BumpWrite, Spoil, IInv
<1>3. "bumping" \in JobPCs \ {"idle"} /\ "bumping" \in Judged
      /\ "idle" \in JobPCs \ {"work"} /\ "idle" \notin Judged
  BY DEF JobPCs, Judged
<1>4. k[1] = "judge" /\ u \in TaskIds
  BY <1>2, KeyFacts DEF JobTo, IInv, KeyInv
<1>5. \A t \in TaskIds : Due(t)' = Due(t) + (IF t = u THEN 1 ELSE 0) /\ Due(t) \in Int
  BY <1>2, <1>3, <1>4, DueGrows DEF IInv
<1>6. /\ copy[k] \in Manifests /\ k \in Writers /\ ClaimsNoMore(copy[k])
      /\ \A t \in TaskIds : copy[k].attempts[t] \in Nat
  BY KeyFacts DEF IInv, TypeOK, CountInv, Manifests
<1>7. /\ bumped.tasks = copy[k].tasks
      /\ \A t \in TaskIds : bumped.attempts[t] =
            copy[k].attempts[t] + (IF t = u /\ u \in copy[k].tasks THEN 1 ELSE 0)
  BY <1>4, <1>6, BumpedType
<1> HIDE DEF bumped
<1>8. CountInv'
  <2>1. ClaimsNoMore(manifest)'
    <3> SUFFICES ASSUME NEW t \in TaskIds
                 PROVE  /\ manifest'.attempts[t] <= Due(t)'
                        /\ manifest'.attempts[t] > 0 => t \in manifest'.tasks
      BY DEF ClaimsNoMore
    <3>1. copy[k].attempts[t] <= Due(t) /\ (copy[k].attempts[t] > 0 => t \in copy[k].tasks)
      BY <1>6 DEF ClaimsNoMore
    <3>2. manifest' = bumped
      BY <1>2 DEF Update, bumped
    <3> QED
      BY <1>5, <1>6, <1>7, <3>1, <3>2
  <2>2. \A t \in TaskIds : Due(t)' >= Due(t) /\ Due(t) \in Int /\ Due(t)' \in Int
    BY <1>5
  <2>3. \A w \in Writers : copy'[w] = copy[w] \/ copy'[w] = NoManifest
    BY <1>2 DEF IInv, TypeOK, Update
  <2>4. ClaimsNoMore(NoManifest)
    BY <1>6, NoManifestType DEF ClaimsNoMore, Due, IInv, TypeOK, CountInv
  <2>5. \A w \in Writers : ClaimsNoMore(copy[w])'
    <3> SUFFICES ASSUME NEW w \in Writers PROVE ClaimsNoMore(copy[w])'
      OBVIOUS
    <3>1. PICK m \in Manifests : m = copy'[w] /\ ClaimsNoMore(m)
      BY <2>3, <2>4, NoManifestType DEF IInv, TypeOK, CountInv
    <3> QED
      BY <2>2, <3>1, ClaimsGrow DEF ClaimsNoMore
  <2> QED
    BY <2>1, <2>5 DEF CountInv
<1>9. ExactInv'
  <2> SUFFICES ASSUME spoiled' = {}, NEW t \in TaskIds
               PROVE  manifest'.attempts[t] = Due(t)'
    BY DEF ExactInv, judgeAttempts
  <2>1. manifest' = bumped /\ manifest = copy[k] /\ u \in copy[k].tasks /\ spoiled = {}
    BY <1>2 DEF Update, bumped
  <2>2. copy[k].attempts[t] = Due(t)
    BY <2>1 DEF IInv, ExactInv, judgeAttempts
  <2> QED
    BY <1>5, <1>7, <2>1, <2>2
<1>10. \A t \in TaskIds : rounds'[t] + Working(t)' <= rounds[t] + Working(t)
  BY <1>2, <1>3, WorkKept DEF IInv
<1>11. manifest.tasks \subseteq manifest'.tasks \/ "overwritten" \in spoiled'
  BY <1>2, <1>7 DEF Update, bumped
<1> QED
  BY <1>1, <1>2, <1>3, <1>4, <1>8, <1>9, <1>10, <1>11, JobTurn

\* The manifest with the count is not written: the round is lost.
LEMMA BumpFailsStep ==
  ASSUME IInv, NEW k \in Keys \ {PlanKey}, BumpFails(k)
  PROVE  IInv'
<1>1. TypeOK'
  BY JobType DEF IInv, JobStep
<1>2. /\ UNCHANGED <<agent, manifest, rounds>> /\ JobTo(k, "bumping", "idle")
      /\ spoiled \subseteq spoiled' /\ spoiled' # {}
      /\ \A w \in Writers : copy'[w] = copy[w] \/ copy'[w] = NoManifest
  BY SpoilType DEF BumpFails, files, IInv, TypeOK
<1>3. "bumping" \in JobPCs \ {"idle"} /\ "bumping" \in Judged /\ "idle" \in JobPCs \ {"work"}
  BY DEF JobPCs, Judged
<1>4. k[1] = "judge"
  BY <1>2 DEF JobTo, IInv, KeyInv
<1>5. CountInv' /\ ExactInv'
  BY <1>2, <1>3, <1>4, RoundLost
<1>6. \A t \in TaskIds : rounds'[t] + Working(t)' <= rounds[t] + Working(t)
  BY <1>2, <1>3, WorkKept DEF IInv
<1> QED
  BY <1>1, <1>2, <1>3, <1>5, <1>6, JobTurn

\* A planning job up to its last step: it writes no manifest.
LEMMA PlanningStep ==
  ASSUME IInv, PlanInit \/ PlanMkdir \/ PlanTask \/ PlanFails
  PROVE  IInv'
<1>1. TypeOK'
  BY PlanType DEF IInv, PlanStep
<1>2. UNCHANGED <<agent, manifest, copy, rounds, spoiled>>
  BY DEF PlanInit, PlanMkdir, PlanTask, PlanFails, files, history
<1>3. CASE PlanTask
  <2>1. UNCHANGED job
    BY <1>3 DEF PlanTask
  <2>2. KeyInv' /\ PoliteInv' /\ \A t \in TaskIds : Passed(t)' \subseteq Passed(t)
    BY <1>2, <2>1 DEF IInv, KeyInv, PoliteInv, KeyOf, Passed, At
  <2>3. CountInv' /\ ExactInv'
    BY <1>2, <2>1, StandStill, CountKept
  <2>4. LimitInv'
    BY <1>1, <1>2, <2>1, <2>2, LimitStill
  <2>5. BriefIsListed'
    BY <1>2 DEF IInv, BriefIsListed
  <2> QED
    BY <1>1, <2>2, <2>3, <2>4, <2>5 DEF IInv
<1>4. CASE ~PlanTask
  <2>1. PICK from \in Planning, to \in Planning \cup {"idle"} : JobTo(PlanKey, from, to)
    BY <1>4 DEF PlanInit, PlanMkdir, PlanFails, Planning
  <2>2. /\ from \in JobPCs \ {"idle"} /\ to \in JobPCs \ {"work"} /\ to \notin {"bump", "bumping"}
    BY <2>1 DEF JobPCs, Planning, Judged
  <2>3. \A t \in TaskIds : Due(t)' = Due(t)
    BY <1>2, <2>1, <2>2, DueKept, KeyFacts DEF IInv
  <2>4. \A t \in TaskIds : rounds'[t] + Working(t)' <= rounds[t] + Working(t)
    BY <1>2, <2>1, <2>2, WorkKept, KeyFacts DEF IInv
  <2>5. CountInv' /\ ExactInv'
    BY <1>2, <2>3, CountKept
  <2> QED
    BY <1>1, <1>2, <2>1, <2>2, <2>4, <2>5, JobTurn, KeyFacts
<1> QED
  BY <1>3, <1>4

\* A planning job that starts the manifest anew, or lists the tasks.
LEMMA PlanWriteStep ==
  ASSUME IInv, PlanSeed \/ PlanCommit
  PROVE  IInv'
<1>1. TypeOK'
  BY PlanType DEF IInv, PlanStep
<1>2. PICK S \in SUBSET TaskIds : Replace(Listing(S))
  <2>1. PlanSeed => Replace(Listing({}))
    BY DEF PlanSeed
  <2>2. PlanCommit => Replace(Listing(1 .. (next - 1))) /\ 1 .. (next - 1) \subseteq TaskIds
    BY LedgerAssumption DEF PlanCommit, IInv, TypeOK, TaskIds
  <2> QED
    BY <2>1, <2>2
<1>3. /\ UNCHANGED <<agent, copy, rounds>>
      /\ spoiled \subseteq spoiled'
      /\ manifest.tasks \subseteq manifest'.tasks \/ "overwritten" \in spoiled'
  BY <1>2, SpoilType DEF PlanSeed, PlanCommit, Replace, IInv
<1>4. PICK from \in Planning, to \in Planning \cup {"idle"} : JobTo(PlanKey, from, to)
  BY DEF PlanSeed, PlanCommit, Planning
<1>5. /\ from \in JobPCs \ {"idle"} /\ to \in JobPCs \ {"work"} /\ to \notin {"bump", "bumping"}
  BY <1>4 DEF JobPCs, Planning, Judged
<1>6. \A t \in TaskIds : Due(t)' = Due(t)
  BY <1>3, <1>4, <1>5, DueKept, KeyFacts DEF IInv
<1>7. \A t \in TaskIds : rounds'[t] + Working(t)' <= rounds[t] + Working(t)
  BY <1>3, <1>4, <1>5, WorkKept, KeyFacts DEF IInv
<1>8. CountInv' /\ ExactInv'
  BY <1>2, <1>3, <1>6, ReplaceKeeps
<1> QED
  BY <1>1, <1>3, <1>4, <1>5, <1>7, <1>8, JobTurn, KeyFacts

\* A crash forgets calls, jobs and copies.  A round that was not counted is due.
LEMMA CrashStep ==
  ASSUME IInv, Crash
  PROVE  IInv'
<1>1. TypeOK'
  BY CrashType DEF IInv
<1>2. /\ UNCHANGED <<manifest, rounds>> /\ spoiled \subseteq spoiled'
      /\ \A k \in Keys : job'[k] = "idle" /\ (k[1] = "judge" /\ job[k] \in Judged => spoiled' # {})
      /\ \A a \in Agents : agent'[a] = Idle
      /\ \A w \in Writers : copy'[w] = NoManifest
  BY DEF Crash, files, Spoil
<1>3. KeyInv' /\ PoliteInv'
  BY <1>2 DEF KeyInv, PoliteInv, Idle, Briefing
<1>4. \A t \in TaskIds : Due(t)' = rounds[t] /\ Due(t) <= rounds[t] /\ rounds[t] \in Nat
                         /\ Due(t) \in Int /\ ~Open(t)'
  <2> SUFFICES ASSUME NEW t \in TaskIds
               PROVE  /\ Due(t)' = rounds[t] /\ Due(t) <= rounds[t] /\ rounds[t] \in Nat
                      /\ Due(t) \in Int /\ ~Open(t)'
    OBVIOUS
  <2>1. rounds[t] \in Nat /\ rounds'[t] = rounds[t]
    BY <1>2 DEF IInv, TypeOK
  <2>2. ~Open(t)'
    BY <1>2, KeyFacts DEF Open, Judged
  <2> QED
    BY <2>1, <2>2 DEF Due
<1>5. CountInv'
  <2>1. ClaimsNoMore(manifest)'
    <3> SUFFICES ASSUME NEW t \in TaskIds
                 PROVE  /\ manifest'.attempts[t] <= Due(t)'
                        /\ manifest'.attempts[t] > 0 => t \in manifest'.tasks
      BY DEF ClaimsNoMore
    <3>1. manifest.attempts[t] \in Nat /\ manifest.attempts[t] <= Due(t)
          /\ (manifest.attempts[t] > 0 => t \in manifest.tasks)
      BY DEF IInv, TypeOK, Manifests, CountInv, ClaimsNoMore
    <3> QED
      BY <1>2, <1>4, <3>1
  <2>2. \A w \in Writers : ClaimsNoMore(copy[w])'
    BY <1>2, <1>4, NoManifestType DEF ClaimsNoMore
  <2> QED
    BY <2>1, <2>2 DEF CountInv
<1>6. ExactInv'
  <2> SUFFICES ASSUME spoiled' = {}, NEW t \in TaskIds
               PROVE  manifest'.attempts[t] = Due(t)'
    BY DEF ExactInv, judgeAttempts
  <2>1. ~Open(t) /\ spoiled = {}
    BY <1>2, KeyFacts DEF Open
  <2> QED
    BY <1>2, <1>4, <2>1 DEF IInv, ExactInv, judgeAttempts, Due
<1>7. LimitInv'
  <2>1. \A t \in TaskIds : rounds'[t] + Working(t)' <= rounds[t] + Working(t)
    <3> SUFFICES ASSUME NEW t \in TaskIds
                 PROVE  rounds'[t] + Working(t)' <= rounds[t] + Working(t)
      OBVIOUS
    <3>1. Working(t)' = 0 /\ Working(t) \in Nat
      BY <1>2, KeyFacts DEF Working
    <3> QED
      BY <1>2, <1>4, <3>1
  <2>2. \A t \in TaskIds : Passed(t)' \subseteq Passed(t)
    BY <1>2 DEF Passed, At, Idle
  <2> QED
    BY <1>1, <1>2, <2>1, <2>2, LimitKept
<1>8. BriefIsListed'
  BY <1>2 DEF BriefIsListed, Idle
<1> QED
  BY <1>1, <1>3, <1>5, <1>6, <1>7, <1>8 DEF IInv

\* A step in which nothing happens.
LEMMA StutterStep ==
  ASSUME IInv, UNCHANGED vars
  PROVE  IInv'
<1> USE DEF vars, files, history
<1>1. TypeOK'
  BY DEF IInv, TypeOK
<1>2. KeyInv' /\ PoliteInv' /\ \A t \in TaskIds : Passed(t)' \subseteq Passed(t)
  BY DEF IInv, KeyInv, PoliteInv, KeyOf, Passed, At
<1>3. CountInv' /\ ExactInv'
  BY StandStill, CountKept
<1>4. LimitInv'
  BY <1>1, <1>2, LimitStill
<1>5. BriefIsListed'
  BY DEF IInv, BriefIsListed
<1> QED
  BY <1>1, <1>2, <1>3, <1>4, <1>5 DEF IInv

\* At the start nobody calls, nothing is judged, and nothing counted.
LEMMA InitIInv == Init => IInv
<1> SUFFICES ASSUME Init PROVE IInv
  OBVIOUS
<1>1. TypeOK
  BY InitType
<1>2. KeyInv /\ PoliteInv /\ BriefIsListed
  BY DEF Init, KeyInv, PoliteInv, BriefIsListed, Idle, Briefing
<1>3. \A t \in TaskIds : /\ Due(t) = 0 /\ Working(t) = 0 /\ rounds[t] = 0 /\ Passed(t) = {}
  BY KeyFacts DEF Init, Due, Open, Working, Judged, Passed, At, Idle
<1>4. CountInv
  BY <1>3, NoManifestType DEF Init, CountInv, ClaimsNoMore
<1>5. ExactInv
  BY <1>3, NoManifestType DEF Init, ExactInv, judgeAttempts
<1>6. LimitInv
  <2>1. maxJudgeAttempts + Slack \in Nat
    BY LedgerAssumption, FS_CardinalityType DEF maxJudgeAttempts, Slack
  <2> QED
    BY <1>3, <2>1, FS_EmptySet DEF LimitInv
<1> QED
  BY <1>1, <1>2, <1>4, <1>5, <1>6 DEF IInv

-----------------------------------------------------------------------------
\* Every step keeps the invariant.
LEMMA InductiveStep == IInv /\ [Next]_vars => IInv'
<1> SUFFICES ASSUME IInv, [Next]_vars PROVE IInv'
  OBVIOUS
<1>1. ASSUME NEW a \in Agents,
             \/ \E stage \in Stages, t \in 0 .. Tasks, opt \in BOOLEAN : Call(a, stage, t, opt)
             \/ EnsureBrief(a)
             \/ Check(a)
             \/ Submit(a)
      PROVE  IInv'
  BY <1>1, CallStep, EnsureStep, AppendStep, FileStep, BriefFailsStep, CheckStep,
     SubmitStep DEF EnsureBrief
<1>2. ASSUME NEW k \in Keys \ {PlanKey}, JobStep(k)
      PROVE  IInv'
  BY <1>2, WorkFailsStep, WorkSucceedsStep, MarkReadStep, MarkWriteStep, MarkFailsStep,
     BumpReadStep, BumpWriteStep, BumpFailsStep DEF JobStep
<1>3. CASE PlanStep
  BY <1>3, PlanningStep, PlanWriteStep DEF PlanStep
<1>4. CASE Crash
  BY <1>4, CrashStep
<1>5. CASE UNCHANGED vars
  BY <1>5, StutterStep
<1> QED
  BY <1>1, <1>2, <1>3, <1>4, <1>5 DEF Next

\* The invariant holds of every reachable state.
THEOREM Inductive == Spec => []IInv
  BY InitIInv, InductiveStep, PTL DEF Spec

\* Every variable keeps its type.
THEOREM TypeCorrect == Spec => []TypeOK
<1>1. IInv => TypeOK
  BY DEF IInv
<1> QED
  BY <1>1, Inductive, PTL

\* The ledger never claims a round that was not judged to its verdict, whoever
\* writes which stale copy of the manifest back, and whatever crashes.
THEOREM NeverEscalatedEarly == Spec => []NeverOvercounts
<1>1. IInv => NeverOvercounts
  <2> SUFFICES ASSUME IInv, NEW t \in TaskIds PROVE judgeAttempts(t) <= rounds[t]
    BY DEF NeverOvercounts
  <2>1. judgeAttempts(t) \in Nat /\ rounds[t] \in Nat /\ judgeAttempts(t) <= Due(t)
    BY DEF IInv, TypeOK, Manifests, judgeAttempts, CountInv, ClaimsNoMore
  <2> QED
    BY <2>1 DEF Due
<1> QED
  BY <1>1, Inductive, PTL

\* Between the rounds the ledger counts all of them, unless a manifest was
\* written over a newer one, the slug was planned anew, a task was judged that
\* no manifest listed, or a crash or a failed write hit a round between its
\* verdict and its count.
THEOREM ExactUnlessSpoiled == Spec => []LedgerExact
<1>1. IInv => LedgerExact
  BY DEF IInv, ExactInv, LedgerExact, Due, Open
<1> QED
  BY <1>1, Inductive, PTL

\* As long as it is exact no more than two rounds are judged, and one more for
\* every agent that does not await its judge jobs.
THEOREM RoundsAreLimited == Spec => []RoundLimit
<1>1. IInv => RoundLimit
  <2> SUFFICES ASSUME IInv, spoiled = {}, NEW t \in TaskIds
               PROVE  rounds[t] <= maxJudgeAttempts + Slack
    BY DEF RoundLimit, Slack
  <2>1. rounds[t] + Working(t) + Cardinality(Passed(t)) <= maxJudgeAttempts + Slack
    BY DEF IInv, LimitInv
  <2>2. rounds[t] \in Nat /\ Working(t) \in Nat
    BY DEF IInv, TypeOK, Working
  <2>3. Cardinality(Passed(t)) \in Nat /\ maxJudgeAttempts + Slack \in Nat
    BY LedgerAssumption, FS_Subset, FS_CardinalityType DEF Passed, maxJudgeAttempts, Slack
  <2> QED
    BY <2>1, <2>2, <2>3
<1> QED
  BY <1>1, Inductive, PTL

\* A call that passes a brief finds its task in the manifest when it goes on,
\* unless manifests have been written over one another.
THEOREM BriefsAreListed == Spec => []BriefIsListed
<1>1. IInv => BriefIsListed
  BY DEF IInv
<1> QED
  BY <1>1, Inductive, PTL

\* What tools_stages.go says of a third round is true of polite agents as long
\* as nothing has spoiled the ledger.
THEOREM PoliteRoundsRefused == Spec => [](Polite /\ spoiled = {} => ThirdRoundRefused)
<1>1. RoundLimit /\ TypeOK => (Polite /\ spoiled = {} => ThirdRoundRefused)
  BY DEF RoundLimit, ThirdRoundRefused, TypeOK, maxJudgeAttempts
<1> QED
  BY <1>1, RoundsAreLimited, TypeCorrect, PTL

-----------------------------------------------------------------------------
(* The jobs of the slug in the hands of the runner (LedgerJobs).              *)

\* Where a goroutine is before its stage.
Waiting == {"queued", "slotted", "started"}

\* Where the job of a key is then.
Begun(k) == IF k = PlanKey THEN {"init", "force"} ELSE {"work"}

\* The runner has one run per key, which is the one whose job is at work: from
\* the submit until its stage has returned.
JobsInv ==
    /\ active \in [Keys -> 0 .. MaxAttempts]
    /\ recent \in [Keys -> R!Snapshots]
    /\ pc \in [R!Runs -> R!PCs]
    /\ status \in [R!Runs -> R!Statuses]
    /\ \A r \in R!Runs : active[r[1]] = r[2] <=> pc[r] \in R!Registered
    /\ \A k \in Keys : active[k] = 0 => job[k] = "idle"
    /\ \A r \in R!Runs :
          /\ pc[r] \in Waiting => job[r[1]] \in Begun(r[1])
          /\ pc[r] \in Waiting \cup {"stage"} => status[r] \in {"queued", "running"}
          /\ pc[r] \in R!Registered \ (Waiting \cup {"stage"}) => job[r[1]] = "idle"

\* The places of a goroutine.
LEMMA Places ==
    /\ Waiting \subseteq R!Registered /\ "stage" \in R!Registered \ Waiting
    /\ R!Registered \subseteq R!PCs
    /\ {"none", "published", "exiting", "gone"} \subseteq R!PCs
    /\ {"none", "published", "exiting", "gone"} \cap R!Registered = {}
    /\ {"returned", "checked", "finishing", "deciding", "decided"} \subseteq R!Registered \ Waiting
  BY DEF Waiting, R!Registered, R!Executing, R!PCs, R!Live

\* A run is a key and the number of an attempt.
LEMMA RunFacts ==
  ASSUME MaxAttempts \in Nat
  PROVE  /\ \A r \in R!Runs : r[1] \in Keys /\ r[2] \in 1 .. MaxAttempts /\ r = <<r[1], r[2]>>
         /\ \A k \in Keys, n \in 1 .. MaxAttempts :
               <<k, n>> \in R!Runs /\ <<k, n>>[1] = k /\ <<k, n>>[2] = n
  BY DEF R!Runs

\* A goroutine that goes on stays the run of its key, or none.
LEMMA PlaceStep ==
  ASSUME JobsInv, NEW r \in R!Runs, NEW to \in R!PCs,
         UNCHANGED <<active, recent, job>>, pc' = [pc EXCEPT ![r] = to],
         status' \in [R!Runs -> R!Statuses], \A s \in R!Runs : s # r => status'[s] = status[s],
         pc[r] \in R!Registered <=> to \in R!Registered,
         to \in Waiting => pc[r] \in Waiting,
         to \in Waiting \cup {"stage"} => status'[r] \in {"queued", "running"},
         to \in R!Registered \ (Waiting \cup {"stage"}) => job[r[1]] = "idle"
  PROVE  JobsInv'
<1>1. pc' \in [R!Runs -> R!PCs] /\ pc'[r] = to /\ \A s \in R!Runs : s # r => pc'[s] = pc[s]
  BY DEF JobsInv
<1>2. ASSUME NEW s \in R!Runs
      PROVE  /\ active'[s[1]] = s[2] <=> pc'[s] \in R!Registered
             /\ pc'[s] \in Waiting => job'[s[1]] \in Begun(s[1])
             /\ pc'[s] \in Waiting \cup {"stage"} => status'[s] \in {"queued", "running"}
             /\ pc'[s] \in R!Registered \ (Waiting \cup {"stage"}) => job'[s[1]] = "idle"
  BY <1>1 DEF JobsInv
<1> QED
  BY <1>1, <1>2 DEF JobsInv, Begun

\* What happens to a goroutine that stays where it is.
LEMMA PlaceKept ==
  ASSUME JobsInv, UNCHANGED <<active, recent, job, pc, status>>
  PROVE  JobsInv'
  BY DEF JobsInv, Begun

\* The steps of the runner that are none of the ledger.
LEMMA GoroutineStep ==
  ASSUME JobsInv, NEW r \in R!Runs, Goroutine(r), MaxAttempts \in Nat
  PROVE  JobsInv'
<1> USE DEF R!Goto, R!registry, R!locals
<1>1. UNCHANGED job
  BY DEF Goroutine, vars
<1>2. CASE R!Acquire(r) \/ R!PersistRunning(r) \/ R!CheckDead(r) \/ R!CheckDeadline(r)
           \/ R!ReadCancelled(r) \/ R!PersistTerminal(r) \/ R!Exit(r)
  <2>1. PICK to \in {"slotted", "stage", "checked", "finishing", "deciding", "exiting", "gone"} :
           /\ pc' = [pc EXCEPT ![r] = to]
           /\ \/ pc[r] = "queued" /\ to = "slotted"
              \/ pc[r] = "started" /\ to = "stage"
              \/ pc[r] = "returned" /\ to = "checked"
              \/ pc[r] = "checked" /\ to = "finishing"
              \/ pc[r] = "finishing" /\ to = "deciding"
              \/ pc[r] = "published" /\ to = "exiting"
              \/ pc[r] = "exiting" /\ to = "gone"
    BY <1>2 DEF R!Acquire, R!PersistRunning, R!CheckDead, R!CheckDeadline, R!ReadCancelled,
       R!PersistTerminal, R!Exit
  <2>2. UNCHANGED <<active, recent, status>>
    BY <1>2 DEF R!Acquire, R!PersistRunning, R!CheckDead, R!CheckDeadline, R!ReadCancelled,
       R!PersistTerminal, R!Exit
  <2>3. /\ to \in R!PCs
        /\ pc[r] \in R!Registered <=> to \in R!Registered
        /\ to \in Waiting => pc[r] \in Waiting
        /\ to \in Waiting \cup {"stage"} => pc[r] \in Waiting
        /\ to \in R!Registered \ (Waiting \cup {"stage"})
              => pc[r] \in R!Registered \ (Waiting \cup {"stage"})
    BY <2>1 DEF Waiting, R!Registered, R!Executing, R!PCs, R!Live
  <2>4. /\ to \in Waiting \cup {"stage"} => status'[r] \in {"queued", "running"}
        /\ to \in R!Registered \ (Waiting \cup {"stage"}) => job[r[1]] = "idle"
    BY <2>2, <2>3 DEF JobsInv
  <2>5. status' \in [R!Runs -> R!Statuses] /\ \A s \in R!Runs : s # r => status'[s] = status[s]
    BY <2>2 DEF JobsInv
  <2> QED
    BY <1>1, <2>1, <2>2, <2>3, <2>4, <2>5, PlaceStep
<1>3. CASE R!SetRunning(r)
  <2>1. /\ pc[r] = "slotted" /\ pc' = [pc EXCEPT ![r] = "started"]
        /\ status' = [status EXCEPT ![r] = "running"] /\ UNCHANGED <<active, recent>>
    BY <1>3 DEF R!SetRunning
  <2>2. status' \in [R!Runs -> R!Statuses] /\ status'[r] = "running"
        /\ \A s \in R!Runs : s # r => status'[s] = status[s]
    BY <2>1 DEF JobsInv, R!Statuses
  <2>3. "started" \in R!PCs /\ "started" \in R!Registered /\ pc[r] \in R!Registered
        /\ "started" \in Waiting /\ pc[r] \in Waiting
    BY <2>1, Places DEF Waiting
  <2> QED
    BY <1>1, <2>1, <2>2, <2>3, PlaceStep
<1>4. CASE R!Decide(r)
  <2>1. /\ pc[r] = "deciding" /\ pc' = [pc EXCEPT ![r] = "decided"]
        /\ status' = [status EXCEPT ![r] = R!Outcome(err[r], explicit[r])]
        /\ UNCHANGED <<active, recent>>
    BY <1>4 DEF R!Decide
  <2>2. R!Outcome(err[r], explicit[r]) \in R!Statuses
    BY DEF R!Outcome, R!Statuses, R!Terminal
  <2>3. status' \in [R!Runs -> R!Statuses] /\ \A s \in R!Runs : s # r => status'[s] = status[s]
    BY <2>1, <2>2 DEF JobsInv
  <2>4. /\ "decided" \in R!PCs /\ "decided" \in R!Registered /\ pc[r] \in R!Registered
        /\ "decided" \notin Waiting \cup {"stage"} /\ pc[r] \notin Waiting \cup {"stage"}
    BY <2>1, Places DEF Waiting
  <2>5. job[r[1]] = "idle"
    BY <2>4 DEF JobsInv
  <2> QED
    BY <1>1, <2>1, <2>3, <2>4, <2>5, PlaceStep
<1>5. CASE R!Publish(r)
  <2>1. /\ pc[r] = "decided" /\ pc' = [pc EXCEPT ![r] = "published"] /\ UNCHANGED status
        /\ active' = [active EXCEPT ![r[1]] = 0]
        /\ recent' = [recent EXCEPT ![r[1]] = R!SnapshotOf(r)]
    BY <1>5 DEF R!Publish, R!Key
  <2>2. R!SnapshotOf(r) \in R!Snapshots /\ r[1] \in Keys /\ r[2] # 0
    BY RunFacts DEF JobsInv, R!SnapshotOf, R!Snapshots
  <2>3. active' \in [Keys -> 0 .. MaxAttempts] /\ recent' \in [Keys -> R!Snapshots]
        /\ pc' \in [R!Runs -> R!PCs]
    BY <2>1, <2>2, Places DEF JobsInv
  <2>4. /\ pc[r] \in R!Registered \ (Waiting \cup {"stage"}) /\ "published" \notin R!Registered
        /\ active[r[1]] = r[2] /\ job[r[1]] = "idle"
    BY <2>1, Places DEF JobsInv, Waiting
  <2>5. ASSUME NEW s \in R!Runs
        PROVE  /\ active'[s[1]] = s[2] <=> pc'[s] \in R!Registered
               /\ s # r => pc'[s] = pc[s]
    <3>1. CASE s = r
      BY <2>1, <2>2, <2>3, <2>4, <3>1 DEF JobsInv
    <3>2. CASE s # r /\ s[1] = r[1]
      <4>1. s[2] # r[2] /\ s[2] # 0
        BY <3>2, RunFacts
      <4> QED
        BY <2>1, <2>2, <2>4, <3>2, <4>1 DEF JobsInv
    <3>3. CASE s[1] # r[1]
      BY <2>1, <3>3, RunFacts DEF JobsInv
    <3> QED
      BY <3>1, <3>2, <3>3
  <2>6. \A k \in Keys : active'[k] = 0 => job'[k] = "idle"
    BY <1>1, <2>1, <2>2, <2>4 DEF JobsInv
  <2>7. "published" \notin Waiting \cup {"stage"} /\ pc'[r] = "published"
    BY <2>1, Places DEF JobsInv, Waiting
  <2> QED
    BY <1>1, <2>1, <2>3, <2>4, <2>5, <2>6, <2>7 DEF JobsInv, Begun
<1>6. CASE R!Narrate(r) \/ (\E limit \in Limits : R!Trip(r, limit)) \/ R!Deadline(r)
           \/ R!CancelDeliver(r)
  BY <1>1, <1>6, PlaceKept DEF R!Narrate, R!Trip, R!Deadline, R!CancelDeliver
<1> QED
  BY <1>2, <1>3, <1>4, <1>5, <1>6 DEF Goroutine, R!FinishStep

\* A stage has returned: its job is over.
LEMMA ReturnStep ==
  ASSUME JobsInv, NEW r \in R!Runs, Return(r)
  PROVE  JobsInv'
<1>1. /\ job[r[1]] = "idle" /\ UNCHANGED <<active, recent, status, job>>
      /\ pc[r] = "stage" /\ pc' = [pc EXCEPT ![r] = "returned"]
  BY DEF Return, R!Return, R!Key, R!Goto, R!registry, vars
<1>2. status' \in [R!Runs -> R!Statuses] /\ \A s \in R!Runs : s # r => status'[s] = status[s]
  BY <1>1 DEF JobsInv
<1>3. /\ "returned" \in R!PCs /\ "returned" \in R!Registered /\ pc[r] \in R!Registered
      /\ "returned" \notin Waiting \cup {"stage"}
  BY <1>1, Places DEF Waiting
<1> QED
  BY <1>1, <1>2, <1>3, PlaceStep

\* A job that never begins leaves the ledger as one that fails at once.
LEMMA AbortStep ==
  ASSUME IInv, JobsInv, NEW r \in R!Runs, AbortQueued(r), MaxAttempts \in Nat
  PROVE  Next /\ JobsInv'
<1>1. /\ pc[r] = "queued" /\ pc' = [pc EXCEPT ![r] = "finishing"]
      /\ UNCHANGED <<active, recent, status>>
      /\ job' = [job EXCEPT ![r[1]] = "idle"]
      /\ UNCHANGED <<files, agent, copy, next, history>>
  BY DEF AbortQueued, R!AbortQueued, R!Key, R!Goto, R!registry
<1>2. r[1] \in Keys /\ job[r[1]] \in Begun(r[1])
  BY <1>1, RunFacts DEF JobsInv, Waiting
<1>3. Next
  <2>1. CASE r[1] = PlanKey
    <3>1. PICK place \in Planning : job[PlanKey] = place
      BY <1>2, <2>1 DEF Begun, Planning
    <3>2. PlanFails
      BY <1>1, <2>1, <3>1 DEF PlanFails, JobTo
    <3> QED
      BY <3>2 DEF Next, PlanStep
  <2>2. CASE r[1] # PlanKey
    <3>1. WorkFails(r[1])
      BY <1>1, <1>2, <2>2 DEF WorkFails, JobTo, Begun
    <3>2. JobStep(r[1]) /\ r[1] \in Keys \ {PlanKey}
      BY <1>2, <2>2, <3>1 DEF JobStep
    <3> QED
      BY <3>2 DEF Next
  <2> QED
    BY <2>1, <2>2
<1>4. /\ pc' \in [R!Runs -> R!PCs] /\ pc'[r] = "finishing"
      /\ \A s \in R!Runs : s # r => pc'[s] = pc[s]
      /\ "finishing" \in R!Registered \ (Waiting \cup {"stage"}) /\ pc[r] \in R!Registered
      /\ job'[r[1]] = "idle" /\ \A k \in Keys : k # r[1] => job'[k] = job[k]
  BY <1>1, <1>2, Places DEF JobsInv, Waiting, IInv, TypeOK
<1>5. ASSUME NEW s \in R!Runs
      PROVE  /\ active'[s[1]] = s[2] <=> pc'[s] \in R!Registered
             /\ pc'[s] \in Waiting => job'[s[1]] \in Begun(s[1])
             /\ pc'[s] \in Waiting \cup {"stage"} => status'[s] \in {"queued", "running"}
             /\ pc'[s] \in R!Registered \ (Waiting \cup {"stage"}) => job'[s[1]] = "idle"
  <2>1. CASE s = r
    BY <1>1, <1>4, <2>1, Places DEF JobsInv
  <2>2. CASE s # r /\ s[1] = r[1]
    <3>1. active[r[1]] = r[2] /\ s[2] # r[2]
      BY <1>4, <2>2, RunFacts DEF JobsInv
    <3>2. pc[s] \notin R!Registered
      BY <2>2, <3>1 DEF JobsInv
    <3> QED
      BY <1>1, <1>4, <2>2, <3>1, <3>2, Places
  <2>3. CASE s[1] # r[1]
    BY <1>1, <1>4, <2>3, RunFacts DEF JobsInv
  <2> QED
    BY <2>1, <2>2, <2>3
<1>6. \A k \in Keys : active'[k] = 0 => job'[k] = "idle"
  BY <1>1, <1>4 DEF JobsInv
<1> QED
  BY <1>1, <1>3, <1>4, <1>5, <1>6 DEF JobsInv, Begun

\* The runner begins a run of a key that has none, whose job is idle therefore.
LEMMA SubmitNewStep ==
  ASSUME IInv, JobsInv, NEW a \in Agents, NEW f \in Fingerprints, SubmitNew(a, f),
         MaxAttempts \in Nat
  PROVE  Next /\ JobsInv'
<1> DEFINE k == KeyOf(a)
           n == recent[k].attempt + 1
           r == <<k, n>>
<1>1. k \in Keys
  BY DEF SubmitNew, At, IInv, KeyInv, Idle
<1>2. /\ active[k] = 0 /\ n <= MaxAttempts /\ UNCHANGED recent
      /\ active' = [active EXCEPT ![k] = n]
      /\ status' = [status EXCEPT ![r] = "queued"]
      /\ pc' = [pc EXCEPT ![r] = "queued"]
  BY DEF SubmitNew, R!SubmitNew
<1>3. job[k] = "idle" /\ n \in 1 .. MaxAttempts
  BY <1>1, <1>2 DEF JobsInv, R!Snapshots
<1>4. Next
  <2>1. Submit(a)
    BY <1>3 DEF SubmitNew, Submit
  <2> QED
    BY <2>1 DEF Next
<1>5. job' = [job EXCEPT ![k] = job'[k]] /\ job'[k] \in Begun(k)
  BY <1>1 DEF SubmitNew, Begins, Begun, IInv, TypeOK
<1>6. r \in R!Runs /\ r[1] = k /\ r[2] = n
  BY <1>1, <1>3, RunFacts
<1> HIDE DEF k, n, r
<1>7. /\ active' \in [Keys -> 0 .. MaxAttempts] /\ active'[k] = n
      /\ \A j \in Keys : j # k => active'[j] = active[j] /\ job'[j] = job[j]
      /\ pc' \in [R!Runs -> R!PCs] /\ pc'[r] = "queued"
      /\ status' \in [R!Runs -> R!Statuses] /\ status'[r] = "queued"
      /\ \A s \in R!Runs : s # r => pc'[s] = pc[s] /\ status'[s] = status[s]
      /\ "queued" \in R!Registered /\ "queued" \in Waiting
  BY <1>1, <1>2, <1>3, <1>5, <1>6, Places DEF JobsInv, IInv, TypeOK, R!Statuses, Waiting
<1>8. ASSUME NEW s \in R!Runs
      PROVE  /\ active'[s[1]] = s[2] <=> pc'[s] \in R!Registered
             /\ pc'[s] \in Waiting => job'[s[1]] \in Begun(s[1])
             /\ pc'[s] \in Waiting \cup {"stage"} => status'[s] \in {"queued", "running"}
             /\ pc'[s] \in R!Registered \ (Waiting \cup {"stage"}) => job'[s[1]] = "idle"
  <2>1. CASE s = r
    BY <1>5, <1>6, <1>7, <2>1
  <2>2. CASE s # r /\ s[1] = k
    <3>1. s[2] # n /\ s[2] # 0
      BY <1>6, <2>2, RunFacts DEF r
    <3>2. pc[s] \notin R!Registered
      BY <1>2, <2>2, <3>1 DEF JobsInv
    <3> QED
      BY <1>7, <2>2, <3>1, <3>2, Places
  <2>3. CASE s[1] # k
    BY <1>6, <1>7, <2>3, RunFacts DEF JobsInv
  <2> QED
    BY <2>1, <2>2, <2>3
<1>9. \A j \in Keys : active'[j] = 0 => job'[j] = "idle"
  BY <1>3, <1>7 DEF JobsInv
<1> QED
  BY <1>2, <1>4, <1>7, <1>8, <1>9 DEF JobsInv, Begun

\* A step of a stage is one of its job alone.
LEMMA StageStep ==
  ASSUME IInv, JobsInv, NEW k \in Keys, Stage(k), MaxAttempts \in Nat
  PROVE  Next /\ JobsInv'
<1>1. Next
  BY DEF Stage, Next
<1>2. UNCHANGED <<active, recent, pc, status>>
  BY DEF Stage, engine
<1>3. \A j \in Keys : j # k => job'[j] = job[j]
  <2>1. CASE k = PlanKey
    BY <2>1 DEF Stage, PlanStep, PlanInit, PlanMkdir, PlanSeed, PlanTask, PlanFails, PlanCommit,
       JobTo, IInv, TypeOK
  <2>2. CASE k # PlanKey
    BY <2>2 DEF Stage, JobStep, WorkFails, WorkSucceeds, MarkRead, MarkWrite, MarkFails, BumpRead,
       BumpWrite, BumpFails, JobTo, IInv, TypeOK
  <2> QED
    BY <2>1, <2>2
<1>4. active[k] # 0 /\ \A s \in R!Runs : s[1] = k =>
         pc[s] \notin Waiting /\ pc[s] \notin R!Registered \ (Waiting \cup {"stage"})
  <2>1. active[k] # 0 /\ pc[<<k, active[k]>>] = "stage"
    BY DEF Stage, InStage
  <2>2. ASSUME NEW s \in R!Runs, s[1] = k, pc[s] \in R!Registered
        PROVE  pc[s] = "stage"
    BY <2>1, <2>2, RunFacts DEF JobsInv
  <2> QED
    BY <2>1, <2>2, Places
<1>5. ASSUME NEW s \in R!Runs
      PROVE  /\ pc[s] \in Waiting => job'[s[1]] \in Begun(s[1])
             /\ pc[s] \in R!Registered \ (Waiting \cup {"stage"}) => job'[s[1]] = "idle"
  BY <1>3, <1>4, RunFacts DEF JobsInv
<1>6. \A j \in Keys : active[j] = 0 => job'[j] = "idle"
  BY <1>3, <1>4 DEF JobsInv
<1> QED
  BY <1>1, <1>2, <1>5, <1>6 DEF JobsInv, Begun

\* A handler, or an answer to its Submit, is nothing to the runner.
LEMMA HandlerStep ==
  ASSUME JobsInv, NEW a \in Agents, Handler(a) \/ SubmitActive(a)
  PROVE  Next /\ JobsInv'
<1>1. Next
  BY DEF Handler, SubmitActive, Submit, Next
<1>2. UNCHANGED job
  BY DEF Handler, SubmitActive, Call, EnsureBrief, Ensure, Mkdir, Seed, List, Append, File,
     BriefFails, Check
<1> QED
  BY <1>1, <1>2, PlaceKept DEF Handler, SubmitActive, engine

\* lf_cancel and Close change no place.
LEMMA ControlStep ==
  ASSUME JobsInv, Control
  PROVE  JobsInv'
  BY PlaceKept DEF Control, R!CancelFlag, R!Stop, R!Drained, R!registry, vars

\* Nothing is at work at a start, the first one or another.
LEMMA FreshRunner ==
  ASSUME MaxAttempts \in Nat
  PROVE  /\ JobsInit => JobsInv
         /\ Restart => JobsInv'
<1>1. R!NoJob \in R!Snapshots /\ "none" \in R!Statuses
  BY DEF R!NoJob, R!Snapshots, R!Statuses
<1>2. "none" \in R!PCs /\ "none" \notin R!Registered /\ "none" \notin Waiting \cup {"stage"}
  BY Places DEF Waiting
<1>3. \A s \in R!Runs : s[1] \in Keys /\ s[2] # 0
  BY RunFacts
<1>4. JobsInit => JobsInv
  BY <1>1, <1>2, <1>3 DEF JobsInit, Init, R!Init, JobsInv
<1>5. Restart => JobsInv'
  BY <1>1, <1>2, <1>3 DEF Restart, Restarted, Crash, JobsInv
<1> QED
  BY <1>4, <1>5

-----------------------------------------------------------------------------
\* Every step of the jobs is a step of the ledger, or none of it.
LEMMA JobsStep ==
  ASSUME MaxAttempts \in Nat, IInv, JobsInv, [JobsNext]_allVars
  PROVE  [Next]_vars /\ JobsInv'
<1>1. ASSUME NEW a \in Agents,
             Handler(a) \/ SubmitActive(a) \/ \E f \in Fingerprints : SubmitNew(a, f)
      PROVE  [Next]_vars /\ JobsInv'
  BY <1>1, HandlerStep, SubmitNewStep
<1>2. ASSUME NEW k \in Keys, Stage(k)
      PROVE  [Next]_vars /\ JobsInv'
  BY <1>2, StageStep
<1>3. ASSUME NEW r \in R!Runs, AbortQueued(r) \/ Return(r) \/ Goroutine(r)
      PROVE  [Next]_vars /\ JobsInv'
  <2>1. CASE AbortQueued(r)
    BY <2>1, AbortStep
  <2>2. CASE Return(r)
    BY <2>2, ReturnStep DEF Return
  <2>3. CASE Goroutine(r)
    BY <2>3, GoroutineStep DEF Goroutine
  <2> QED
    BY <1>3, <2>1, <2>2, <2>3
<1>4. CASE Control
  BY <1>4, ControlStep DEF Control
<1>5. CASE Restart
  BY <1>5, FreshRunner DEF Restart, Next
<1>6. CASE UNCHANGED allVars
  BY <1>6, PlaceKept DEF allVars, engine, vars
<1> QED
  BY <1>1, <1>2, <1>3, <1>4, <1>5, <1>6 DEF JobsNext

\* The runner has one run per key, and the ledger its invariant, in all states.
THEOREM JobsInductive ==
  ASSUME MaxAttempts \in Nat
  PROVE  JobsSpec => [](IInv /\ JobsInv)
<1>1. JobsInit => IInv /\ JobsInv
  BY InitIInv, FreshRunner DEF JobsInit
<1>2. IInv /\ JobsInv /\ [JobsNext]_allVars => (IInv /\ JobsInv)'
  BY JobsStep, InductiveStep
<1> QED
  BY <1>1, <1>2, PTL DEF JobsSpec

\* The jobs of a slug, as the runner queues, cancels, kills and restarts them,
\* are jobs as the ledger has them: one per key, from a submit to a return.
THEOREM JobsImplementLedger ==
  ASSUME MaxAttempts \in Nat
  PROVE  JobsSpec => Spec
<1>1. JobsInit => Init
  BY DEF JobsInit
<1>2. IInv /\ JobsInv /\ [JobsNext]_allVars => [Next]_vars
  BY JobsStep
<1> QED
  BY <1>1, <1>2, JobsInductive, PTL DEF JobsSpec, Spec

\* What holds of the ledger holds with the runner around it.
THEOREM LedgerIsSafe ==
  ASSUME MaxAttempts \in Nat
  PROVE  JobsSpec => [](NeverOvercounts /\ LedgerExact /\ RoundLimit /\ BriefIsListed)
  BY JobsImplementLedger, NeverEscalatedEarly, ExactUnlessSpoiled, RoundsAreLimited,
     BriefsAreListed, PTL

\* Whoever is told that a job is over finds all its writes in the slug.
THEOREM OverMeansWritten ==
  ASSUME MaxAttempts \in Nat
  PROVE  JobsSpec => []OverIsOver
<1>1. JobsInv => OverIsOver
  <2> SUFFICES ASSUME JobsInv, NEW k \in Keys, Answer(k).status \in R!Terminal
               PROVE  job[k] = "idle"
    BY DEF OverIsOver
  <2>1. CASE active[k] = 0
    BY <2>1 DEF JobsInv
  <2>2. CASE active[k] # 0
    <3> DEFINE r == <<k, active[k]>>
    <3>1. r \in R!Runs /\ r[1] = k /\ r[2] = active[k]
      BY <2>2, RunFacts DEF JobsInv
    <3>2. R!Get(k) = [attempt |-> active[k], status |-> status[r]] /\ R!NoJob.attempt = 0
      BY <2>2, <3>1 DEF R!Get, R!SnapshotOf, R!NoJob
    <3>3. R!Get(k) # R!NoJob
      BY <2>2, <3>2
    <3>4. status[r] \in R!Terminal
      BY <3>2, <3>3 DEF Answer
    <3>5. pc[r] \in R!Registered \ (Waiting \cup {"stage"})
      BY <3>1, <3>4 DEF JobsInv, R!Terminal
    <3> QED
      BY <3>1, <3>5 DEF JobsInv
  <2> QED
    BY <2>1, <2>2
<1> QED
  BY <1>1, JobsInductive, PTL
=============================================================================
