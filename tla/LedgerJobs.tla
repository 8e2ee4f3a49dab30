----------------------------- MODULE LedgerJobs -----------------------------
(***************************************************************************)
(* The jobs of one slug in the hands of the runner: JudgeLedger and Runner *)
(* together.  Submit is the runner's; a stage begins when its goroutine    *)
(* has a worker, and the goroutine goes on when the stage has returned.    *)
(* Other slugs have keys and manifests of their own.                       *)
(***************************************************************************)
EXTENDS JudgeLedger

CONSTANTS Fingerprints, NoFingerprint, Workers, MaxAttempts, WallClock, Limits,
          LossyDisk       \* as in Runner, whose keys are those of the slug

VARIABLES active, recent, disk, fp, status, pc, ctx, tripped, err, cancelled,
          explicit, sem, delivering, life, ctxAtReturn

R == INSTANCE Runner

engine  == <<active, recent, disk, fp, status, pc, ctx, tripped, err, cancelled,
             explicit, sem, delivering, life, ctxAtReturn>>
allVars == <<vars, engine>>

Up == life # "closed"

\* The goroutine of the key is in the stage.
InStage(k) == active[k] # 0 /\ pc[<<k, active[k]>>] = "stage"

-----------------------------------------------------------------------------
JobsInit == Init /\ R!Init

\* A handler up to its Submit: the runner has no part in it.
Handler(a) ==
    /\ Up
    /\ \/ \E stage \in Stages, t \in 0 .. Tasks, opt \in BOOLEAN : Call(a, stage, t, opt)
       \/ EnsureBrief(a)
       \/ Check(a)
    /\ UNCHANGED engine

\* Runner.Submit registers a job, whose stage is still to begin ...
SubmitNew(a, f) ==
    /\ At(a, "submit")
    /\ R!SubmitNew(KeyOf(a), f)
    /\ Begins(a)
    /\ Reply(a)
    /\ UNCHANGED <<files, copy, next, history>>

\* ... or finds one that is active: it is answered, or a conflict.
SubmitActive(a) ==
    /\ At(a, "submit")
    /\ Up
    /\ active[KeyOf(a)] # 0
    /\ Reply(a)
    /\ UNCHANGED <<files, job, copy, next, history, engine>>

\* A step of a stage.
Stage(k) ==
    /\ InStage(k)
    /\ IF k = PlanKey THEN PlanStep ELSE JobStep(k)
    /\ UNCHANGED engine

\* A job that is cancelled while queued never calls its stage.
AbortQueued(r) ==
    /\ R!AbortQueued(r)
    /\ job' = [job EXCEPT ![R!Key(r)] = "idle"]
    /\ UNCHANGED <<files, agent, copy, next, history>>

\* The stage returns when it is through, or has failed.
Return(r) ==
    /\ job[R!Key(r)] = "idle"
    /\ \E e \in R!Errs : R!Return(r, e)
    /\ UNCHANGED vars

\* What else the goroutine of a job does, and what happens to it.
Goroutine(r) ==
    /\ \/ R!Acquire(r)
       \/ R!SetRunning(r)
       \/ R!PersistRunning(r)
       \/ R!Narrate(r)
       \/ \E limit \in Limits : R!Trip(r, limit)
       \/ R!Deadline(r)
       \/ R!CheckDead(r)
       \/ R!CheckDeadline(r)
       \/ R!FinishStep(r)
       \/ R!CancelDeliver(r)
    /\ UNCHANGED vars

\* lf_cancel, and the shutdown of the server.
Control ==
    /\ (\E k \in Keys : R!CancelFlag(k)) \/ R!Stop \/ R!Drained
    /\ UNCHANGED vars

\* The runner of a new process: of its state, the job files remain.
Restarted ==
    /\ active' = [k \in Keys |-> 0]
    /\ recent' = [k \in Keys |-> R!NoJob]
    /\ fp' = [r \in R!Runs |-> NoFingerprint]
    /\ status' = [r \in R!Runs |-> "none"]
    /\ pc' = [r \in R!Runs |-> "none"]
    /\ ctx' = [r \in R!Runs |-> "alive"]
    /\ tripped' = [r \in R!Runs |-> {}]
    /\ err' = [r \in R!Runs |-> "nil"]
    /\ cancelled' = [r \in R!Runs |-> FALSE]
    /\ explicit' = [r \in R!Runs |-> FALSE]
    /\ sem' = {}
    /\ delivering' = {}
    /\ life' = "open"
    /\ ctxAtReturn' = [r \in R!Runs |-> "alive"]
    /\ UNCHANGED disk

\* The process dies, or has been closed, and is started again.
Restart == Crash /\ Restarted

JobsNext ==
    \/ \E a \in Agents :
          Handler(a) \/ SubmitActive(a) \/ \E f \in Fingerprints : SubmitNew(a, f)
    \/ \E k \in Keys : Stage(k)
    \/ \E r \in R!Runs : AbortQueued(r) \/ Return(r) \/ Goroutine(r)
    \/ Control
    \/ Restart

JobsSpec == JobsInit /\ [][JobsNext]_allVars

-----------------------------------------------------------------------------
\* What lf_job answers of a key: what the runner knows of it, else its file.
Answer(k) == IF R!Get(k) # R!NoJob THEN R!Get(k) ELSE disk[k]

\* Who is told that a job is over finds all its writes in the slug: no stage of
\* it is at work any more, cancelled, killed or not.  That is what polite agents
\* wait for.
OverIsOver == \A k \in Keys : Answer(k).status \in R!Terminal => job[k] = "idle"
=============================================================================
