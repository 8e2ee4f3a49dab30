------------------------------- MODULE Runner -------------------------------
(***************************************************************************)
(* The asynchronous job engine (internal/jobs): Runner with its active and *)
(* recent maps, its worker semaphore, one goroutine per submitted job, the *)
(* job's context, and the persistence hook that writes snapshots to disk.  *)
(*                                                                         *)
(* A run <<k, a>> is the goroutine of attempt a of job key k.  Every lock  *)
(* region of the code is one step, so steps of several runs, of Submit, of *)
(* Cancel and of Close interleave wherever the code holds no lock.         *)
(***************************************************************************)
EXTENDS Naturals, FiniteSets

CONSTANTS Keys,           \* job keys: project, slug, stage and task
          Fingerprints,   \* hashes of the submit arguments
          NoFingerprint,  \* that of a run nobody submitted
          Workers,        \* capacity of the semaphore
          MaxAttempts,    \* bound: attempts per key that are explored
          WallClock,      \* does the budget have a MaxWallClock > 0?
          Limits,         \* the limits in force, of "budget" and "no_progress"
          LossyDisk       \* can a write of a snapshot fail (it is only logged)?

ASSUME RunnerAssumption ==
    /\ Workers \in Nat \ {0}
    /\ MaxAttempts \in Nat \ {0}
    /\ WallClock \in BOOLEAN
    /\ Limits \subseteq {"budget", "no_progress"}
    /\ LossyDisk \in BOOLEAN
    /\ NoFingerprint \notin Fingerprints

VARIABLES active,         \* [Keys -> attempt registered in r.active, 0 if none]
          recent,         \* [Keys -> snapshot in r.recent]
          disk,           \* [Keys -> snapshot the store last wrote]
          fp,             \* [Runs -> fingerprint]
          status,         \* [Runs -> job.Status]
          pc,             \* [Runs -> where the goroutine is]
          ctx,            \* [Runs -> runCtx.Err()]
          tripped,        \* [Runs -> engine limits that have cancelled the job]
          err,            \* [Runs -> the goroutine's local err]
          cancelled,      \* [Runs -> running.cancelled]
          explicit,       \* [Runs -> finish's local explicitCancel]
          sem,            \* runs holding a semaphore slot
          delivering,     \* runs flagged by Cancel whose cancel() is still to come
          life,           \* the process: "open", "stopping", "closed"
          ctxAtReturn     \* history: ctx of a run when its stage returned

registry == <<active, recent, disk>>
locals   == <<tripped, err, explicit, ctxAtReturn>>
vars == <<active, recent, disk, fp, status, pc, ctx, tripped, err, cancelled,
          explicit, sem, delivering, life, ctxAtReturn>>

Runs == Keys \X (1 .. MaxAttempts)

Terminal == {"done", "failed", "cancelled", "budget_exhausted"}
Statuses == {"none", "queued", "running"} \cup Terminal

\* Attempt 0 stands for "not in the map" and "no file".
Snapshots == [attempt : 0 .. MaxAttempts, status : Statuses]
NoJob     == [attempt |-> 0, status |-> "none"]

CtxErrs == {"alive", "canceled", "deadline"}
Errs    == {"nil", "other", "canceled", "deadline", "wallclock", "budget", "no_progress"}

\* Where a goroutine can be.  Before `Registered` ends it is in r.active.
Executing  == {"slotted", "started", "stage", "returned", "checked"}
Registered == {"queued", "finishing", "deciding", "decided"} \cup Executing
Live       == Registered \cup {"published", "exiting"}
PCs        == Live \cup {"none", "gone"}

Key(r) == r[1]
SnapshotOf(r) == [attempt |-> r[2], status |-> status[r]]

\* Runner.Get: the live job if the key is active, else its last terminal one.
Get(k) == IF active[k] # 0 THEN SnapshotOf(<<k, active[k]>>) ELSE recent[k]

IsBudgetErr(e) == e \in {"wallclock", "budget"}

\* finish's switch: the outcome of a run whose local err is e.
Outcome(e, explicitCancel) ==
    IF e = "nil" THEN "done"
    ELSE IF explicitCancel THEN "cancelled"
    ELSE IF IsBudgetErr(e) THEN "budget_exhausted"
    ELSE IF e = "canceled" THEN "cancelled"
    ELSE "failed"

Goto(r, from, to) ==
    /\ pc[r] = from
    /\ pc' = [pc EXCEPT ![r] = to]

\* Runner.persist with the store behind it: the file of the key is replaced, or
\* the write fails, which is logged and otherwise ignored.
Write(k, snapshot) ==
    \/ disk' = [disk EXCEPT ![k] = snapshot]
    \/ LossyDisk /\ UNCHANGED disk

Persist(r) == Write(Key(r), SnapshotOf(r))

\* A context keeps the first error it gets.
Kill(c) == IF c = "alive" THEN "canceled" ELSE c

-----------------------------------------------------------------------------
(* Mutations: what plausible bugs would make of the definitions below.  None  *)
(* is part of the specification.                                              *)

\* Submit forgets to look for an active job.
SubmitUnchecked(k, f) ==
    LET r == <<k, recent[k].attempt + 1>>
    IN  /\ life # "closed"
        /\ r[2] <= MaxAttempts
        /\ active' = [active EXCEPT ![k] = r[2]]
        /\ fp' = [fp EXCEPT ![r] = f]
        /\ status' = [status EXCEPT ![r] = "queued"]
        /\ pc' = [pc EXCEPT ![r] = "queued"]
        /\ disk' = [disk EXCEPT ![k] = [attempt |-> r[2], status |-> "queued"]]
        /\ UNCHANGED <<recent, ctx, locals, cancelled, sem, delivering, life>>

\* One worker too many.
AcquireOffByOne(r) ==
    /\ Cardinality(sem) <= Workers
    /\ Goto(r, "queued", "slotted")
    /\ sem' = sem \cup {r}
    /\ UNCHANGED <<registry, fp, status, ctx, locals, cancelled, delivering, life>>

\* A job cancelled while queued waits for a slot all the same.
AbortQueuedSlow(r) ==
    /\ Cardinality(sem) < Workers
    /\ ctx[r] # "alive"
    /\ Goto(r, "queued", "finishing")
    /\ err' = [err EXCEPT ![r] = ctx[r]]
    /\ UNCHANGED <<registry, fp, status, ctx, tripped, explicit, ctxAtReturn,
                   cancelled, sem, delivering, life>>

\* A stage goroutine that was never joined narrates after the job has ended.
NarrateLate(r) ==
    /\ pc[r] \in {"stage", "exiting"}
    /\ disk' = [disk EXCEPT ![Key(r)] = [attempt |-> r[2], status |-> "running"]]
    /\ UNCHANGED <<active, recent, fp, status, pc, ctx, locals, cancelled, sem,
                   delivering, life>>

\* The success of a stage is believed although its context is dead.
CheckDeadNot(r) ==
    /\ Goto(r, "returned", "checked")
    /\ UNCHANGED <<registry, fp, status, ctx, locals, cancelled, sem, delivering, life>>

\* finish takes the job out of the registry where it reads the flag.
ReadAndUnregister(r) ==
    /\ Goto(r, "finishing", "deciding")
    /\ explicit' = [explicit EXCEPT ![r] = cancelled[r]]
    /\ active' = [active EXCEPT ![Key(r)] = 0]
    /\ recent' = [recent EXCEPT ![Key(r)] = SnapshotOf(r)]
    /\ UNCHANGED <<disk, fp, status, ctx, tripped, err, ctxAtReturn,
                   cancelled, sem, delivering, life>>

\* The outcome is persisted where it is decided, before it is published.
DecideAndPersist(r) ==
    /\ Goto(r, "deciding", "decided")
    /\ status' = [status EXCEPT ![r] = Outcome(err[r], explicit[r])]
    /\ disk' = [disk EXCEPT ![Key(r)] = [attempt |-> r[2], status |-> status'[r]]]
    /\ UNCHANGED <<active, recent, fp, ctx, locals, cancelled, sem, delivering, life>>

\* The terminal snapshot is not persisted.
PublishOnly(r) ==
    /\ Goto(r, "decided", "exiting")
    /\ active' = [active EXCEPT ![Key(r)] = 0]
    /\ recent' = [recent EXCEPT ![Key(r)] = SnapshotOf(r)]
    /\ UNCHANGED <<disk, fp, status, ctx, locals, cancelled, sem, delivering, life>>

\* The slot is not given back.
ExitHolding(r) ==
    /\ Goto(r, "exiting", "gone")
    /\ UNCHANGED <<registry, fp, status, ctx, locals, cancelled, sem, delivering, life>>

\* Cancel cancels the context without flagging the job.
CancelUnflagged(k) ==
    /\ life # "closed"
    /\ active[k] # 0
    /\ delivering' = delivering \cup {<<k, active[k]>>}
    /\ UNCHANGED <<registry, fp, status, pc, ctx, locals, cancelled, sem, life>>

\* stop() reaches only the jobs that hold a worker.
StopRunning ==
    /\ life = "open"
    /\ life' = "stopping"
    /\ ctx' = [r \in Runs |-> IF pc[r] \in Executing THEN Kill(ctx[r]) ELSE ctx[r]]
    /\ UNCHANGED <<registry, fp, status, pc, locals, cancelled, sem, delivering>>

-----------------------------------------------------------------------------
Init ==
    /\ active = [k \in Keys |-> 0]
    /\ recent = [k \in Keys |-> NoJob]
    /\ disk = [k \in Keys |-> NoJob]
    /\ fp = [r \in Runs |-> NoFingerprint]
    /\ status = [r \in Runs |-> "none"]
    /\ pc = [r \in Runs |-> "none"]
    /\ ctx = [r \in Runs |-> "alive"]
    /\ tripped = [r \in Runs |-> {}]
    /\ err = [r \in Runs |-> "nil"]
    /\ cancelled = [r \in Runs |-> FALSE]
    /\ explicit = [r \in Runs |-> FALSE]
    /\ sem = {}
    /\ delivering = {}
    /\ life = "open"
    /\ ctxAtReturn = [r \in Runs |-> "alive"]

\* Submit on a key that is not active: register, persist "queued", start the
\* goroutine, all under r.mu.  A job context made after stop() is born dead.
SubmitNew(k, f) ==
    LET a == recent[k].attempt + 1
        r == <<k, a>>
    IN  /\ life # "closed"
        /\ active[k] = 0
        /\ a <= MaxAttempts
        /\ active' = [active EXCEPT ![k] = a]
        /\ fp' = [fp EXCEPT ![r] = f]
        /\ status' = [status EXCEPT ![r] = "queued"]
        /\ pc' = [pc EXCEPT ![r] = "queued"]
        /\ ctx' = [ctx EXCEPT ![r] = IF life = "open" THEN "alive" ELSE "canceled"]
        /\ Write(k, [attempt |-> a, status |-> "queued"])
        /\ UNCHANGED <<recent, locals, cancelled, sem, delivering, life>>

\* run's select: a slot is free, or the job is cancelled while queued.  When
\* both are ready the choice is arbitrary.
Acquire(r) ==
    /\ Cardinality(sem) < Workers
    /\ Goto(r, "queued", "slotted")
    /\ sem' = sem \cup {r}
    /\ UNCHANGED <<registry, fp, status, ctx, locals, cancelled, delivering, life>>

AbortQueued(r) ==
    /\ ctx[r] # "alive"
    /\ Goto(r, "queued", "finishing")
    /\ err' = [err EXCEPT ![r] = ctx[r]]
    /\ UNCHANGED <<registry, fp, status, ctx, tripped, explicit, ctxAtReturn,
                   cancelled, sem, delivering, life>>

SetRunning(r) ==
    /\ Goto(r, "slotted", "started")
    /\ status' = [status EXCEPT ![r] = "running"]
    /\ UNCHANGED <<registry, fp, ctx, locals, cancelled, sem, delivering, life>>

PersistRunning(r) ==
    /\ Goto(r, "started", "stage")
    /\ Persist(r)
    /\ UNCHANGED <<active, recent, fp, status, ctx, locals, cancelled, sem,
                   delivering, life>>

\* JobContext.Progress and SetPartial: a snapshot is persisted mid-stage.
Narrate(r) ==
    /\ pc[r] = "stage"
    /\ Persist(r)
    /\ UNCHANGED <<active, recent, fp, status, pc, ctx, locals, cancelled, sem,
                   delivering, life>>

\* StartModelCall and AddTokens over their budget, RecordFailure on the same
\* signature twice: the job context is cancelled and the stage gets the error.
Trip(r, limit) ==
    /\ pc[r] = "stage"
    /\ tripped' = [tripped EXCEPT ![r] = @ \cup {limit}]
    /\ ctx' = [ctx EXCEPT ![r] = Kill(@)]
    /\ UNCHANGED <<registry, fp, status, pc, err, explicit, ctxAtReturn,
                   cancelled, sem, delivering, life>>

\* The wall-clock budget of runCtx fires.
Deadline(r) ==
    /\ WallClock
    /\ pc[r] \in {"stage", "returned", "checked"}
    /\ ctx[r] = "alive"
    /\ ctx' = [ctx EXCEPT ![r] = "deadline"]
    /\ UNCHANGED <<registry, fp, status, pc, locals, cancelled, sem, delivering, life>>

\* What a stage can return: success, an error of its own, the error of its
\* dead context, or the limit error it was handed.
StageErrs(r) ==
    {"nil", "other"} \cup tripped[r] \cup ({ctx[r]} \ {"alive"})

Return(r, e) ==
    /\ Goto(r, "stage", "returned")
    /\ e \in StageErrs(r)
    /\ err' = [err EXCEPT ![r] = e]
    /\ ctxAtReturn' = [ctxAtReturn EXCEPT ![r] = ctx[r]]
    /\ UNCHANGED <<registry, fp, status, ctx, tripped, explicit, cancelled, sem,
                   delivering, life>>

\* The first read of runCtx.Err(): no success on a dead context.
CheckDead(r) ==
    /\ Goto(r, "returned", "checked")
    /\ err' = [err EXCEPT ![r] = IF @ = "nil" /\ ctx[r] # "alive" THEN ctx[r] ELSE @]
    /\ UNCHANGED <<registry, fp, status, ctx, tripped, explicit, ctxAtReturn,
                   cancelled, sem, delivering, life>>

\* The second read: a wall-clock kill is classified as such.
CheckDeadline(r) ==
    /\ Goto(r, "checked", "finishing")
    /\ err' = [err EXCEPT ![r] = IF ctx[r] = "deadline" THEN "wallclock" ELSE @]
    /\ UNCHANGED <<registry, fp, status, ctx, tripped, explicit, ctxAtReturn,
                   cancelled, sem, delivering, life>>

\* finish, region by region: read the cancel flag under r.mu ...
ReadCancelled(r) ==
    /\ Goto(r, "finishing", "deciding")
    /\ explicit' = [explicit EXCEPT ![r] = cancelled[r]]
    /\ UNCHANGED <<registry, fp, status, ctx, tripped, err, ctxAtReturn,
                   cancelled, sem, delivering, life>>

\* ... set the terminal status under jc.mu ...
Decide(r) ==
    /\ Goto(r, "deciding", "decided")
    /\ status' = [status EXCEPT ![r] = Outcome(err[r], explicit[r])]
    /\ UNCHANGED <<registry, fp, ctx, locals, cancelled, sem, delivering, life>>

\* ... move the job from active to recent under r.mu ...
Publish(r) ==
    /\ Goto(r, "decided", "published")
    /\ active' = [active EXCEPT ![Key(r)] = 0]
    /\ recent' = [recent EXCEPT ![Key(r)] = SnapshotOf(r)]
    /\ UNCHANGED <<disk, fp, status, ctx, locals, cancelled, sem, delivering, life>>

\* ... and persist it, outside every lock.
PersistTerminal(r) ==
    /\ Goto(r, "published", "exiting")
    /\ Persist(r)
    /\ UNCHANGED <<active, recent, fp, status, ctx, locals, cancelled, sem,
                   delivering, life>>

\* run's deferred calls: release the slot if one is held, wg.Done.  What the
\* goroutine alone still referred to ceases to exist.
Exit(r) ==
    /\ Goto(r, "exiting", "gone")
    /\ sem' = sem \ {r}
    /\ ctx' = [ctx EXCEPT ![r] = "alive"]
    /\ tripped' = [tripped EXCEPT ![r] = {}]
    /\ err' = [err EXCEPT ![r] = "nil"]
    /\ cancelled' = [cancelled EXCEPT ![r] = FALSE]
    /\ explicit' = [explicit EXCEPT ![r] = FALSE]
    /\ ctxAtReturn' = [ctxAtReturn EXCEPT ![r] = "alive"]
    /\ fp' = [fp EXCEPT ![r] = NoFingerprint]
    /\ UNCHANGED <<registry, status, delivering, life>>

-----------------------------------------------------------------------------
\* Cancel of an active key: flag it under r.mu; cancel() comes after unlock and
\* no longer matters once the run has left the registry.
CancelFlag(k) ==
    LET r == <<k, active[k]>>
    IN  /\ life # "closed"
        /\ active[k] # 0
        /\ cancelled' = [cancelled EXCEPT ![r] = TRUE]
        /\ delivering' = delivering \cup {r}
        /\ UNCHANGED <<registry, fp, status, pc, ctx, locals, sem, life>>

CancelDeliver(r) ==
    /\ r \in delivering
    /\ delivering' = delivering \ {r}
    /\ ctx' = [ctx EXCEPT ![r] = IF pc[r] \in Registered THEN Kill(@) ELSE @]
    /\ UNCHANGED <<registry, fp, status, pc, locals, cancelled, sem, life>>

\* Close: stop() kills every job context, then wg.Wait() for the goroutines.
Stop ==
    /\ life = "open"
    /\ life' = "stopping"
    /\ ctx' = [r \in Runs |-> IF pc[r] \in Registered THEN Kill(ctx[r]) ELSE ctx[r]]
    /\ UNCHANGED <<registry, fp, status, pc, locals, cancelled, sem, delivering>>

Drained ==
    /\ life = "stopping"
    /\ \A r \in Runs : pc[r] \in {"none", "gone"}
    /\ life' = "closed"
    /\ UNCHANGED <<registry, fp, status, pc, ctx, locals, cancelled, sem, delivering>>

\* The process has exited.
Exited == life = "closed" /\ UNCHANGED vars

FinishStep(r) ==
    ReadCancelled(r) \/ Decide(r) \/ Publish(r) \/ PersistTerminal(r) \/ Exit(r)

\* What a goroutine does without waiting for anything but the scheduler.
OwnStep(r) ==
    \/ AbortQueued(r)
    \/ SetRunning(r)
    \/ PersistRunning(r)
    \/ CheckDead(r)
    \/ CheckDeadline(r)
    \/ FinishStep(r)

StageStep(r) ==
    \/ Narrate(r)
    \/ \E limit \in Limits : Trip(r, limit)
    \/ \E e \in Errs : Return(r, e)

Next ==
    \/ \E k \in Keys, f \in Fingerprints : SubmitNew(k, f)
    \/ \E k \in Keys : CancelFlag(k)
    \/ \E r \in Runs :
          Acquire(r) \/ OwnStep(r) \/ StageStep(r) \/ Deadline(r) \/ CancelDeliver(r)
    \/ Stop
    \/ Drained
    \/ Exited

Spec == Init /\ [][Next]_vars

\* StageFunc "must honor ctx": on a dead context it returns.
ReturnDead(r) == ctx[r] # "alive" /\ \E e \in Errs : Return(r, e)

\* The Go scheduler runs what can run; a channel hands its free slots to the
\* blocked senders in order, hence strong fairness of Acquire.  Nothing
\* makes a stage with a live context return, a client submit or cancel.
Fairness ==
    /\ \A r \in Runs :
          /\ WF_vars(OwnStep(r))
          /\ SF_vars(Acquire(r))
          /\ WF_vars(ReturnDead(r))
          /\ WF_vars(CancelDeliver(r))
    /\ WF_vars(Drained)

FairSpec == Spec /\ Fairness

\* With a wall-clock budget: timers fire.
TimersFire == \A r \in Runs : WF_vars(Deadline(r))

-----------------------------------------------------------------------------
TypeOK ==
    /\ active \in [Keys -> 0 .. MaxAttempts]
    /\ recent \in [Keys -> Snapshots]
    /\ disk \in [Keys -> Snapshots]
    /\ fp \in [Runs -> Fingerprints \cup {NoFingerprint}]
    /\ status \in [Runs -> Statuses]
    /\ pc \in [Runs -> PCs]
    /\ ctx \in [Runs -> CtxErrs]
    /\ tripped \in [Runs -> SUBSET Limits]
    /\ err \in [Runs -> Errs]
    /\ cancelled \in [Runs -> BOOLEAN]
    /\ explicit \in [Runs -> BOOLEAN]
    /\ sem \in SUBSET Runs
    /\ delivering \in SUBSET Runs
    /\ life \in {"open", "stopping", "closed"}
    /\ ctxAtReturn \in [Runs -> CtxErrs]

\* Idempotent submit: however submits, cancels and finishes interleave, no two
\* runs of one key are ever at work together (a run is at work until finish
\* has published its outcome).
OneRunPerKey == \A r, s \in Runs :
    Key(r) = Key(s) /\ pc[r] \in Registered /\ pc[s] \in Registered => r = s

\* The worker bound: at most Workers goroutines are past the semaphore.
BoundedWorkers == Cardinality({r \in Runs : pc[r] \in Executing}) <= Workers

\* Where the outcome is settled but the goroutine still lives.
Settled == {"decided", "published", "exiting"}

\* Kill-switch integrity: a run whose context was dead, or whose limit had
\* tripped, when its stage returned is never reported done.
KillSwitch == \A r \in Runs :
    pc[r] \in Settled /\ status[r] = "done" => ctxAtReturn[r] = "alive" /\ tripped[r] = {}

\* While the server is up and no limit has tripped, only lf_cancel can cancel a
\* job context: a stage that returned on such a context ends cancelled, with
\* whatever error it came back, because Cancel flags the job before cancel().
CancelIsNamed == \A r \in Runs :
    pc[r] \in Settled /\ ctxAtReturn[r] = "canceled" /\ tripped[r] = {} /\ life = "open"
        => status[r] = "cancelled"

\* A job file with a terminal status tells the outcome of a run that the runner
\* has published: no reader of the store learns an outcome before pollers can.
DiskTruthful == \A k \in Keys :
    disk[k].status \in Terminal =>
        /\ pc[<<k, disk[k].attempt>>] \in {"published", "exiting", "gone"}
        /\ status[<<k, disk[k].attempt>>] = disk[k].status

\* A job file that says queued or running belongs to a goroutine that is still
\* to persist the outcome: when the runs of a key are over, in particular after
\* Close, no file is left behind that claims an unfinished job, provided that
\* writes succeed.
NoOrphanFile == ~LossyDisk => \A k \in Keys :
    (\A r \in Runs : Key(r) = k => pc[r] \in {"none", "gone"})
        => disk[k].status \in Terminal \cup {"none"}

\* The job file of one attempt only moves forward along the lifecycle, although
\* Submit, the run and the stage all write it and the run holds no lock.
MovesOn(s, t) ==
    \/ s = "queued" /\ t \in {"running"} \cup Terminal
    \/ s = "running" /\ t \in Terminal

ForwardStep(k) ==
    disk'[k].attempt = disk[k].attempt =>
        disk'[k] = disk[k] \/ MovesOn(disk[k].status, disk'[k].status)

DiskForward == [][\A k \in Keys : ForwardStep(k)]_vars

\* What lf_job answers follows the lifecycle promised by JobBoard: statuses
\* only advance, a terminal attempt is final, the next one starts only then;
\* and if timers fire, whatever is submitted is settled.
view == [k \in Keys |-> Get(k)]
Board == INSTANCE JobBoard WITH board <- view
LifecycleSafety == Board!BoardSafety
Lifecycle == LifecycleSafety /\ (TimersFire => Board!BoardFairness)

\* With a wall-clock budget whose timer fires, every submitted job comes to an
\* end, whatever its stage does short of ignoring a dead context.
EveryJobEnds == TimersFire => \A r \in Runs : pc[r] = "queued" ~> pc[r] = "gone"

\* Whether or not a timer ever fires, lf_cancel ends the job it has flagged.
CancelEnds == \A r \in Runs : cancelled[r] ~> pc[r] = "gone"

\* Close returns: shutdown drains every worker, queued ones included.
CloseDrains == life = "stopping" ~> life = "closed"

-----------------------------------------------------------------------------
(* The inductive invariant behind the safety properties, in named parts.      *)

\* The latest attempt of a key.
Latest(k) == IF active[k] # 0 THEN active[k] ELSE recent[k].attempt

\* r.active holds exactly the runs whose outcome is not published; attempts are
\* numbered without gaps; the attempts beyond the latest have not begun.
RegistryInv ==
    /\ \A r \in Runs : pc[r] \in Registered <=> active[Key(r)] = r[2]
    /\ \A r \in Runs : pc[r] = "none" <=> r[2] > Latest(Key(r))
    /\ \A k \in Keys : active[k] # 0 => active[k] = recent[k].attempt + 1

\* job.Status follows the goroutine.
StatusInv ==
    /\ \A r \in Runs :
          /\ pc[r] \in {"queued", "slotted"} => status[r] = "queued"
          /\ pc[r] \in {"started", "stage", "returned", "checked"} => status[r] = "running"
          /\ pc[r] \in {"finishing", "deciding"} =>
                \/ status[r] = "running"
                \/ status[r] = "queued" /\ err[r] = "canceled"
          /\ pc[r] \in Settled \cup {"gone"} => status[r] \in Terminal
          /\ pc[r] = "queued" => ctx[r] # "deadline"
    /\ \A k \in Keys : recent[k] = NoJob \/ recent[k].status \in Terminal

\* Whoever executes holds a slot, and there are no more slots than workers.
SlotInv ==
    /\ \A r \in Runs : pc[r] \in Executing => r \in sem
    /\ IsFiniteSet(sem)
    /\ Cardinality(sem) <= Workers

\* A dead context stays dead, and no success survives the first check of it.
KillInv == \A r \in Runs :
    /\ pc[r] \in {"none", "queued", "slotted", "started"} => tripped[r] = {}
    /\ pc[r] = "stage" /\ tripped[r] # {} => ctx[r] # "alive"
    /\ pc[r] = "returned" /\ (ctxAtReturn[r] # "alive" \/ tripped[r] # {}) => ctx[r] # "alive"
    /\ pc[r] \in {"checked", "finishing", "deciding"} /\ err[r] = "nil"
          => ctxAtReturn[r] = "alive" /\ tripped[r] = {}
    /\ pc[r] \in Settled /\ status[r] = "done" => ctxAtReturn[r] = "alive" /\ tripped[r] = {}

\* Until a limit trips or the server stops, a cancelled context means a flag.
CancelInv ==
    /\ \A r \in delivering : pc[r] # "none" /\ (pc[r] \in Registered => cancelled[r])
    /\ \A r \in Runs :
          /\ pc[r] \in {"none", "queued", "slotted", "started"} => ctxAtReturn[r] = "alive"
          /\ pc[r] \in Registered /\ ctx[r] = "canceled" /\ tripped[r] = {} /\ life = "open"
                => cancelled[r]
          /\ pc[r] \in Registered /\ ctxAtReturn[r] = "canceled" /\ tripped[r] = {}
             /\ life = "open" => cancelled[r]
          /\ pc[r] = "deciding" /\ ctxAtReturn[r] = "canceled" /\ tripped[r] = {}
             /\ life = "open" => explicit[r]
          /\ pc[r] \in Settled /\ ctxAtReturn[r] = "canceled" /\ tripped[r] = {}
             /\ life = "open" => status[r] = "cancelled"

\* A file names a run that has begun; if it is not terminal, that run is yet to
\* persist (or has failed to), and if it is, that run is published so.
DiskInv == \A k \in Keys :
    LET r == <<k, disk[k].attempt>>
    IN  \/ disk[k] = NoJob
        \/ /\ disk[k].attempt # 0
           /\ disk[k].status \in {"queued", "running"}
           /\ pc[r] # "none"
           /\ ~LossyDisk => pc[r] \in Registered \cup {"published"}
        \/ /\ disk[k].attempt # 0
           /\ disk[k].status \in Terminal
           /\ pc[r] \in {"published", "exiting", "gone"}
           /\ status[r] = disk[k].status

IInv == TypeOK /\ RegistryInv /\ StatusInv /\ SlotInv /\ KillInv /\ CancelInv /\ DiskInv

-----------------------------------------------------------------------------
\* A statement of the repository that the code does not keep.

\* jobs.go: "Snapshots of it are persisted on every transition so results
\* outlive both the request and the agent": once the runs of a key are over,
\* its file is its latest outcome.
ResultsOutlive == \A k \in Keys :
    (\A r \in Runs : Key(r) = k => pc[r] \in {"none", "gone"}) => disk[k] = recent[k]
=============================================================================
