---------------------------- MODULE ToolsProofs ----------------------------
(***************************************************************************)
(* What holds of the job tools for every set of keys, every number of      *)
(* workers, and every bound on attempts and restarts.                      *)
(***************************************************************************)
EXTENDS JobTools, RunnerProofs

\* A snapshot is followed by itself, by a later status, or by a later attempt.
Behind(s, t) ==
    \/ t = s
    \/ t.attempt > s.attempt
    \/ t.attempt = s.attempt /\ MovesOn(s.status, t.status)

\* What this process has told the agent about a job is behind what it knows now.
FreshInv == \A k \in fresh : told[k] # NoJob /\ Behind(told[k], Get(k))

\* A call goes to the store only for jobs this process has told nothing about.
CallInv ==
    /\ call.phase = "load" => call.key \notin fresh
    /\ call.phase \in {"listed", "loadAll"} => call.keys \cap fresh = {}

\* Whatever the runner or the agent knows has a file, as long as writes succeed.
KnownInv == ~LossyDisk => \A k \in Keys :
    told[k] # NoJob \/ active[k] # 0 \/ recent[k] # NoJob => disk[k] # NoJob

ToolsInv ==
    /\ EngineInv
    /\ ToolsTypeOK
    /\ FreshInv
    /\ CallInv
    /\ KnownInv

-----------------------------------------------------------------------------
(* What a step of the engine does to what the tools read.                     *)

\* Snapshots that follow one another stay in order.
LEMMA BehindTransitive ==
  ASSUME NEW s \in Snapshots, NEW t \in Snapshots, NEW u \in Snapshots,
         Behind(s, t), Behind(t, u)
  PROVE  Behind(s, u)
<1>1. s.attempt \in Nat /\ t.attempt \in Nat /\ u.attempt \in Nat
  BY RunnerAssumption DEF Snapshots
<1> QED
  BY <1>1 DEF Behind, MovesOn, Terminal

\* What the runner answers is a snapshot; it is NoJob for a key that is in
\* neither map, and only for such a key.
LEMMA GetIsSnapshot ==
  ASSUME EngineInv, NEW k \in Keys
  PROVE  /\ Get(k) \in Snapshots
         /\ Get(k) # NoJob <=> active[k] # 0 \/ recent[k] # NoJob
<1>1. CASE active[k] = 0
  BY <1>1 DEF Get, EngineInv, TypeOK
<1>2. CASE active[k] # 0
  <2>1. <<k, active[k]>> \in Runs
    BY <1>2, ActiveRun DEF EngineInv
  <2>2. SnapshotOf(<<k, active[k]>>) \in Snapshots
    BY <1>2, <2>1 DEF SnapshotOf, Snapshots, EngineInv, TypeOK
  <2>3. SnapshotOf(<<k, active[k]>>).attempt # NoJob.attempt
    BY <1>2 DEF SnapshotOf, NoJob
  <2> QED
    BY <1>2, <2>2, <2>3 DEF Get
<1> QED
  BY <1>1, <1>2

\* Pollers only ever see a job move forward: from the board it implements.
LEMMA EngineMoves ==
  ASSUME EngineInv, [Next]_vars, NEW k \in Keys
  PROVE  Behind(Get(k), Get(k)')
<1>1. Board!BoardNext \/ UNCHANGED view
  BY BoardStep
<1>2. view[k] = Get(k) /\ view'[k] = Get(k)'
  BY DEF view
<1>3. CASE UNCHANGED view
  BY <1>2, <1>3 DEF Behind
<1>4. CASE Board!BoardNext
  <2>1. PICK j \in Keys :
          \/ Board!Enqueue(j)
          \/ Board!Start(j)
          \/ Board!Abandon(j)
          \/ \E s \in Board!Terminal : Board!Conclude(j, s)
    BY <1>4 DEF Board!BoardNext
  <2>2. PICK s : view' = [view EXCEPT ![j] = s] /\ Behind(view[j], s)
    <3>1. view[j].attempt \in Nat
      BY GetIsSnapshot, RunnerAssumption DEF view, Snapshots
    <3> QED
      BY <2>1, <3>1 DEF Board!Enqueue, Board!Start, Board!Abandon, Board!Conclude,
         Board!Attempt, Board!Terminal, Behind, MovesOn, Terminal
  <2>3. CASE j = k
    BY <1>2, <2>2, <2>3 DEF view
  <2>4. CASE j # k
    BY <1>2, <2>2, <2>4 DEF view, Behind
  <2> QED
    BY <2>3, <2>4
<1> QED
  BY <1>1, <1>3, <1>4

\* The steps that write a file, and those that change what the runner knows.
LEMMA EngineWrites ==
  ASSUME EngineInv, [Next]_vars
  PROVE  \/ \E k \in Keys, f \in Fingerprints : SubmitNew(k, f)
         \/ \E r \in Runs : Persist(r) /\ UNCHANGED <<active, recent>>
         \/ \E r \in Runs : Publish(r)
         \/ UNCHANGED <<active, recent, disk>>
<1>1. ASSUME NEW r \in Runs, OwnStep(r)
      PROVE  \/ Persist(r) /\ UNCHANGED <<active, recent>>
             \/ Publish(r)
             \/ UNCHANGED <<active, recent, disk>>
  BY <1>1 DEF OwnStep, FinishStep, AbortQueued, SetRunning, PersistRunning, CheckDead,
     CheckDeadline, ReadCancelled, Decide, PersistTerminal, Exit, registry
<1>2. ASSUME NEW r \in Runs,
             StageStep(r) \/ Acquire(r) \/ Deadline(r) \/ CancelDeliver(r)
      PROVE  \/ Persist(r) /\ UNCHANGED <<active, recent>>
             \/ UNCHANGED <<active, recent, disk>>
  BY <1>2 DEF StageStep, Narrate, Trip, Return, Acquire, Deadline, CancelDeliver, registry
<1>3. ASSUME (\E k \in Keys : CancelFlag(k)) \/ Stop \/ Drained \/ UNCHANGED vars
      PROVE  UNCHANGED <<active, recent, disk>>
  BY <1>3 DEF CancelFlag, Stop, Drained, vars, registry
<1> QED
  BY <1>1, <1>2, <1>3 DEF Next, Exited

\* A file, once written, is replaced but never removed; and as long as writes
\* succeed, what the runner knows has one.
LEMMA FilesStay ==
  ASSUME EngineInv, [Next]_vars
  PROVE  /\ \A k \in Keys : disk[k] # NoJob => disk'[k] # NoJob
         /\ (/\ ~LossyDisk
             /\ \A k \in Keys : active[k] # 0 \/ recent[k] # NoJob => disk[k] # NoJob)
            => \A k \in Keys : active'[k] # 0 \/ recent'[k] # NoJob => disk'[k] # NoJob
<1> USE DEF EngineInv, TypeOK
<1>1. CASE \E k \in Keys, f \in Fingerprints : SubmitNew(k, f)
  <2>1. PICK k \in Keys, f \in Fingerprints : SubmitNew(k, f)
    BY <1>1
  <2> DEFINE s == [attempt |-> recent[k].attempt + 1, status |-> "queued"]
  <2>2. s # NoJob
    <3>1. recent[k].attempt \in Nat
      BY RunnerAssumption DEF Snapshots
    <3>2. s.attempt # NoJob.attempt
      BY <3>1 DEF NoJob
    <3> QED
      BY <3>2
  <2>3. /\ disk' = [disk EXCEPT ![k] = s] \/ (LossyDisk /\ UNCHANGED disk)
        /\ UNCHANGED recent
        /\ \A j \in Keys \ {k} : active'[j] = active[j]
    BY <2>1 DEF SubmitNew, Write
  <2> HIDE DEF s
  <2> QED
    BY <2>2, <2>3
<1>2. CASE \E r \in Runs : Persist(r) /\ UNCHANGED <<active, recent>>
  <2>1. PICK r \in Runs : Persist(r) /\ UNCHANGED <<active, recent>>
    BY <1>2
  <2>2. SnapshotOf(r) # NoJob /\ Key(r) \in Keys
    <3>1. SnapshotOf(r).attempt # NoJob.attempt
      BY DEF SnapshotOf, NoJob, Runs
    <3> QED
      BY <3>1 DEF Runs, Key
  <2>3. disk' = [disk EXCEPT ![Key(r)] = SnapshotOf(r)] \/ UNCHANGED disk
    BY <2>1 DEF Persist, Write
  <2>4. \A k \in Keys : disk[k] # NoJob => disk'[k] # NoJob
    BY <2>2, <2>3
  <2> QED
    BY <2>1, <2>4
<1>3. CASE \E r \in Runs : Publish(r)
  <2>1. PICK r \in Runs : Publish(r)
    BY <1>3
  <2>2. /\ UNCHANGED disk
        /\ \A k \in Keys \ {Key(r)} : active'[k] = active[k] /\ recent'[k] = recent[k]
    BY <2>1 DEF Publish
  <2>3. active[Key(r)] # 0 /\ Key(r) \in Keys
    BY <2>1, ViewOfRun DEF Publish, Goto, Registered
  <2> QED
    BY <2>2, <2>3
<1>4. CASE UNCHANGED <<active, recent, disk>>
  BY <1>4
<1> QED
  BY <1>1, <1>2, <1>3, <1>4, EngineWrites

-----------------------------------------------------------------------------
(* What a step of the tools is to the engine.                                 *)

\* A tool does to the engine what any of its clients may do, unless the process
\* is started again.
LEMMA EngineOrRestart ==
  ASSUME [ToolsNext]_allVars
  PROVE  [Next]_vars \/ Restart
<1>1. ASSUME NEW k \in Keys, NEW f \in Fingerprints,
             LfSubmitNew(k, f) \/ LfSubmitActive(k, f)
      PROVE  [Next]_vars
  BY <1>1 DEF LfSubmitNew, LfSubmitActive, Next
<1>2. ASSUME NEW k \in Keys, LfCancel(k)
      PROVE  [Next]_vars
  BY <1>2 DEF LfCancel, Next
<1>3. ASSUME NEW k \in Keys, LfJob(k) \/ ReadJobFile(k)
      PROVE  UNCHANGED vars
  BY <1>3, Zenon DEF LfJob, FindInRunner, ReadJobFile
<1>4. ASSUME \/ FindInStore \/ LfCancelTooLate \/ LfCancelled \/ LfStatus \/ ReadJobDir
             \/ UNCHANGED allVars
      PROVE  UNCHANGED vars
  BY <1>4, Zenon DEF FindInStore, LfCancelTooLate, FindInRunner, LfCancelled, LfStatus,
     ReadJobDir, allVars
<1>5. ToolStep => [Next]_vars
  BY <1>1, <1>2, <1>3, <1>4, Zenon DEF ToolStep
<1> QED
  BY <1>4, <1>5, Zenon DEF ToolsNext

\* The next process starts as the first did, but for the files.
LEMMA Restarted ==
  ASSUME TypeOK, Restart
  PROVE  EngineInv'
<1> USE DEF Restart
<1>1. TypeOK'
  BY RunnerAssumption DEF TypeOK, Runs, Snapshots, NoJob, Statuses, PCs, Live,
     Registered, CtxErrs, Errs
<1>2. RegistryInv'
  BY DEF RegistryInv, Registered, Executing, Latest, NoJob, Runs, Key
<1>3. StatusInv' /\ KillInv' /\ CancelInv'
  BY DEF StatusInv, KillInv, CancelInv, Settled, Registered, Executing
<1>4. SlotInv'
  BY RunnerAssumption, FS_EmptySet DEF SlotInv, Executing
<1> QED
  BY <1>1, <1>2, <1>3, <1>4 DEF EngineInv

\* A call in progress names jobs, or the run it cancels.
LEMMA CallFields ==
  ASSUME call \in Calls
  PROVE  /\ call.phase \in {"find", "load"} => call.key \in Keys
         /\ call.phase = "cancelling" => call.run \in Runs
         /\ call.phase \in {"listed", "loadAll"} => call.keys \in SUBSET Keys
         /\ NoCall \in Calls
  BY DEF Calls, NoCall

\* lf_status lists a job exactly if the runner knows it, and last what lf_job
\* would answer.
LEMMA ListedLast ==
  ASSUME EngineInv, NEW k \in Keys
  PROVE  /\ Listed(k) # <<>> <=> Get(k) # NoJob
         /\ Listed(k) # <<>> => Listed(k)[Len(Listed(k))] = Get(k)
<1>1. CASE active[k] = 0 /\ recent[k] = NoJob
  BY <1>1 DEF Listed, Get
<1>2. CASE active[k] = 0 /\ recent[k] # NoJob
  BY <1>2 DEF Listed, Get
<1>3. CASE active[k] # 0
  <2>1. Get(k) # NoJob /\ Get(k) = SnapshotOf(<<k, active[k]>>)
    BY <1>3, GetIsSnapshot DEF Get
  <2> QED
    BY <1>3, <2>1 DEF Listed
<1> QED
  BY <1>1, <1>2, <1>3

-----------------------------------------------------------------------------
(* Where an answer comes from.                                                *)

\* The agent keeps what it was told of a job, or has it from the runner, or from
\* the store; and only the runner makes a job fresh.
Answer(k) ==
    \/ told'[k] = told[k] /\ (k \in fresh' => k \in fresh)
    \/ told'[k] = Get(k)' /\ Get(k)' # NoJob
    \/ told'[k] = disk[k] /\ k \notin fresh'

\* An answer about one job, from the runner or from the store.
LEMMA TellAnswers ==
  ASSUME told \in [Keys -> Snapshots], NEW k \in Keys, NEW s,
         \/ Tell(k, s, "runner") /\ s = Get(k)' /\ s # NoJob
         \/ Tell(k, s, "store") /\ s = disk[k] /\ k \notin fresh
  PROVE  \A j \in Keys : Answer(j)
  BY DEF Tell, Answer

\* findJob's half in the runner.
LEMMA FindAnswers ==
  ASSUME ToolsInv, NEW k \in Keys, FindInRunner(k)
  PROVE  /\ \A j \in Keys : Answer(j)
         /\ call' \in Calls /\ crashes' = crashes /\ fresh' \subseteq Keys
         /\ CallInv'
<1>1. told \in [Keys -> Snapshots] /\ fresh \subseteq Keys /\ UNCHANGED vars
  BY Zenon DEF ToolsInv, ToolsTypeOK, FindInRunner
<1>2. Get(k)' = Get(k)
  BY <1>1 DEF Get, SnapshotOf, vars
<1>3. CASE Get(k) # NoJob /\ Tell(k, Get(k), "runner") /\ Hangup
  <2>1. \A j \in Keys : Answer(j)
    BY <1>1, <1>2, <1>3, TellAnswers
  <2>2. call' = NoCall /\ crashes' = crashes /\ fresh' \subseteq Keys
    BY <1>1, <1>3 DEF Hangup, Tell
  <2> QED
    BY <2>1, <2>2 DEF CallInv, NoCall, Calls
<1>4. CASE /\ Get(k) = NoJob
           /\ call' = [phase |-> "load", key |-> k]
           /\ TellNothing
           /\ UNCHANGED crashes
  <2>1. k \notin fresh
    <3>1. ASSUME k \in fresh PROVE FALSE
      <4>1. told[k] # NoJob /\ Behind(told[k], NoJob) /\ told[k].attempt \in Nat
        BY <1>1, <1>4, <3>1, RunnerAssumption DEF ToolsInv, FreshInv, Snapshots
      <4> QED
        BY <4>1 DEF Behind, NoJob, MovesOn, Terminal
    <3> QED
      BY <3>1
  <2>2. fresh' = fresh /\ told' = told
    BY <1>4 DEF TellNothing
  <2>3. \A j \in Keys : Answer(j)
    BY <2>2, Zenon DEF Answer
  <2>4. call' \in Calls /\ CallInv'
    BY <1>4, <2>1, <2>2 DEF Calls, CallInv
  <2> QED
    BY <1>1, <1>4, <2>2, <2>3, <2>4
<1> QED
  BY <1>3, <1>4, Zenon DEF FindInRunner

\* What a step of the tools leaves behind on the agent's side.
Answered ==
    /\ \A j \in Keys : Answer(j)
    /\ call' \in Calls
    /\ fresh' \subseteq Keys
    /\ crashes' \in 0 .. MaxCrashes
    /\ CallInv'

\* A step that ends the call, or goes on with it for jobs the process has told
\* nothing about, has only its answer to account for.
LEMMA HangsUp ==
  ASSUME ToolsInv, call' = NoCall, UNCHANGED crashes, fresh' \subseteq Keys,
         \A j \in Keys : Answer(j)
  PROVE  Answered
<1>1. call' \in Calls /\ CallInv'
  BY DEF NoCall, Calls, CallInv
<1>2. crashes' \in 0 .. MaxCrashes
  BY DEF ToolsInv, ToolsTypeOK
<1> QED
  BY <1>1, <1>2 DEF Answered

\* Submit answers with the new attempt, or with the active one.
LEMMA SubmitAnswers ==
  ASSUME ToolsInv, NEW k \in Keys, NEW f \in Fingerprints,
         LfSubmitNew(k, f) \/ LfSubmitActive(k, f)
  PROVE  Answered
<1>1. told \in [Keys -> Snapshots] /\ fresh \subseteq Keys /\ EngineInv /\ TypeOK
  BY Zenon DEF ToolsInv, ToolsTypeOK, EngineInv
<1>2. call' = NoCall /\ UNCHANGED crashes
  BY Zenon DEF LfSubmitNew, LfSubmitActive, Begin
<1>3. CASE LfSubmitNew(k, f)
  <2> DEFINE s == [attempt |-> recent[k].attempt + 1, status |-> "queued"]
  <2>1. SubmitNew(k, f) /\ Tell(k, s, "runner")
    BY <1>3, Zenon DEF LfSubmitNew
  <2>2. view' = [view EXCEPT ![k] = s]
    BY <1>1, <2>1, ViewSubmit
  <2>3. Get(k)' = s
    BY <2>2 DEF view
  <2>4. s # NoJob
    <3>1. recent[k].attempt \in Nat
      BY <1>1, RunnerAssumption DEF TypeOK, Snapshots
    <3>2. s.attempt # NoJob.attempt
      BY <3>1 DEF NoJob
    <3> QED
      BY <3>2
  <2> HIDE DEF s
  <2>5. \A j \in Keys : Answer(j)
    BY <1>1, <2>1, <2>3, <2>4, TellAnswers
  <2>6. fresh' \subseteq Keys
    BY <1>1, <2>1 DEF Tell
  <2> QED
    BY <1>2, <2>5, <2>6, HangsUp
<1>4. CASE LfSubmitActive(k, f)
  <2>1. active[k] # 0 /\ UNCHANGED vars /\ (Tell(k, Get(k), "runner") \/ TellNothing)
    BY <1>4, Zenon DEF LfSubmitActive
  <2>2. Get(k)' = Get(k) /\ Get(k) # NoJob
    <3>1. Get(k)' = Get(k)
      BY <2>1 DEF Get, SnapshotOf, vars
    <3> QED
      BY <1>1, <2>1, <3>1, GetIsSnapshot
  <2>3. \A j \in Keys : Answer(j)
    <3>1. CASE TellNothing
      BY <3>1 DEF TellNothing, Answer
    <3>2. CASE Tell(k, Get(k), "runner")
      BY <1>1, <2>2, <3>2, TellAnswers
    <3> QED
      BY <2>1, <3>1, <3>2
  <2>4. fresh' \subseteq Keys
    BY <1>1, <2>1 DEF Tell, TellNothing
  <2> QED
    BY <1>2, <2>3, <2>4, HangsUp
<1> QED
  BY <1>3, <1>4

\* lf_cancel gives no snapshot.
LEMMA CancelAnswers ==
  ASSUME ToolsInv, LfCancelled \/ \E k \in Keys : LfCancel(k)
  PROVE  Answered
<1>1. TellNothing /\ UNCHANGED crashes /\ fresh \subseteq Keys
  BY Zenon DEF LfCancelled, LfCancel, Hangup, Begin, ToolsInv, ToolsTypeOK
<1>2. \A j \in Keys : Answer(j)
  BY <1>1, Zenon DEF TellNothing, Answer
<1>3. CASE LfCancelled
  BY <1>1, <1>2, <1>3, HangsUp DEF LfCancelled, Hangup, TellNothing
<1>4. CASE \E k \in Keys : LfCancel(k)
  <2>1. PICK k \in Keys : LfCancel(k)
    BY <1>4
  <2>2. \/ active[k] # 0 /\ call' = [phase |-> "cancelling", run |-> <<k, active[k]>>]
        \/ call' = [phase |-> "find", key |-> k]
    BY <2>1, Zenon DEF LfCancel, CancelFlag, Begin
  <2>3. active[k] # 0 => <<k, active[k]>> \in Runs
    BY ActiveRun DEF ToolsInv, EngineInv
  <2>4. call' \in Calls /\ CallInv'
    BY <2>2, <2>3 DEF Calls, CallInv
  <2>5. crashes' \in 0 .. MaxCrashes
    BY <1>1 DEF ToolsInv, ToolsTypeOK
  <2> QED
    BY <1>1, <1>2, <2>4, <2>5 DEF Answered, TellNothing
<1> QED
  BY <1>3, <1>4

\* findJob asks the runner, and the store for what the runner has never seen.
LEMMA FindJobAnswers ==
  ASSUME ToolsInv, LfCancelTooLate \/ FindInStore \/ \E k \in Keys : LfJob(k)
  PROVE  Answered
<1>1. /\ told \in [Keys -> Snapshots] /\ fresh \subseteq Keys
      /\ call \in Calls /\ crashes \in 0 .. MaxCrashes
  BY Zenon DEF ToolsInv, ToolsTypeOK
<1>2. ASSUME NEW k \in Keys, FindInRunner(k)
      PROVE  Answered
  BY <1>1, <1>2, FindAnswers DEF Answered
<1>3. CASE LfCancelTooLate
  <2>1. call.key \in Keys /\ FindInRunner(call.key)
    BY <1>1, <1>3, CallFields DEF LfCancelTooLate
  <2> QED
    BY <1>2, <2>1
<1>4. CASE FindInStore
  <2>1. /\ call.key \in Keys /\ call.key \notin fresh
        /\ Tell(call.key, disk[call.key], "store")
        /\ call' = NoCall /\ UNCHANGED crashes
    BY <1>1, <1>4, CallFields DEF FindInStore, Hangup, ToolsInv, CallInv
  <2>2. \A j \in Keys : Answer(j)
    BY <1>1, <2>1, TellAnswers
  <2>3. fresh' \subseteq Keys
    BY <1>1, <2>1 DEF Tell
  <2> QED
    BY <2>1, <2>2, <2>3, HangsUp
<1>5. CASE \E k \in Keys : LfJob(k)
  BY <1>2, <1>5 DEF LfJob
<1> QED
  BY <1>3, <1>4, <1>5

\* lf_status goes on, if it does, with some jobs the process knows nothing of.
LEMMA LooksFor ==
  ASSUME NEW keys \in SUBSET Keys, keys \cap fresh' = {},
         NEW phase \in {"listed", "loadAll"}, LookFor(phase, keys)
  PROVE  call' \in Calls /\ CallInv'
  BY DEF LookFor, Calls, NoCall, CallInv

\* lf_status: the runner's list first, then the names of the files, then the files.
LEMMA StatusAnswers ==
  ASSUME ToolsInv, LfStatus \/ ReadJobDir \/ \E k \in Keys : ReadJobFile(k)
  PROVE  Answered
<1>1. /\ told \in [Keys -> Snapshots] /\ fresh \subseteq Keys /\ EngineInv
      /\ call \in Calls /\ crashes \in 0 .. MaxCrashes
  BY Zenon DEF ToolsInv, ToolsTypeOK
<1>2. UNCHANGED <<vars, crashes>>
  BY Zenon DEF LfStatus, ReadJobDir, ReadJobFile
<1>3. CASE LfStatus
  <2> DEFINE seen == {k \in Keys : Listed(k) # <<>>}
  <2>1. /\ LookFor("listed", Keys \ seen)
        /\ told' = [k \in Keys |-> IF k \in seen THEN Listed(k)[Len(Listed(k))] ELSE told[k]]
        /\ fresh' = fresh \cup seen
    BY <1>3, Zenon DEF LfStatus
  <2>2. \A k \in Keys : Get(k)' = Get(k)
    BY <1>2 DEF Get, SnapshotOf, vars
  <2>3. \A j \in Keys : Answer(j)
    <3> SUFFICES ASSUME NEW j \in Keys PROVE Answer(j)
      OBVIOUS
    <3>1. CASE j \in seen
      <4>1. Listed(j) # <<>>
        BY <3>1, Zenon
      <4>2. Listed(j)[Len(Listed(j))] = Get(j) /\ Get(j) # NoJob
        BY <1>1, <4>1, ListedLast
      <4>3. told'[j] = Get(j)
        BY <2>1, <3>1, <4>2, Zenon
      <4> QED
        BY <2>2, <4>2, <4>3, Zenon DEF Answer
    <3>2. CASE j \notin seen
      BY <2>1, <3>2, Zenon DEF Answer
    <3> QED
      BY <3>1, <3>2
  <2>4. fresh \subseteq seen
    <3> SUFFICES ASSUME NEW k \in fresh PROVE Listed(k) # <<>>
      BY <1>1
    <3>1. told[k] # NoJob /\ Behind(told[k], Get(k)) /\ told[k].attempt \in Nat /\ k \in Keys
      BY <1>1, RunnerAssumption DEF ToolsInv, FreshInv, Snapshots
    <3>2. Get(k) # NoJob
      BY <3>1 DEF Behind, NoJob, MovesOn, Terminal
    <3> QED
      BY <1>1, <3>1, <3>2, ListedLast
  <2>5. fresh' \subseteq Keys /\ (Keys \ seen) \cap fresh' = {}
    BY <1>1, <2>1, <2>4, Zenon
  <2>6. call' \in Calls /\ CallInv'
    BY <2>1, <2>5, LooksFor
  <2> QED
    BY <1>1, <1>2, <2>3, <2>5, <2>6 DEF Answered
<1>4. CASE ReadJobDir
  <2> DEFINE missing == {k \in call.keys : disk[k] = NoJob}
  <2>1. call.keys \subseteq Keys /\ call.keys \cap fresh = {}
    BY <1>1, <1>4, CallFields DEF ReadJobDir, ToolsInv, CallInv
  <2>2. /\ told' = [k \in Keys |-> IF k \in missing THEN NoJob ELSE told[k]]
        /\ LookFor("loadAll", call.keys \ missing)
        /\ fresh' = fresh
    BY <1>4, Zenon DEF ReadJobDir
  <2>3. \A j \in Keys : Answer(j)
    <3> SUFFICES ASSUME NEW j \in Keys PROVE Answer(j)
      OBVIOUS
    <3>1. CASE j \in missing
      <4>1. j \in call.keys /\ disk[j] = NoJob
        BY <3>1, Zenon
      <4>2. told'[j] = disk[j]
        BY <2>2, <3>1, <4>1, Zenon
      <4> QED
        BY <2>1, <2>2, <4>1, <4>2, Zenon DEF Answer
    <3>2. CASE j \notin missing
      BY <2>2, <3>2, Zenon DEF Answer
    <3> QED
      BY <3>1, <3>2
  <2>4. call' \in Calls /\ CallInv'
    <3>1. call.keys \ missing \in SUBSET Keys /\ (call.keys \ missing) \cap fresh' = {}
      BY <2>1, <2>2, Zenon
    <3> QED
      BY <2>2, <3>1, LooksFor
  <2> QED
    BY <1>1, <1>2, <2>2, <2>3, <2>4 DEF Answered
<1>5. CASE \E k \in Keys : ReadJobFile(k)
  <2>1. PICK k \in Keys : ReadJobFile(k)
    BY <1>5
  <2>2. /\ k \in call.keys /\ Tell(k, disk[k], "store")
        /\ LookFor("loadAll", call.keys \ {k})
        /\ call.keys \subseteq Keys /\ call.keys \cap fresh = {}
    BY <1>1, <2>1, CallFields DEF ReadJobFile, ToolsInv, CallInv
  <2>3. fresh' = fresh /\ k \notin fresh
    BY <2>2 DEF Tell
  <2>4. \A j \in Keys : Answer(j)
    BY <1>1, <2>2, <2>3, TellAnswers
  <2>5. call' \in Calls /\ CallInv'
    BY <2>2, <2>3, LooksFor
  <2> QED
    BY <1>1, <1>2, <2>3, <2>4, <2>5 DEF Answered
<1> QED
  BY <1>3, <1>4, <1>5

\* So does every step, those of other sessions and a restart included.
LEMMA EveryStepAnswers ==
  ASSUME ToolsInv, [ToolsNext]_allVars
  PROVE  Answered
<1>1. /\ fresh \subseteq Keys /\ call \in Calls /\ crashes \in 0 .. MaxCrashes /\ CallInv
  BY Zenon DEF ToolsInv, ToolsTypeOK
<1>2. CASE ToolStep
  BY <1>2, SubmitAnswers, CancelAnswers, FindJobAnswers, StatusAnswers, Zenon DEF ToolStep
<1>3. CASE UNCHANGED agent
  <2>1. UNCHANGED <<told, fresh, call, crashes>>
    BY <1>3 DEF agent
  <2> QED
    BY <1>1, <2>1 DEF Answered, Answer, CallInv
<1>4. CASE Restart
  <2>1. told' = told /\ fresh' = {} /\ call' = NoCall /\ crashes' = crashes + 1
        /\ crashes < MaxCrashes
    BY <1>4, Zenon DEF Restart
  <2>2. \A j \in Keys : Answer(j)
    BY <2>1, Zenon DEF Answer
  <2>3. call' \in Calls /\ CallInv' /\ crashes' \in 0 .. MaxCrashes
    BY <1>1, <2>1, CrashAssumption DEF NoCall, Calls, CallInv
  <2> QED
    BY <2>1, <2>2, <2>3 DEF Answered
<1> QED
  BY <1>2, <1>3, <1>4, Zenon DEF ToolsNext, allVars

\* Whatever it is told, the agent remembers one snapshot per job.
LEMMA ToldPerJob ==
  ASSUME told \in [Keys -> Snapshots], [ToolsNext]_allVars
  PROVE  told' = [k \in Keys |-> told'[k]]
<1>1. ASSUME NEW j, NEW s, NEW source, Tell(j, s, source)
      PROVE  told' = [k \in Keys |-> told'[k]]
  BY <1>1 DEF Tell
<1>2. ASSUME UNCHANGED told
      PROVE  told' = [k \in Keys |-> told'[k]]
  BY <1>2
<1>3. ASSUME LfStatus \/ ReadJobDir
      PROVE  told' = [k \in Keys |-> told'[k]]
  <2>1. CASE LfStatus
    <3> DEFINE seen == {k \in Keys : Listed(k) # <<>>}
               known(k) == IF k \in seen THEN Listed(k)[Len(Listed(k))] ELSE told[k]
    <3>1. told' = [k \in Keys |-> known(k)]
      BY <2>1, Zenon DEF LfStatus
    <3> HIDE DEF known
    <3> QED
      BY <3>1
  <2>2. CASE ReadJobDir
    BY <2>2, Zenon DEF ReadJobDir
  <2> QED
    BY <1>3, <2>1, <2>2
<1>4. ASSUME NEW k \in Keys, NEW f \in Fingerprints,
             LfSubmitNew(k, f) \/ LfSubmitActive(k, f)
      PROVE  UNCHANGED told \/ \E j, s, source : Tell(j, s, source)
  BY <1>4, Zenon DEF LfSubmitNew, LfSubmitActive, TellNothing
<1>5. ASSUME NEW k, FindInRunner(k)
      PROVE  UNCHANGED told \/ \E j, s, source : Tell(j, s, source)
  BY <1>5, Zenon DEF FindInRunner, TellNothing
<1>6. ToolStep => \/ UNCHANGED told
                  \/ \E j, s, source : Tell(j, s, source)
                  \/ LfStatus \/ ReadJobDir
  BY <1>4, <1>5, Zenon DEF ToolStep, LfJob, LfCancel, LfCancelTooLate, LfCancelled,
     FindInStore, ReadJobFile, TellNothing
<1>7. [ToolsNext]_allVars => UNCHANGED told \/ ToolStep
  BY Zenon DEF ToolsNext, Restart, allVars, agent
<1> QED
  BY <1>1, <1>2, <1>3, <1>6, <1>7, Zenon

-----------------------------------------------------------------------------
(* The invariant, and what follows from it.                                   *)

\* The first process starts on an empty volume, for an agent that knows nothing.
LEMMA ToolsInitInv == ToolsInit => ToolsInv
<1> SUFFICES ASSUME ToolsInit PROVE ToolsInv
  OBVIOUS
<1> USE DEF ToolsInit
<1>1. EngineInv
  BY InitIInv DEF IInv, EngineInv
<1>2. ToolsTypeOK
  <2>1. NoJob \in Snapshots /\ NoCall \in Calls
    BY RunnerAssumption DEF NoJob, Snapshots, Statuses, NoCall, Calls
  <2>2. told \in [Keys -> Snapshots] /\ crashes \in 0 .. MaxCrashes
    BY <2>1, CrashAssumption
  <2> QED
    BY <1>1, <2>1, <2>2, Zenon DEF EngineInv, ToolsTypeOK
<1>3. FreshInv /\ CallInv
  BY DEF FreshInv, CallInv, NoCall
<1>4. KnownInv
  BY DEF KnownInv, Init
<1> QED
  BY <1>1, <1>2, <1>3, <1>4 DEF ToolsInv

\* What the runner will answer after a step is a snapshot, too.
LEMMA NextSnapshots == EngineInv' => (\A k \in Keys : Get(k) \in Snapshots)'
<1>1. EngineInv => \A k \in Keys : Get(k) \in Snapshots
  BY GetIsSnapshot
<1> QED
  BY <1>1, PTL

\* Every step, of whoever, preserves the invariant.
LEMMA ToolsInvStep ==
  ASSUME ToolsInv, [ToolsNext]_allVars
  PROVE  ToolsInv'
<1>1. Answered /\ EngineInv
  BY EveryStepAnswers DEF ToolsInv
<1>2. told \in [Keys -> Snapshots] /\ TypeOK
  BY Zenon DEF ToolsInv, ToolsTypeOK
<1>3. EngineInv'
  BY <1>1, <1>2, EngineOrRestart, EngineStep, Restarted
<1>4. ToolsTypeOK'
  <2>1. TypeOK'
    BY <1>3 DEF EngineInv
  <2>2. ASSUME NEW k \in Keys PROVE told'[k] \in Snapshots
    <3>1. told[k] \in Snapshots /\ disk[k] \in Snapshots
      BY <1>2 DEF TypeOK
    <3>2. Get(k)' \in Snapshots
      BY <1>3, NextSnapshots
    <3>3. Answer(k)
      BY <1>1 DEF Answered
    <3> QED
      BY <3>1, <3>2, <3>3, Zenon DEF Answer
  <2>3. told' \in [Keys -> Snapshots]
    <3>1. told' = [k \in Keys |-> told'[k]]
      BY <1>2, ToldPerJob
    <3> QED
      BY <2>2, <3>1
  <2> QED
    BY <1>1, <2>1, <2>3, Zenon DEF Answered, ToolsTypeOK
<1>5. CASE [Next]_vars
  <2>1. FreshInv'
    <3> SUFFICES ASSUME NEW k \in fresh'
                 PROVE  told'[k] # NoJob /\ Behind(told'[k], Get(k)')
      BY DEF FreshInv
    <3>1. k \in Keys /\ Answer(k)
      BY <1>1 DEF Answered
    <3>2. CASE told'[k] = told[k] /\ k \in fresh
      <4>1. told[k] # NoJob /\ Behind(told[k], Get(k)) /\ Behind(Get(k), Get(k)')
        BY <1>1, <1>5, <3>1, <3>2, EngineMoves DEF ToolsInv, FreshInv
      <4>2. told[k] \in Snapshots /\ Get(k) \in Snapshots
        BY <1>1, <1>2, <3>1, GetIsSnapshot
      <4>3. Get(k)' \in Snapshots
        BY <1>3, <3>1, NextSnapshots
      <4> QED
        BY <3>2, <4>1, <4>2, <4>3, BehindTransitive
    <3>3. CASE told'[k] = Get(k)' /\ Get(k)' # NoJob
      BY <3>3 DEF Behind
    <3> QED
      BY <3>1, <3>2, <3>3, Zenon DEF Answer
  <2>2. KnownInv'
    <3> SUFFICES ASSUME ~LossyDisk, NEW k \in Keys,
                        told'[k] # NoJob \/ active'[k] # 0 \/ recent'[k] # NoJob
                 PROVE  disk'[k] # NoJob
      BY DEF KnownInv
    <3>1. /\ disk[k] # NoJob => disk'[k] # NoJob
          /\ active'[k] # 0 \/ recent'[k] # NoJob => disk'[k] # NoJob
          /\ told[k] # NoJob => disk[k] # NoJob
      BY <1>1, <1>5, FilesStay DEF ToolsInv, KnownInv
    <3>2. Get(k)' # NoJob => active'[k] # 0 \/ recent'[k] # NoJob
      BY DEF Get
    <3>3. Answer(k)
      BY <1>1 DEF Answered
    <3> QED
      BY <3>1, <3>2, <3>3, Zenon DEF Answer
  <2> QED
    BY <1>1, <1>3, <1>4, <2>1, <2>2, Zenon DEF Answered, ToolsInv
<1>6. CASE Restart
  <2>1. FreshInv'
    BY <1>6 DEF Restart, FreshInv
  <2>2. KnownInv'
    BY <1>6 DEF Restart, ToolsInv, KnownInv
  <2> QED
    BY <1>1, <1>3, <1>4, <2>1, <2>2, Zenon DEF Answered, ToolsInv
<1> QED
  BY <1>5, <1>6, EngineOrRestart

\* The invariant holds of every reachable state, in every process.
THEOREM ToolsInductive == ToolsSpec => []ToolsInv
<1>1. ToolsInv /\ [ToolsNext]_allVars => ToolsInv'
  BY ToolsInvStep
<1> QED
  BY <1>1, ToolsInitInv, PTL DEF ToolsSpec

\* Every variable keeps its type, through crashes and restarts.
THEOREM ToolsTypeCorrect == ToolsSpec => []ToolsTypeOK
<1>1. ToolsInv => ToolsTypeOK
  BY DEF ToolsInv
<1> QED
  BY <1>1, ToolsInductive, PTL

\* What the engine guarantees it guarantees in every process: one run at work per
\* key, no more of them than workers, no success of a killed job, and a cancelled
\* job is called cancelled.
THEOREM SafeInEveryProcess ==
    ToolsSpec => [](OneRunPerKey /\ BoundedWorkers /\ KillSwitch /\ CancelIsNamed)
<1>1. ToolsInv => OneRunPerKey /\ BoundedWorkers /\ KillSwitch /\ CancelIsNamed
  BY EngineSafe DEF ToolsInv
<1> QED
  BY <1>1, ToolsInductive, PTL

\* No kill and no slot is lost in any process, whatever the last one has left.
THEOREM GoesOnInEveryProcess == ToolsSpec => [](KillsArrive /\ SlotsComeBack)
<1> DEFINE Inv == KillsArrive /\ UnflaggedInv /\ HolderInv
<1>1. ToolsInit => Inv
  BY DEF ToolsInit, Init, KillsArrive, UnflaggedInv, HolderInv, Registered, Executing
<1>2. ToolsInv /\ Inv /\ [ToolsNext]_allVars => Inv'
  <2> SUFFICES ASSUME ToolsInv, Inv, [ToolsNext]_allVars PROVE Inv'
    OBVIOUS
  <2>1. CASE [Next]_vars
    BY <2>1, KillsStep, HolderStep DEF ToolsInv, EngineInv
  <2>2. CASE Restart
    BY <2>2 DEF Restart, KillsArrive, UnflaggedInv, HolderInv, Registered, Executing
  <2> QED
    BY <2>1, <2>2, EngineOrRestart
<1>3. ToolsInv /\ Inv => KillsArrive /\ SlotsComeBack
  BY HoldersGoOn DEF ToolsInv, EngineInv
<1> HIDE DEF Inv
<1> QED
  BY <1>1, <1>2, <1>3, ToolsInductive, PTL DEF ToolsSpec

\* When lf_status lists a job id twice, the entries are different attempts, in
\* order, and all but the last have ended.
THEOREM StatusReadable == ToolsSpec => []StatusUnambiguous
<1>1. ToolsInv => StatusUnambiguous
  <2> SUFFICES ASSUME ToolsInv, NEW k \in Keys, NEW i \in DOMAIN Listed(k),
                      NEW j \in DOMAIN Listed(k), i < j
               PROVE  /\ Listed(k)[i].attempt < Listed(k)[j].attempt
                      /\ Listed(k)[i].status \in Terminal
    BY DEF StatusUnambiguous
  <2>1. recent[k] # NoJob /\ active[k] # 0 /\ i = 1 /\ j = 2
    BY DEF Listed
  <2>2. /\ Listed(k)[i] = recent[k]
        /\ Listed(k)[j].attempt = active[k]
    BY <2>1 DEF Listed, SnapshotOf
  <2>3. recent[k].status \in Terminal
    BY <2>1 DEF ToolsInv, EngineInv, StatusInv
  <2>4. active[k] = recent[k].attempt + 1 /\ recent[k].attempt \in Nat
    BY <2>1, RunnerAssumption DEF ToolsInv, EngineInv, RegistryInv, TypeOK, Snapshots
  <2> QED
    BY <2>2, <2>3, <2>4
<1> QED
  BY <1>1, ToolsInductive, PTL

\* What one process tells the agent about a job only moves forward, whichever tool
\* it asks and whoever else submits and cancels meanwhile.
THEOREM PollsMoveForward == ToolsSpec => PollForward
<1> DEFINE Forward(k) == k \in fresh /\ k \in fresh' => Behind(told[k], told'[k])
<1>1. ToolsInv /\ [ToolsNext]_allVars => [\A k \in Keys : Forward(k)]_allVars
  <2> SUFFICES ASSUME ToolsInv, [ToolsNext]_allVars, NEW k \in Keys,
                      k \in fresh, k \in fresh'
               PROVE  Behind(told[k], told'[k])
    BY DEF allVars
  <2>1. Answer(k) /\ EngineInv /\ told[k] \in Snapshots /\ Behind(told[k], Get(k))
    BY EveryStepAnswers DEF Answered, ToolsInv, ToolsTypeOK, FreshInv
  <2>2. [Next]_vars
    BY EngineOrRestart DEF Restart
  <2>3. CASE told'[k] = told[k]
    BY <2>3 DEF Behind
  <2>4. CASE told'[k] = Get(k)'
    <3>1. Behind(Get(k), Get(k)') /\ Get(k) \in Snapshots
      BY <2>1, <2>2, EngineMoves, GetIsSnapshot
    <3>2. told'[k] \in Snapshots
      <4>1. ToolsInv'
        BY ToolsInvStep
      <4> QED
        BY <4>1 DEF ToolsInv, ToolsTypeOK
    <3> QED
      BY <2>1, <2>4, <3>1, <3>2, BehindTransitive
  <2> QED
    BY <2>1, <2>3, <2>4, Zenon DEF Answer
<1>2. (\A k \in Keys : Forward(k)) => \A k \in Keys :
         LET before == told[k]
             after  == told'[k]
         IN  k \in fresh /\ k \in fresh' =>
                 \/ after = before
                 \/ after.attempt > before.attempt
                 \/ after.attempt = before.attempt /\ MovesOn(before.status, after.status)
  BY DEF Behind
<1> HIDE DEF Forward
<1> QED
  BY <1>1, <1>2, ToolsInductive, PTL DEF ToolsSpec, PollForward

\* What ADR-003 says of a resubmission holds within a process: after a terminal
\* answer of its own, what it answers to a new submit has a later number.
THEOREM AttemptsAreNewPerProcess ==
    ToolsSpec => [][\A k \in Keys :
        /\ k \in fresh /\ k \in fresh'
        /\ told[k].status \in Terminal /\ told'[k].status = "queued"
        => told'[k].attempt > told[k].attempt]_allVars
<1>1. [\A k \in Keys :
         LET before == told[k]
             after  == told'[k]
         IN  k \in fresh /\ k \in fresh' =>
                 \/ after = before
                 \/ after.attempt > before.attempt
                 \/ after.attempt = before.attempt /\ MovesOn(before.status, after.status)]_allVars
      => [\A k \in Keys :
            /\ k \in fresh /\ k \in fresh'
            /\ told[k].status \in Terminal /\ told'[k].status = "queued"
            => told'[k].attempt > told[k].attempt]_allVars
  BY DEF MovesOn, Terminal
<1> QED
  BY <1>1, PollsMoveForward, PTL DEF PollForward

\* As long as writes succeed, a job id that was handed out stays known, through
\* crashes and restarts.
THEOREM KnownJobsStayKnown ==
  ASSUME ~LossyDisk
  PROVE  ToolsSpec => KnownStaysKnown
<1>1. ToolsInv /\ [ToolsNext]_allVars
        => [\A k \in Keys : told[k] # NoJob => told'[k] # NoJob]_allVars
  <2> SUFFICES ASSUME ToolsInv, [ToolsNext]_allVars, NEW k \in Keys, told[k] # NoJob
               PROVE  told'[k] # NoJob
    BY DEF allVars
  <2>1. Answer(k) /\ disk[k] # NoJob
    BY EveryStepAnswers DEF Answered, ToolsInv, KnownInv
  <2> QED
    BY <2>1, Zenon DEF Answer
<1> QED
  BY <1>1, ToolsInductive, PTL DEF ToolsSpec, KnownStaysKnown
=============================================================================
