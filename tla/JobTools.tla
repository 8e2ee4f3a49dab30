------------------------------ MODULE JobTools ------------------------------
(***************************************************************************)
(* The MCP handlers of the job life cycle (internal/mcp/tools.go and the   *)
(* submit tools) over the runner and the store, with crashes and restarts  *)
(* of the server process.                                                  *)
(*                                                                         *)
(* One agent session is observed: it makes one tool call at a time and     *)
(* remembers, per job, the snapshot behind the last answer it was given.   *)
(* Other sessions act at any time through the steps of Runner.  A handler  *)
(* that reads the runner and then the store takes a step for each read.    *)
(***************************************************************************)
EXTENDS Runner, Sequences

CONSTANT MaxCrashes       \* bound: crashes and restarts that are explored

ASSUME CrashAssumption == MaxCrashes \in Nat

VARIABLES told,           \* [Keys -> snapshot the agent was last told, if any]
          fresh,          \* keys of which this process's runner gave it
          call,           \* the agent's call in progress
          crashes

agent == <<told, fresh, call, crashes>>
allVars == <<vars, agent>>

NoCall == [phase |-> "idle"]

Calls == [phase : {"idle"}]
    \cup [phase : {"find", "load"}, key : Keys]
    \cup [phase : {"cancelling"}, run : Runs]
    \cup [phase : {"listed", "loadAll"}, keys : SUBSET Keys]

\* The handler answers with a snapshot of the job, from the runner or from the
\* store; NoJob is "unknown job_id".
Tell(k, snapshot, source) ==
    /\ told' = [told EXCEPT ![k] = snapshot]
    /\ fresh' = IF source = "runner" THEN fresh \cup {k} ELSE fresh

\* It answers without one: the agent remembers the snapshot it had.
TellNothing == UNCHANGED <<told, fresh>>

Hangup == call' = NoCall /\ UNCHANGED crashes

Begin(c) ==
    /\ call = NoCall
    /\ life # "closed"
    /\ call' = c
    /\ UNCHANGED crashes

\* What lf_status shows of Runner.List about a key, in the order of submission:
\* its last terminal job and its active one.  After a resubmission it has both.
Listed(k) ==
    (IF recent[k] # NoJob THEN <<recent[k]>> ELSE <<>>)
    \o (IF active[k] # 0 THEN <<SnapshotOf(<<k, active[k]>>)>> ELSE <<>>)

-----------------------------------------------------------------------------
(* Mutations: what plausible bugs would make of the definitions below.       *)

\* A job is not persisted when it is submitted.
LfSubmitNewUnsaved(k, f) ==
    LET a == recent[k].attempt + 1
        r == <<k, a>>
    IN  /\ Begin(NoCall)
        /\ active[k] = 0
        /\ a <= MaxAttempts
        /\ active' = [active EXCEPT ![k] = a]
        /\ fp' = [fp EXCEPT ![r] = f]
        /\ status' = [status EXCEPT ![r] = "queued"]
        /\ pc' = [pc EXCEPT ![r] = "queued"]
        /\ UNCHANGED <<recent, disk, ctx, locals, cancelled, sem, delivering, life>>
        /\ Tell(k, [attempt |-> a, status |-> "queued"], "runner")

\* The store is asked first, and believed if it knows the job.
FindStoreFirst(k) ==
    /\ UNCHANGED vars
    /\ \/ disk[k] # NoJob /\ Tell(k, disk[k], "store") /\ Hangup
       \/ disk[k] = NoJob /\ Tell(k, Get(k), "runner") /\ Hangup

-----------------------------------------------------------------------------
ToolsInit ==
    /\ Init
    /\ told = [k \in Keys |-> NoJob]
    /\ fresh = {}
    /\ call = NoCall
    /\ crashes = 0

\* lf_plan, lf_coder_fusion, lf_review, lf_judge: Submit starts a new attempt ...
LfSubmitNew(k, f) ==
    /\ Begin(NoCall)
    /\ SubmitNew(k, f)
    /\ Tell(k, [attempt |-> recent[k].attempt + 1, status |-> "queued"], "runner")

\* ... or answers with the active job, or refuses other arguments.
LfSubmitActive(k, f) ==
    /\ Begin(NoCall)
    /\ active[k] # 0
    /\ UNCHANGED vars
    /\ \/ fp[<<k, active[k]>>] = f /\ Tell(k, Get(k), "runner")
       \/ fp[<<k, active[k]>>] # f /\ TellNothing

\* findJob asks the runner, and only if it has never seen the job ...
FindInRunner(k) ==
    /\ UNCHANGED vars
    /\ \/ Get(k) # NoJob /\ Tell(k, Get(k), "runner") /\ Hangup
       \/ /\ Get(k) = NoJob
          /\ call' = [phase |-> "load", key |-> k]
          /\ TellNothing
          /\ UNCHANGED crashes

\* ... the store.
FindInStore ==
    /\ call.phase = "load"
    /\ UNCHANGED vars
    /\ Tell(call.key, disk[call.key], "store")
    /\ Hangup

LfJob(k) == call = NoCall /\ life # "closed" /\ FindInRunner(k)

\* lf_cancel: Runner.Cancel flags an active job; otherwise findJob follows.
LfCancel(k) ==
    /\ \/ CancelFlag(k) /\ Begin([phase |-> "cancelling", run |-> <<k, active[k]>>])
       \/ active[k] = 0 /\ UNCHANGED vars /\ Begin([phase |-> "find", key |-> k])
    /\ TellNothing

LfCancelTooLate == call.phase = "find" /\ FindInRunner(call.key)

\* Cancel returns true after cancel() has been called.
LfCancelled ==
    /\ call.phase = "cancelling"
    /\ call.run \notin delivering
    /\ UNCHANGED vars
    /\ TellNothing
    /\ Hangup

\* lf_status has these jobs to look for in the store; without any it answers.
LookFor(phase, keys) ==
    call' = IF keys = {} THEN NoCall ELSE [phase |-> phase, keys |-> keys]

\* lf_status: List, under the lock of the runner.  Of a job that is listed twice
\* the agent goes by the later entry.
LfStatus ==
    LET seen == {k \in Keys : Listed(k) # <<>>}
    IN  /\ call = NoCall
        /\ life # "closed"
        /\ LookFor("listed", Keys \ seen)
        /\ UNCHANGED <<vars, crashes>>
        /\ told' = [k \in Keys |-> IF k \in seen THEN Listed(k)[Len(Listed(k))] ELSE told[k]]
        /\ fresh' = fresh \cup seen

\* LoadJobs: the names of the files.  A job that is not listed and has no file
\* is not in the answer.
ReadJobDir ==
    /\ call.phase = "listed"
    /\ UNCHANGED <<vars, fresh>>
    /\ LET missing == {k \in call.keys : disk[k] = NoJob}
       IN  /\ told' = [k \in Keys |-> IF k \in missing THEN NoJob ELSE told[k]]
           /\ LookFor("loadAll", call.keys \ missing)
    /\ UNCHANGED crashes

\* Each file; those of listed jobs are passed over.
ReadJobFile(k) ==
    /\ call.phase = "loadAll"
    /\ k \in call.keys
    /\ UNCHANGED vars
    /\ Tell(k, disk[k], "store")
    /\ LookFor("loadAll", call.keys \ {k})
    /\ UNCHANGED crashes

\* The process dies, or has been closed, and is started again.  Only the volume
\* and the agent's memory survive; nothing is read back into the runner.
Restart ==
    /\ crashes < MaxCrashes
    /\ crashes' = crashes + 1
    /\ active' = [k \in Keys |-> 0]
    /\ recent' = [k \in Keys |-> NoJob]
    /\ fp' = [r \in Runs |-> NoFingerprint]
    /\ status' = [r \in Runs |-> "none"]
    /\ pc' = [r \in Runs |-> "none"]
    /\ ctx' = [r \in Runs |-> "alive"]
    /\ tripped' = [r \in Runs |-> {}]
    /\ err' = [r \in Runs |-> "nil"]
    /\ cancelled' = [r \in Runs |-> FALSE]
    /\ explicit' = [r \in Runs |-> FALSE]
    /\ sem' = {}
    /\ delivering' = {}
    /\ life' = "open"
    /\ ctxAtReturn' = [r \in Runs |-> "alive"]
    /\ fresh' = {}
    /\ call' = NoCall
    /\ UNCHANGED <<disk, told>>

ToolStep ==
    \/ \E k \in Keys : LfJob(k) \/ LfCancel(k) \/ ReadJobFile(k)
    \/ \E k \in Keys, f \in Fingerprints : LfSubmitNew(k, f) \/ LfSubmitActive(k, f)
    \/ FindInStore
    \/ LfCancelTooLate
    \/ LfCancelled
    \/ LfStatus
    \/ ReadJobDir

ToolsNext ==
    \/ Next /\ UNCHANGED agent
    \/ ToolStep
    \/ Restart

ToolsSpec == ToolsInit /\ [][ToolsNext]_allVars

-----------------------------------------------------------------------------
ToolsTypeOK ==
    /\ TypeOK
    /\ told \in [Keys -> Snapshots]
    /\ fresh \in SUBSET Keys
    /\ call \in Calls
    /\ crashes \in 0 .. MaxCrashes

\* As long as one server process lives, what its runner tells the agent about a
\* job, through any tool, only moves forward: a later attempt, or a later status
\* of the same one.
PollForward == [][\A k \in Keys :
    LET before == told[k]
        after  == told'[k]
    IN  k \in fresh /\ k \in fresh' =>
            \/ after = before
            \/ after.attempt > before.attempt
            \/ after.attempt = before.attempt /\ MovesOn(before.status, after.status)]_allVars

\* A job id that was handed out is never answered "unknown job_id" and never
\* missing from lf_status, not even after a restart: Submit persists the job
\* before it returns.
KnownStaysKnown == [][\A k \in Keys : told[k] # NoJob => told'[k] # NoJob]_allVars

\* lf_status can list a job id twice, but a reader can tell the entries apart:
\* they are different attempts, the current one last, and all others have ended.
StatusUnambiguous == \A k \in Keys : \A i, j \in DOMAIN Listed(k) :
    i < j => /\ Listed(k)[i].attempt < Listed(k)[j].attempt
             /\ Listed(k)[i].status \in Terminal

-----------------------------------------------------------------------------
\* A statement of the repository that the code does not keep.

\* runner.go: "After a terminal state, submit starts a new attempt", ADR-003: a
\* resubmission "is recorded as a new attempt": its number differs from that of
\* the attempt the agent has seen end.
AttemptsAreNew == [][\A k \in Keys :
    told[k].status \in Terminal /\ told'[k].status = "queued"
        => told'[k].attempt # told[k].attempt]_allVars
=============================================================================
