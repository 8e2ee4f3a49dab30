---------------------------- MODULE RunnerProofs ----------------------------
(***************************************************************************)
(* What holds of the job engine for every set of keys, every number of     *)
(* workers and every bound on attempts.                                    *)
(***************************************************************************)
EXTENDS Runner, FiniteSetTheorems, TLAPS

-----------------------------------------------------------------------------
(* Type correctness.                                                       *)

\* Every variable of the engine keeps its type, whatever submits, cancels,
\* budgets, stages and shutdown do.
LEMMA TypeStep == TypeOK /\ [Next]_vars => TypeOK'
<1> SUFFICES ASSUME TypeOK, [Next]_vars PROVE TypeOK'
  OBVIOUS
<1> USE RunnerAssumption
<1>1. ASSUME NEW k \in Keys, NEW f \in Fingerprints, SubmitNew(k, f)
      PROVE  TypeOK'
  <2> DEFINE r == <<k, recent[k].attempt + 1>>
  <2>1. r \in Runs /\ recent[k].attempt + 1 \in 0 .. MaxAttempts
    BY <1>1 DEF SubmitNew, TypeOK, Runs, Snapshots
  <2>2. [attempt |-> recent[k].attempt + 1, status |-> "queued"] \in Snapshots
    BY <2>1 DEF Snapshots, Statuses
  <2> QED
    BY <1>1, <2>1, <2>2 DEF SubmitNew, Write, TypeOK, Statuses, PCs, Live, Registered, CtxErrs, locals
<1>2. ASSUME NEW k \in Keys, CancelFlag(k)
      PROVE  TypeOK'
  <2>1. <<k, active[k]>> \in Runs
    BY <1>2 DEF CancelFlag, TypeOK, Runs
  <2> QED
    BY <1>2, <2>1 DEF CancelFlag, TypeOK, registry, locals
<1>3. ASSUME NEW r \in Runs, Acquire(r)
      PROVE  TypeOK'
  BY <1>3 DEF Acquire, Goto, TypeOK, PCs, Live, Registered, Executing, registry, locals
<1>4. ASSUME NEW r \in Runs, OwnStep(r)
      PROVE  TypeOK'
  <2>0. SnapshotOf(r) \in Snapshots /\ Key(r) \in Keys
    BY DEF SnapshotOf, Snapshots, Runs, Key, TypeOK
  <2>1. CASE AbortQueued(r)
    BY <2>1 DEF AbortQueued, Goto, TypeOK, PCs, Live, Registered, CtxErrs, Errs, registry
  <2>2. CASE SetRunning(r)
    BY <2>2 DEF SetRunning, Goto, TypeOK, PCs, Live, Registered, Executing, Statuses, registry, locals
  <2>3. CASE PersistRunning(r)
    BY <2>0, <2>3 DEF PersistRunning, Persist, Write, Goto, TypeOK, PCs, Live, Registered, Executing, locals
  <2>4. CASE CheckDead(r)
    BY <2>4 DEF CheckDead, Goto, TypeOK, PCs, Live, Registered, Executing, CtxErrs, Errs, registry
  <2>5. CASE CheckDeadline(r)
    BY <2>5 DEF CheckDeadline, Goto, TypeOK, PCs, Live, Registered, Errs, registry
  <2>6. CASE ReadCancelled(r)
    BY <2>6 DEF ReadCancelled, Goto, TypeOK, PCs, Live, Registered, registry
  <2>7. CASE Decide(r)
    <3>1. Outcome(err[r], explicit[r]) \in Statuses
      BY DEF Outcome, Statuses, Terminal
    <3> QED
      BY <2>7, <3>1 DEF Decide, Goto, TypeOK, PCs, Live, Registered, registry, locals
  <2>8. CASE Publish(r)
    BY <2>0, <2>8 DEF Publish, Goto, TypeOK, PCs, Live, locals
  <2>9. CASE PersistTerminal(r)
    BY <2>0, <2>9 DEF PersistTerminal, Persist, Write, Goto, TypeOK, PCs, Live, locals
  <2>10. CASE Exit(r)
    BY <2>10 DEF Exit, Goto, TypeOK, PCs, CtxErrs, Errs, registry
  <2> QED
    BY <1>4, <2>1, <2>2, <2>3, <2>4, <2>5, <2>6, <2>7, <2>8, <2>9, <2>10 DEF OwnStep, FinishStep
<1>5. ASSUME NEW r \in Runs, StageStep(r)
      PROVE  TypeOK'
  <2>1. CASE Narrate(r)
    <3>1. SnapshotOf(r) \in Snapshots /\ Key(r) \in Keys
      BY DEF SnapshotOf, Snapshots, Runs, Key, TypeOK
    <3> QED
      BY <2>1, <3>1 DEF Narrate, Persist, Write, TypeOK, locals
  <2>2. ASSUME NEW limit \in Limits, Trip(r, limit) PROVE TypeOK'
    BY <2>2 DEF Trip, Kill, TypeOK, CtxErrs, registry
  <2>3. ASSUME NEW e \in Errs, Return(r, e) PROVE TypeOK'
    BY <2>3 DEF Return, Goto, TypeOK, PCs, Live, Registered, Executing, registry
  <2> QED
    BY <1>5, <2>1, <2>2, <2>3 DEF StageStep
<1>6. ASSUME NEW r \in Runs, Deadline(r)
      PROVE  TypeOK'
  BY <1>6 DEF Deadline, TypeOK, CtxErrs, registry, locals
<1>7. ASSUME NEW r \in Runs, CancelDeliver(r)
      PROVE  TypeOK'
  BY <1>7 DEF CancelDeliver, Kill, TypeOK, CtxErrs, registry, locals
<1>8. CASE Stop
  BY <1>8 DEF Stop, Kill, TypeOK, CtxErrs, registry, locals
<1>9. CASE Drained
  BY <1>9 DEF Drained, TypeOK, registry, locals
<1>10. CASE UNCHANGED vars
  BY <1>10 DEF vars, TypeOK
<1> QED
  BY <1>1, <1>2, <1>3, <1>4, <1>5, <1>6, <1>7, <1>8, <1>9, <1>10 DEF Next, Exited

\* Every variable of the engine keeps its type.
THEOREM TypeCorrect == Spec => []TypeOK
<1>1. Init => TypeOK
  BY RunnerAssumption DEF Init, TypeOK, Runs, Snapshots, NoJob, Statuses, PCs, Live, Registered,
     CtxErrs, Errs
<1> QED
  BY <1>1, TypeStep, PTL DEF Spec

-----------------------------------------------------------------------------
(* The parts of the inductive invariant, one step per action.              *)

\* The run that Submit starts has not begun before.
LEMMA FreshRun ==
    ASSUME TypeOK, RegistryInv, NEW k \in Keys, NEW f \in Fingerprints, SubmitNew(k, f)
    PROVE  LET r == <<k, recent[k].attempt + 1>>
           IN  r \in Runs /\ r[1] = k /\ r[2] = recent[k].attempt + 1 /\ pc[r] = "none"
<1> DEFINE r == <<k, recent[k].attempt + 1>>
<1>1. recent[k].attempt \in Nat /\ recent[k].attempt + 1 \in 1 .. MaxAttempts
  BY RunnerAssumption DEF SubmitNew, TypeOK, Snapshots
<1>2. r \in Runs /\ Key(r) = k /\ r[2] = recent[k].attempt + 1
  BY <1>1 DEF Runs, Key
<1>3. Latest(k) = recent[k].attempt
  BY DEF SubmitNew, Latest
<1>4. pc[r] = "none"
  BY <1>1, <1>2, <1>3 DEF RegistryInv
<1> QED
  BY <1>2, <1>4 DEF Key

\* A key is active exactly while its run is registered.
LEMMA ActiveRun ==
    ASSUME TypeOK, RegistryInv, NEW k \in Keys, active[k] # 0
    PROVE  <<k, active[k]>> \in Runs /\ pc[<<k, active[k]>>] \in Registered
<1>1. <<k, active[k]>> \in Runs /\ Key(<<k, active[k]>>) = k
  BY DEF TypeOK, Runs, Key
<1> QED
  BY <1>1 DEF RegistryInv

\* The registry, the attempt numbers and the goroutines stay in step.
LEMMA RegistryStep == TypeOK /\ RegistryInv /\ [Next]_vars => RegistryInv'
<1> SUFFICES ASSUME TypeOK, RegistryInv, [Next]_vars PROVE RegistryInv'
  OBVIOUS
<1>1. ASSUME NEW k \in Keys, NEW f \in Fingerprints, SubmitNew(k, f) PROVE RegistryInv'
  <2> DEFINE r == <<k, recent[k].attempt + 1>>
  <2>1. r \in Runs /\ r[1] = k /\ r[2] = recent[k].attempt + 1 /\ pc[r] = "none"
    BY <1>1, FreshRun
  <2>2. /\ active' = [active EXCEPT ![k] = r[2]]
        /\ pc' = [pc EXCEPT ![r] = "queued"]
        /\ recent' = recent
        /\ active[k] = 0
    BY <1>1, <2>1 DEF SubmitNew
  <2>3. recent[k].attempt \in Nat /\ r[2] \in Nat \ {0}
    BY <2>1, RunnerAssumption DEF TypeOK, Snapshots
  <2>4. \A s \in Runs : s # r => s[1] # k \/ s[2] # r[2]
    BY <2>1 DEF Runs
  <2>5. ASSUME NEW s \in Runs
        PROVE  /\ pc'[s] \in Registered <=> active'[Key(s)] = s[2]
               /\ pc'[s] = "none" <=> s[2] > Latest(Key(s))'
    <3>1. s[1] \in Keys /\ s[2] \in Nat \ {0}
      BY RunnerAssumption DEF Runs
    <3>2. CASE s[1] # k
      <4>1. pc'[s] = pc[s] /\ active'[Key(s)] = active[Key(s)] /\ Latest(Key(s))' = Latest(Key(s))
        BY <2>1, <2>2, <3>1, <3>2 DEF TypeOK, Latest, Key
      <4> QED
        BY <4>1 DEF RegistryInv
    <3>3. CASE s = r
      BY <2>1, <2>2, <2>3, <3>3 DEF TypeOK, Latest, Key, Registered
    <3>4. CASE s[1] = k /\ s # r
      <4>1. pc'[s] = pc[s] /\ active'[Key(s)] = r[2] /\ Latest(Key(s))' = r[2] /\ s[2] # r[2]
        BY <2>2, <2>3, <2>4, <3>4 DEF TypeOK, Latest, Key
      <4>2. pc[s] \notin Registered /\ (pc[s] = "none" <=> s[2] > recent[k].attempt)
        BY <2>2, <3>1, <3>4 DEF RegistryInv, Latest, Key
      <4> QED
        BY <2>1, <2>3, <3>1, <4>1, <4>2
    <3> QED
      BY <3>2, <3>3, <3>4
  <2>6. \A j \in Keys : active'[j] # 0 => active'[j] = recent'[j].attempt + 1
    BY <2>1, <2>2 DEF TypeOK, RegistryInv
  <2> QED
    BY <2>5, <2>6 DEF RegistryInv
<1>2. ASSUME NEW k \in Keys, CancelFlag(k) PROVE RegistryInv'
  BY <1>2 DEF CancelFlag, RegistryInv, Latest, locals, registry
<1>3. ASSUME NEW r \in Runs, Acquire(r) PROVE RegistryInv'
  BY <1>3 DEF Acquire, Goto, RegistryInv, Latest, Registered, Executing, locals,
     registry
<1>4. ASSUME NEW r \in Runs, AbortQueued(r) PROVE RegistryInv'
  BY <1>4 DEF AbortQueued, Goto, RegistryInv, Latest, Registered, locals, registry
<1>5. ASSUME NEW r \in Runs, SetRunning(r) PROVE RegistryInv'
  BY <1>5 DEF SetRunning, Goto, RegistryInv, Latest, Registered, Executing, locals,
     registry
<1>6. ASSUME NEW r \in Runs, PersistRunning(r) PROVE RegistryInv'
  BY <1>6 DEF PersistRunning, Goto, RegistryInv, Latest, Registered, Executing
<1>7. ASSUME NEW r \in Runs, CheckDead(r) PROVE RegistryInv'
  BY <1>7 DEF CheckDead, Goto, RegistryInv, Latest, Registered, Executing, locals,
     registry
<1>8. ASSUME NEW r \in Runs, CheckDeadline(r) PROVE RegistryInv'
  BY <1>8 DEF CheckDeadline, Goto, TypeOK, RegistryInv, Latest, Registered, Live,
     PCs, locals, registry
<1>9. ASSUME NEW r \in Runs, ReadCancelled(r) PROVE RegistryInv'
  BY <1>9 DEF ReadCancelled, Goto, RegistryInv, Latest, Registered, locals, registry
<1>10. ASSUME NEW r \in Runs, Decide(r) PROVE RegistryInv'
  BY <1>10 DEF Decide, Goto, RegistryInv, Latest, Registered, locals, registry
<1>11. ASSUME NEW r \in Runs, Publish(r) PROVE RegistryInv'
  <2>1. /\ active' = [active EXCEPT ![Key(r)] = 0]
        /\ recent' = [recent EXCEPT ![Key(r)] = SnapshotOf(r)]
        /\ pc' = [pc EXCEPT ![r] = "published"]
        /\ pc[r] \in Registered
    BY <1>11 DEF Publish, Goto, Registered
  <2>2. Key(r) \in Keys /\ r[2] \in Nat \ {0} /\ active[Key(r)] = r[2] /\ SnapshotOf(r).attempt = r[2]
    BY <2>1, RunnerAssumption DEF RegistryInv, Runs, Key, SnapshotOf
  <2>3. ASSUME NEW s \in Runs
        PROVE  /\ pc'[s] \in Registered <=> active'[Key(s)] = s[2]
               /\ pc'[s] = "none" <=> s[2] > Latest(Key(s))'
    <3>1. Key(s) \in Keys /\ s[2] \in Nat \ {0}
      BY RunnerAssumption DEF Runs, Key
    <3>2. CASE Key(s) # Key(r)
      <4>1. pc'[s] = pc[s] /\ active'[Key(s)] = active[Key(s)] /\ Latest(Key(s))' = Latest(Key(s))
        BY <2>1, <3>1, <3>2 DEF TypeOK, Latest
      <4> QED
        BY <4>1 DEF RegistryInv
    <3>3. CASE Key(s) = Key(r)
      <4>1. active'[Key(s)] = 0 /\ Latest(Key(s))' = r[2] /\ Latest(Key(s)) = r[2]
        BY <2>1, <2>2, <3>3 DEF TypeOK, Latest
      <4>2. pc'[s] \notin Registered
        <5>1. CASE s = r
          BY <2>1, <5>1 DEF TypeOK, Registered, Executing
        <5>2. CASE s # r
          <6>1. s[2] # r[2]
            BY <3>3, <5>2 DEF Runs, Key
          <6> QED
            BY <2>1, <2>2, <3>3, <5>2, <6>1 DEF TypeOK, RegistryInv
        <5> QED
          BY <5>1, <5>2
      <4>3. pc'[s] = "none" <=> pc[s] = "none"
        BY <2>1 DEF TypeOK, Registered, Executing
      <4> QED
        BY <3>1, <4>1, <4>2, <4>3 DEF RegistryInv
    <3> QED
      BY <3>2, <3>3
  <2>4. \A k \in Keys : active'[k] # 0 => active'[k] = recent'[k].attempt + 1
    BY <2>1 DEF TypeOK, RegistryInv
  <2> QED
    BY <2>3, <2>4 DEF RegistryInv
<1>12. ASSUME NEW r \in Runs, PersistTerminal(r) PROVE RegistryInv'
  BY <1>12 DEF PersistTerminal, Goto, RegistryInv, Latest, Registered,
     Executing
<1>13. ASSUME NEW r \in Runs, Exit(r) PROVE RegistryInv'
  BY <1>13 DEF Exit, Goto, RegistryInv, Latest, Registered, Executing, locals,
     registry
<1>14. ASSUME NEW r \in Runs, Narrate(r) PROVE RegistryInv'
  BY <1>14 DEF Narrate, RegistryInv, Latest
<1>15. ASSUME NEW r \in Runs, NEW limit \in Limits, Trip(r, limit) PROVE RegistryInv'
  BY <1>15 DEF Trip, RegistryInv, Latest, locals, registry
<1>16. ASSUME NEW r \in Runs, NEW e \in Errs, Return(r, e) PROVE RegistryInv'
  BY <1>16 DEF Return, Goto, RegistryInv, Latest, Registered, Executing, locals,
     registry
<1>17. ASSUME NEW r \in Runs, Deadline(r) PROVE RegistryInv'
  BY <1>17 DEF Deadline, RegistryInv, Latest, locals, registry
<1>18. ASSUME NEW r \in Runs, CancelDeliver(r) PROVE RegistryInv'
  BY <1>18 DEF CancelDeliver, RegistryInv, Latest, locals, registry
<1>19. CASE Stop
  BY <1>19 DEF Stop, RegistryInv, Latest, locals, registry
<1>20. CASE Drained
  BY <1>20 DEF Drained, RegistryInv, Latest, locals, registry
<1>21. CASE UNCHANGED vars
  BY <1>21 DEF vars, RegistryInv, Latest
<1> QED
  BY <1>1, <1>2, <1>3, <1>4, <1>5, <1>6, <1>7, <1>8, <1>9, <1>10, <1>11,
     <1>12, <1>13, <1>14, <1>15, <1>16, <1>17, <1>18, <1>19, <1>20, <1>21
     DEF OwnStep, FinishStep, StageStep, Next, Exited

\* Whoever executes holds a slot, and slots stay bounded.
LEMMA SlotStep == TypeOK /\ SlotInv /\ [Next]_vars => SlotInv'
<1> SUFFICES ASSUME TypeOK, SlotInv, [Next]_vars PROVE SlotInv'
  OBVIOUS
<1>1. ASSUME NEW k \in Keys, NEW f \in Fingerprints, SubmitNew(k, f) PROVE SlotInv'
  BY <1>1 DEF SubmitNew, SlotInv, Executing
<1>2. ASSUME NEW k \in Keys, CancelFlag(k) PROVE SlotInv'
  BY <1>2 DEF CancelFlag, SlotInv
<1>3. ASSUME NEW r \in Runs, Acquire(r) PROVE SlotInv'
  <2>0. IsFiniteSet(sem) /\ Cardinality(sem) \in Nat
    BY FS_CardinalityType DEF SlotInv
  <2>1. IsFiniteSet(sem') /\ Cardinality(sem') <= Cardinality(sem) + 1
    BY <1>3, <2>0, FS_AddElement DEF Acquire
  <2>2. Cardinality(sem') \in Nat
    BY <2>1, FS_CardinalityType
  <2>3. Cardinality(sem') <= Workers
    BY <1>3, <2>0, <2>1, <2>2, RunnerAssumption DEF Acquire
  <2>4. \A s \in Runs : pc'[s] \in Executing => s \in sem'
    BY <1>3 DEF Acquire, Goto, SlotInv, TypeOK
  <2> QED
    BY <2>1, <2>3, <2>4 DEF SlotInv
<1>4. ASSUME NEW r \in Runs, AbortQueued(r) PROVE SlotInv'
  BY <1>4 DEF AbortQueued, Goto, SlotInv, Executing
<1>5. ASSUME NEW r \in Runs, SetRunning(r) PROVE SlotInv'
  BY <1>5 DEF SetRunning, Goto, SlotInv, Executing
<1>6. ASSUME NEW r \in Runs, PersistRunning(r) PROVE SlotInv'
  BY <1>6 DEF PersistRunning, Goto, SlotInv, Executing
<1>7. ASSUME NEW r \in Runs, CheckDead(r) PROVE SlotInv'
  BY <1>7 DEF CheckDead, Goto, SlotInv, Executing
<1>8. ASSUME NEW r \in Runs, CheckDeadline(r) PROVE SlotInv'
  BY <1>8 DEF CheckDeadline, Goto, SlotInv, Executing
<1>9. ASSUME NEW r \in Runs, ReadCancelled(r) PROVE SlotInv'
  BY <1>9 DEF ReadCancelled, Goto, SlotInv, Executing
<1>10. ASSUME NEW r \in Runs, Decide(r) PROVE SlotInv'
  BY <1>10 DEF Decide, Goto, SlotInv, Executing
<1>11. ASSUME NEW r \in Runs, Publish(r) PROVE SlotInv'
  BY <1>11 DEF Publish, Goto, SlotInv, Executing
<1>12. ASSUME NEW r \in Runs, PersistTerminal(r) PROVE SlotInv'
  BY <1>12 DEF PersistTerminal, Goto, SlotInv, Executing
<1>13. ASSUME NEW r \in Runs, Exit(r) PROVE SlotInv'
  <2>1. IsFiniteSet(sem') /\ Cardinality(sem') <= Cardinality(sem)
    <3>1. sem' \subseteq sem
      BY <1>13 DEF Exit
    <3> QED
      BY <3>1, FS_Subset DEF SlotInv
  <2>2. Cardinality(sem) \in Nat /\ Cardinality(sem') \in Nat
    BY <2>1, FS_CardinalityType DEF SlotInv
  <2>3. Cardinality(sem') <= Workers
    BY <2>1, <2>2, RunnerAssumption DEF SlotInv
  <2>4. \A s \in Runs : pc'[s] \in Executing => s \in sem'
    BY <1>13 DEF Exit, Goto, SlotInv, TypeOK, Executing
  <2> QED
    BY <2>1, <2>3, <2>4 DEF SlotInv
<1>14. ASSUME NEW r \in Runs, Narrate(r) PROVE SlotInv'
  BY <1>14 DEF Narrate, SlotInv
<1>15. ASSUME NEW r \in Runs, NEW limit \in Limits, Trip(r, limit) PROVE SlotInv'
  BY <1>15 DEF Trip, SlotInv
<1>16. ASSUME NEW r \in Runs, NEW e \in Errs, Return(r, e) PROVE SlotInv'
  BY <1>16 DEF Return, Goto, SlotInv, Executing
<1>17. ASSUME NEW r \in Runs, Deadline(r) PROVE SlotInv'
  BY <1>17 DEF Deadline, SlotInv
<1>18. ASSUME NEW r \in Runs, CancelDeliver(r) PROVE SlotInv'
  BY <1>18 DEF CancelDeliver, SlotInv
<1>19. CASE Stop
  BY <1>19 DEF Stop, SlotInv
<1>20. CASE Drained
  BY <1>20 DEF Drained, SlotInv
<1>21. CASE UNCHANGED vars
  BY <1>21 DEF vars, SlotInv
<1> QED
  BY <1>1, <1>2, <1>3, <1>4, <1>5, <1>6, <1>7, <1>8, <1>9, <1>10, <1>11,
     <1>12, <1>13, <1>14, <1>15, <1>16, <1>17, <1>18, <1>19, <1>20, <1>21
     DEF OwnStep, FinishStep, StageStep, Next, Exited

\* job.Status stays in step with the goroutine.
LEMMA StatusStep == TypeOK /\ RegistryInv /\ StatusInv /\ [Next]_vars => StatusInv'
<1> SUFFICES ASSUME TypeOK, RegistryInv, StatusInv, [Next]_vars PROVE StatusInv'
  OBVIOUS
<1>1. ASSUME NEW k \in Keys, NEW f \in Fingerprints, SubmitNew(k, f) PROVE StatusInv'
  BY <1>1 DEF SubmitNew, TypeOK, StatusInv, Settled, locals, registry
<1>2. ASSUME NEW k \in Keys, CancelFlag(k) PROVE StatusInv'
  BY <1>2 DEF CancelFlag, StatusInv, locals, registry
<1>3. ASSUME NEW r \in Runs, Acquire(r) PROVE StatusInv'
  BY <1>3 DEF Acquire, Goto, StatusInv, Settled, locals, registry
<1>4. ASSUME NEW r \in Runs, AbortQueued(r) PROVE StatusInv'
  BY <1>4 DEF AbortQueued, Goto, TypeOK, StatusInv, Settled, CtxErrs, locals,
     registry
<1>5. ASSUME NEW r \in Runs, SetRunning(r) PROVE StatusInv'
  BY <1>5 DEF SetRunning, Goto, TypeOK, StatusInv, Settled, locals, registry
<1>6. ASSUME NEW r \in Runs, PersistRunning(r) PROVE StatusInv'
  BY <1>6 DEF PersistRunning, Goto, StatusInv, Settled, locals, registry
<1>7. ASSUME NEW r \in Runs, CheckDead(r) PROVE StatusInv'
  BY <1>7 DEF CheckDead, Goto, StatusInv, Settled, locals, registry
<1>8. ASSUME NEW r \in Runs, CheckDeadline(r) PROVE StatusInv'
  BY <1>8 DEF CheckDeadline, Goto, StatusInv, Settled, locals, registry
<1>9. ASSUME NEW r \in Runs, ReadCancelled(r) PROVE StatusInv'
  BY <1>9 DEF ReadCancelled, Goto, StatusInv, Settled, locals, registry
<1>10. ASSUME NEW r \in Runs, Decide(r) PROVE StatusInv'
  BY <1>10 DEF Decide, Goto, TypeOK, StatusInv, Terminal, Outcome, locals, registry
<1>11. ASSUME NEW r \in Runs, Publish(r) PROVE StatusInv'
  BY <1>11 DEF Publish, Goto, StatusInv, Settled, SnapshotOf, locals, registry
<1>12. ASSUME NEW r \in Runs, PersistTerminal(r) PROVE StatusInv'
  BY <1>12 DEF PersistTerminal, Goto, StatusInv, Settled, locals, registry
<1>13. ASSUME NEW r \in Runs, Exit(r) PROVE StatusInv'
  BY <1>13 DEF Exit, Goto, StatusInv, Settled, locals, registry
<1>14. ASSUME NEW r \in Runs, Narrate(r) PROVE StatusInv'
  BY <1>14 DEF Narrate, StatusInv, locals, registry
<1>15. ASSUME NEW r \in Runs, NEW limit \in Limits, Trip(r, limit) PROVE StatusInv'
  BY <1>15 DEF Trip, StatusInv, locals, registry
<1>16. ASSUME NEW r \in Runs, NEW e \in Errs, Return(r, e) PROVE StatusInv'
  BY <1>16 DEF Return, Goto, StatusInv, Settled, locals, registry
<1>17. ASSUME NEW r \in Runs, Deadline(r) PROVE StatusInv'
  BY <1>17 DEF Deadline, StatusInv, locals, registry
<1>18. ASSUME NEW r \in Runs, CancelDeliver(r) PROVE StatusInv'
  BY <1>18 DEF CancelDeliver, Kill, StatusInv, locals, registry
<1>19. CASE Stop
  BY <1>19 DEF Stop, Kill, StatusInv, locals, registry
<1>20. CASE Drained
  BY <1>20 DEF Drained, StatusInv, locals, registry
<1>21. CASE UNCHANGED vars
  BY <1>21 DEF vars, StatusInv
<1> QED
  BY <1>1, <1>2, <1>3, <1>4, <1>5, <1>6, <1>7, <1>8, <1>9, <1>10, <1>11,
     <1>12, <1>13, <1>14, <1>15, <1>16, <1>17, <1>18, <1>19, <1>20, <1>21
     DEF OwnStep, FinishStep, StageStep, Next, Exited

\* No success survives a dead context.
LEMMA KillStep == TypeOK /\ RegistryInv /\ KillInv /\ [Next]_vars => KillInv'
<1> SUFFICES ASSUME TypeOK, RegistryInv, KillInv, [Next]_vars PROVE KillInv'
  OBVIOUS
<1>1. ASSUME NEW k \in Keys, NEW f \in Fingerprints, SubmitNew(k, f) PROVE KillInv'
  <2> DEFINE r == <<k, recent[k].attempt + 1>>
  <2>1. r \in Runs /\ pc[r] = "none"
    BY <1>1, FreshRun
  <2>2. /\ pc' = [pc EXCEPT ![r] = "queued"]
        /\ ctx' = [ctx EXCEPT ![r] = IF life = "open" THEN "alive" ELSE "canceled"]
        /\ status' = [status EXCEPT ![r] = "queued"]
        /\ UNCHANGED <<tripped, err, explicit, ctxAtReturn, cancelled, delivering, life>>
    BY <1>1 DEF SubmitNew, locals
  <2> QED
    BY <2>1, <2>2 DEF KillInv, TypeOK, Settled, Registered, Executing
<1>2. ASSUME NEW k \in Keys, CancelFlag(k) PROVE KillInv'
  BY <1>2 DEF CancelFlag, KillInv, locals, registry
<1>3. ASSUME NEW r \in Runs, Acquire(r) PROVE KillInv'
  BY <1>3 DEF Acquire, Goto, KillInv, Settled, locals, registry
<1>4. ASSUME NEW r \in Runs, AbortQueued(r) PROVE KillInv'
  BY <1>4 DEF AbortQueued, Goto, TypeOK, KillInv, Settled, CtxErrs
<1>5. ASSUME NEW r \in Runs, SetRunning(r) PROVE KillInv'
  BY <1>5 DEF SetRunning, Goto, TypeOK, KillInv, locals, registry
<1>6. ASSUME NEW r \in Runs, PersistRunning(r) PROVE KillInv'
  BY <1>6 DEF PersistRunning, Goto, KillInv, Settled, locals, registry
<1>7. ASSUME NEW r \in Runs, CheckDead(r) PROVE KillInv'
  BY <1>7 DEF CheckDead, Goto, TypeOK, KillInv, Settled, CtxErrs
<1>8. ASSUME NEW r \in Runs, CheckDeadline(r) PROVE KillInv'
  BY <1>8 DEF CheckDeadline, Goto, KillInv, Settled
<1>9. ASSUME NEW r \in Runs, ReadCancelled(r) PROVE KillInv'
  BY <1>9 DEF ReadCancelled, Goto, KillInv, Settled
<1>10. ASSUME NEW r \in Runs, Decide(r) PROVE KillInv'
  BY <1>10 DEF Decide, Goto, TypeOK, KillInv, Outcome, locals, registry
<1>11. ASSUME NEW r \in Runs, Publish(r) PROVE KillInv'
  BY <1>11 DEF Publish, Goto, KillInv, Settled, locals, registry
<1>12. ASSUME NEW r \in Runs, PersistTerminal(r) PROVE KillInv'
  BY <1>12 DEF PersistTerminal, Goto, KillInv, Settled, locals, registry
<1>13. ASSUME NEW r \in Runs, Exit(r) PROVE KillInv'
  BY <1>13 DEF Exit, Goto, TypeOK, KillInv
<1>14. ASSUME NEW r \in Runs, Narrate(r) PROVE KillInv'
  BY <1>14 DEF Narrate, KillInv, locals, registry
<1>15. ASSUME NEW r \in Runs, NEW limit \in Limits, Trip(r, limit) PROVE KillInv'
  BY <1>15 DEF Trip, Kill, TypeOK, KillInv, Settled
<1>16. ASSUME NEW r \in Runs, NEW e \in Errs, Return(r, e) PROVE KillInv'
  BY <1>16 DEF Return, Goto, TypeOK, KillInv, Settled
<1>17. ASSUME NEW r \in Runs, Deadline(r) PROVE KillInv'
  BY <1>17 DEF Deadline, KillInv, locals, registry
<1>18. ASSUME NEW r \in Runs, CancelDeliver(r) PROVE KillInv'
  BY <1>18 DEF CancelDeliver, Kill, KillInv, locals, registry
<1>19. CASE Stop
  BY <1>19 DEF Stop, Kill, KillInv, locals, registry
<1>20. CASE Drained
  BY <1>20 DEF Drained, KillInv, locals, registry
<1>21. CASE UNCHANGED vars
  BY <1>21 DEF vars, KillInv
<1> QED
  BY <1>1, <1>2, <1>3, <1>4, <1>5, <1>6, <1>7, <1>8, <1>9, <1>10, <1>11,
     <1>12, <1>13, <1>14, <1>15, <1>16, <1>17, <1>18, <1>19, <1>20, <1>21
     DEF OwnStep, FinishStep, StageStep, Next, Exited

\* A cancelled context means a flagged job, until a limit trips or the server stops.
LEMMA CancelStep == TypeOK /\ RegistryInv /\ KillInv /\ CancelInv /\ [Next]_vars => CancelInv'
<1> SUFFICES ASSUME TypeOK, RegistryInv, KillInv, CancelInv, [Next]_vars PROVE CancelInv'
  OBVIOUS
<1>1. ASSUME NEW k \in Keys, NEW f \in Fingerprints, SubmitNew(k, f) PROVE CancelInv'
  <2> DEFINE r == <<k, recent[k].attempt + 1>>
  <2>1. r \in Runs /\ pc[r] = "none"
    BY <1>1, FreshRun
  <2>2. /\ pc' = [pc EXCEPT ![r] = "queued"]
        /\ ctx' = [ctx EXCEPT ![r] = IF life = "open" THEN "alive" ELSE "canceled"]
        /\ status' = [status EXCEPT ![r] = "queued"]
        /\ UNCHANGED <<tripped, err, explicit, ctxAtReturn, cancelled, delivering, life>>
    BY <1>1 DEF SubmitNew, locals
  <2> QED
    BY <2>1, <2>2 DEF CancelInv, TypeOK, Settled, Registered, Executing
<1>2. ASSUME NEW k \in Keys, CancelFlag(k) PROVE CancelInv'
  BY <1>2, ActiveRun DEF CancelFlag, TypeOK, CancelInv, Registered, Executing,
     locals, registry
<1>3. ASSUME NEW r \in Runs, Acquire(r) PROVE CancelInv'
  BY <1>3 DEF Acquire, Goto, CancelInv, Registered, locals, registry
<1>4. ASSUME NEW r \in Runs, AbortQueued(r) PROVE CancelInv'
  BY <1>4 DEF AbortQueued, Goto, CancelInv, Registered
<1>5. ASSUME NEW r \in Runs, SetRunning(r) PROVE CancelInv'
  BY <1>5 DEF SetRunning, Goto, CancelInv, Registered, Executing, locals, registry
<1>6. ASSUME NEW r \in Runs, PersistRunning(r) PROVE CancelInv'
  BY <1>6 DEF PersistRunning, Goto, CancelInv, Registered, Executing, locals,
     registry
<1>7. ASSUME NEW r \in Runs, CheckDead(r) PROVE CancelInv'
  BY <1>7 DEF CheckDead, Goto, CancelInv, Settled, Registered, Executing
<1>8. ASSUME NEW r \in Runs, CheckDeadline(r) PROVE CancelInv'
  BY <1>8 DEF CheckDeadline, Goto, CancelInv, Settled, Registered, Executing
<1>9. ASSUME NEW r \in Runs, ReadCancelled(r) PROVE CancelInv'
  BY <1>9 DEF ReadCancelled, Goto, TypeOK, CancelInv, Settled, Registered
<1>10. ASSUME NEW r \in Runs, Decide(r) PROVE CancelInv'
  BY <1>10 DEF Decide, Goto, TypeOK, CancelInv, KillInv, Outcome, Registered,
     locals, registry
<1>11. ASSUME NEW r \in Runs, Publish(r) PROVE CancelInv'
  BY <1>11 DEF Publish, Goto, CancelInv, Settled, Registered, locals, registry
<1>12. ASSUME NEW r \in Runs, PersistTerminal(r) PROVE CancelInv'
  BY <1>12 DEF PersistTerminal, Goto, CancelInv, Settled, Registered, Executing,
     locals, registry
<1>13. ASSUME NEW r \in Runs, Exit(r) PROVE CancelInv'
  BY <1>13 DEF Exit, Goto, TypeOK, CancelInv, Registered, Executing
<1>14. ASSUME NEW r \in Runs, Narrate(r) PROVE CancelInv'
  BY <1>14 DEF Narrate, CancelInv, locals, registry
<1>15. ASSUME NEW r \in Runs, NEW limit \in Limits, Trip(r, limit) PROVE CancelInv'
  BY <1>15 DEF Trip, TypeOK, CancelInv
<1>16. ASSUME NEW r \in Runs, NEW e \in Errs, Return(r, e) PROVE CancelInv'
  BY <1>16 DEF Return, Goto, CancelInv, Settled, Registered, Executing
<1>17. ASSUME NEW r \in Runs, Deadline(r) PROVE CancelInv'
  BY <1>17 DEF Deadline, CancelInv, locals, registry
<1>18. ASSUME NEW r \in Runs, CancelDeliver(r) PROVE CancelInv'
  BY <1>18 DEF CancelDeliver, CancelInv, locals, registry
<1>19. CASE Stop
  BY <1>19 DEF Stop, CancelInv, locals, registry
<1>20. CASE Drained
  BY <1>20 DEF Drained, CancelInv, locals, registry
<1>21. CASE UNCHANGED vars
  BY <1>21 DEF vars, CancelInv
<1> QED
  BY <1>1, <1>2, <1>3, <1>4, <1>5, <1>6, <1>7, <1>8, <1>9, <1>10, <1>11,
     <1>12, <1>13, <1>14, <1>15, <1>16, <1>17, <1>18, <1>19, <1>20, <1>21
     DEF OwnStep, FinishStep, StageStep, Next, Exited

\* Every file names a run that has begun, with an outcome only if it is published.
LEMMA DiskStep == TypeOK /\ RegistryInv /\ StatusInv /\ DiskInv /\ [Next]_vars => DiskInv'
<1> SUFFICES ASSUME TypeOK, RegistryInv, StatusInv, DiskInv, [Next]_vars PROVE DiskInv'
  OBVIOUS
<1>1. ASSUME NEW k \in Keys, NEW f \in Fingerprints, SubmitNew(k, f) PROVE DiskInv'
  <2> DEFINE r == <<k, recent[k].attempt + 1>>
  <2>1. r \in Runs /\ r[2] = recent[k].attempt + 1 /\ pc[r] = "none"
    BY <1>1, FreshRun
  <2>2. r[2] # 0
    BY <2>1, RunnerAssumption DEF Runs
  <2>3. /\ pc' = [pc EXCEPT ![r] = "queued"]
        /\ status' = [status EXCEPT ![r] = "queued"]
        /\ Write(k, [attempt |-> r[2], status |-> "queued"])
    BY <1>1, <2>1 DEF SubmitNew
  <2> SUFFICES ASSUME NEW j \in Keys
               PROVE  DiskInv!(j)'
    BY DEF DiskInv
  <2>4. CASE disk'[j] = disk[j]
    BY <2>1, <2>3, <2>4 DEF DiskInv, TypeOK, Registered, Executing
  <2>5. CASE j = k /\ disk'[k] = [attempt |-> r[2], status |-> "queued"]
    BY <2>1, <2>2, <2>3, <2>5 DEF TypeOK, Registered
  <2> QED
    BY <2>3, <2>4, <2>5 DEF Write, TypeOK
<1>2. ASSUME NEW k \in Keys, CancelFlag(k) PROVE DiskInv'
  BY <1>2 DEF CancelFlag, DiskInv, locals, registry
<1>3. ASSUME NEW r \in Runs, Acquire(r) PROVE DiskInv'
  BY <1>3 DEF Acquire, Goto, DiskInv, Registered, Executing, locals, registry
<1>4. ASSUME NEW r \in Runs, AbortQueued(r) PROVE DiskInv'
  BY <1>4 DEF AbortQueued, Goto, DiskInv, Registered, locals, registry
<1>5. ASSUME NEW r \in Runs, SetRunning(r) PROVE DiskInv'
  BY <1>5 DEF SetRunning, Goto, DiskInv, Key, Registered, Executing, locals,
     registry
<1>6. ASSUME NEW r \in Runs, PersistRunning(r) PROVE DiskInv'
  <2>1. r = <<Key(r), r[2]>> /\ Key(r) \in Keys /\ r[2] # 0
    BY DEF Runs, Key
  <2>2. /\ Write(Key(r), [attempt |-> r[2], status |-> "running"])
        /\ status' = status
        /\ pc' = [pc EXCEPT ![r] = "stage"]
        /\ pc[r] = "started"
    BY <1>6 DEF PersistRunning, Goto, Persist, SnapshotOf, StatusInv
  <2> SUFFICES ASSUME NEW k \in Keys
               PROVE  DiskInv!(k)'
    BY DEF DiskInv
  <2>3. CASE disk'[k] = [attempt |-> r[2], status |-> "running"] /\ k = Key(r)
    BY <2>1, <2>2, <2>3 DEF TypeOK, Registered, Executing
  <2>4. CASE disk'[k] = disk[k]
    BY <2>2, <2>4 DEF DiskInv, TypeOK, Registered, Executing
  <2> QED
    BY <2>1, <2>2, <2>3, <2>4 DEF Write, TypeOK
<1>7. ASSUME NEW r \in Runs, CheckDead(r) PROVE DiskInv'
  BY <1>7 DEF CheckDead, Goto, DiskInv, Key, Registered, Executing, locals, registry
<1>8. ASSUME NEW r \in Runs, CheckDeadline(r) PROVE DiskInv'
  BY <1>8 DEF CheckDeadline, Goto, DiskInv, Registered, locals, registry
<1>9. ASSUME NEW r \in Runs, ReadCancelled(r) PROVE DiskInv'
  BY <1>9 DEF ReadCancelled, Goto, DiskInv, Latest, Registered, locals, registry
<1>10. ASSUME NEW r \in Runs, Decide(r) PROVE DiskInv'
  BY <1>10 DEF Decide, Goto, DiskInv, Registered, locals, registry
<1>11. ASSUME NEW r \in Runs, Publish(r) PROVE DiskInv'
  BY <1>11 DEF Publish, Goto, DiskInv
<1>12. ASSUME NEW r \in Runs, PersistTerminal(r) PROVE DiskInv'
  <2>1. r = <<Key(r), r[2]>> /\ Key(r) \in Keys /\ r[2] # 0
    BY DEF Runs, Key
  <2>2. /\ Write(Key(r), [attempt |-> r[2], status |-> status[r]])
        /\ status' = status
        /\ pc' = [pc EXCEPT ![r] = "exiting"]
        /\ pc[r] = "published"
    BY <1>12 DEF PersistTerminal, Goto, Persist, SnapshotOf
  <2>3. status[r] \in Terminal
    BY <2>2 DEF StatusInv, Settled
  <2> SUFFICES ASSUME NEW k \in Keys
               PROVE  DiskInv!(k)'
    BY DEF DiskInv
  <2>4. CASE disk'[k] = [attempt |-> r[2], status |-> status[r]] /\ k = Key(r)
    BY <2>1, <2>2, <2>3, <2>4 DEF TypeOK
  <2>5. CASE disk'[k] = disk[k] /\ (LossyDisk \/ <<k, disk[k].attempt>> # r)
    BY <2>2, <2>5 DEF DiskInv, TypeOK, Registered, Executing
  <2> QED
    BY <2>1, <2>2, <2>4, <2>5 DEF Write, TypeOK
<1>13. ASSUME NEW r \in Runs, Exit(r) PROVE DiskInv'
  <2>1. /\ disk' = disk /\ status' = status
        /\ pc' = [pc EXCEPT ![r] = "gone"]
        /\ pc[r] = "exiting"
    BY <1>13 DEF Exit, Goto, registry
  <2> QED
    BY <2>1 DEF DiskInv, TypeOK, Registered, Executing
<1>14. ASSUME NEW r \in Runs, Narrate(r) PROVE DiskInv'
  <2>1. r = <<Key(r), r[2]>> /\ Key(r) \in Keys /\ r[2] # 0
    BY DEF Runs, Key
  <2>2. /\ Write(Key(r), [attempt |-> r[2], status |-> "running"])
        /\ UNCHANGED <<pc, status>>
        /\ pc[r] \in Registered
    BY <1>14 DEF Narrate, Persist, SnapshotOf, StatusInv, Registered, Executing
  <2> SUFFICES ASSUME NEW k \in Keys
               PROVE  DiskInv!(k)'
    BY DEF DiskInv
  <2>3. CASE disk'[k] = [attempt |-> r[2], status |-> "running"] /\ k = Key(r)
    BY <2>1, <2>2, <2>3 DEF Registered, Executing
  <2>4. CASE disk'[k] = disk[k]
    BY <2>2, <2>4 DEF DiskInv
  <2> QED
    BY <2>1, <2>2, <2>3, <2>4 DEF Write, TypeOK
<1>15. ASSUME NEW r \in Runs, NEW limit \in Limits, Trip(r, limit) PROVE DiskInv'
  BY <1>15 DEF Trip, DiskInv, locals, registry
<1>16. ASSUME NEW r \in Runs, NEW e \in Errs, Return(r, e) PROVE DiskInv'
  BY <1>16 DEF Return, Goto, DiskInv, Registered, Executing, locals, registry
<1>17. ASSUME NEW r \in Runs, Deadline(r) PROVE DiskInv'
  BY <1>17 DEF Deadline, DiskInv, locals, registry
<1>18. ASSUME NEW r \in Runs, CancelDeliver(r) PROVE DiskInv'
  BY <1>18 DEF CancelDeliver, DiskInv, locals, registry
<1>19. CASE Stop
  BY <1>19 DEF Stop, DiskInv, locals, registry
<1>20. CASE Drained
  BY <1>20 DEF Drained, DiskInv, locals, registry
<1>21. CASE UNCHANGED vars
  BY <1>21 DEF vars, DiskInv
<1> QED
  BY <1>1, <1>2, <1>3, <1>4, <1>5, <1>6, <1>7, <1>8, <1>9, <1>10, <1>11,
     <1>12, <1>13, <1>14, <1>15, <1>16, <1>17, <1>18, <1>19, <1>20, <1>21
     DEF OwnStep, FinishStep, StageStep, Next, Exited

-----------------------------------------------------------------------------
(* The inductive invariant, and what follows from it.                      *)

\* A server starts without runs and without files.
LEMMA InitIInv == Init => IInv
<1> SUFFICES ASSUME Init PROVE IInv
  OBVIOUS
<1>1. TypeOK
  BY RunnerAssumption DEF Init, TypeOK, Runs, Snapshots, NoJob, Statuses, PCs, Live,
     Registered, CtxErrs, Errs
<1>2. RegistryInv
  BY DEF Init, RegistryInv, Registered, Executing, Latest, NoJob, Runs, Key
<1>3. StatusInv /\ KillInv /\ CancelInv
  BY DEF Init, StatusInv, KillInv, CancelInv, Settled, Registered, Executing
<1>4. SlotInv
  BY RunnerAssumption, FS_EmptySet DEF Init, SlotInv, Executing
<1>5. DiskInv
  BY DEF Init, DiskInv
<1> QED
  BY <1>1, <1>2, <1>3, <1>4, <1>5 DEF IInv

\* Every step, of whoever, preserves the whole invariant.
LEMMA IInvStep == IInv /\ [Next]_vars => IInv'
BY TypeStep, RegistryStep, StatusStep, SlotStep, KillStep, CancelStep, DiskStep DEF IInv

\* The part of the invariant that is about the process alone: it holds again of
\* the next process, whatever files the last one has left.
EngineInv == TypeOK /\ RegistryInv /\ StatusInv /\ SlotInv /\ KillInv /\ CancelInv

\* It is preserved without a look at the disk ...
LEMMA EngineStep == EngineInv /\ [Next]_vars => EngineInv'
BY TypeStep, RegistryStep, StatusStep, SlotStep, KillStep, CancelStep DEF EngineInv

\* ... and is what keeps the engine safe.
LEMMA EngineSafe ==
    EngineInv => OneRunPerKey /\ BoundedWorkers /\ KillSwitch /\ CancelIsNamed
<1> SUFFICES ASSUME EngineInv
             PROVE  OneRunPerKey /\ BoundedWorkers /\ KillSwitch /\ CancelIsNamed
  OBVIOUS
<1>1. OneRunPerKey
  <2> SUFFICES ASSUME NEW r \in Runs, NEW s \in Runs, Key(r) = Key(s),
                      pc[r] \in Registered, pc[s] \in Registered
               PROVE  r = s
    BY DEF OneRunPerKey
  <2>1. r[2] = s[2]
    BY DEF EngineInv, RegistryInv
  <2> QED
    BY <2>1 DEF Key, Runs
<1>2. BoundedWorkers
  <2> DEFINE E == {r \in Runs : pc[r] \in Executing}
  <2>1. E \subseteq sem
    BY DEF EngineInv, SlotInv
  <2>2. IsFiniteSet(E) /\ Cardinality(E) <= Cardinality(sem)
    BY <2>1, FS_Subset DEF EngineInv, SlotInv
  <2>3. Cardinality(E) \in Nat /\ Cardinality(sem) \in Nat
    BY <2>2, FS_CardinalityType DEF EngineInv, SlotInv
  <2>4. Cardinality(E) <= Workers
    BY <2>2, <2>3, RunnerAssumption DEF EngineInv, SlotInv
  <2> QED
    BY <2>4 DEF BoundedWorkers
<1>3. KillSwitch /\ CancelIsNamed
  BY DEF EngineInv, KillInv, KillSwitch, CancelInv, CancelIsNamed
<1> QED
  BY <1>1, <1>2, <1>3

\* The engine never leaves its inductive invariant.
THEOREM Inductive == Spec => []IInv
BY InitIInv, IInvStep, PTL DEF Spec

\* However submits, cancels and finishes interleave, one key has one run at work.
THEOREM IdempotentSubmit == Spec => []OneRunPerKey
<1>1. IInv => OneRunPerKey
  BY EngineSafe DEF IInv, EngineInv
<1> QED
  BY <1>1, Inductive, PTL

\* No more goroutines execute than there are workers.
THEOREM WorkerBound == Spec => []BoundedWorkers
<1>1. IInv => BoundedWorkers
  BY EngineSafe DEF IInv, EngineInv
<1> QED
  BY <1>1, Inductive, PTL

\* A job killed by a limit, a deadline, lf_cancel or shutdown before its stage
\* returned is never reported done.
THEOREM KillSwitchIntegrity == Spec => []KillSwitch
<1>1. IInv => KillSwitch
  BY EngineSafe DEF IInv, EngineInv
<1> QED
  BY <1>1, Inductive, PTL

\* While the server is up and no limit has tripped, a stage that came back on a
\* cancelled context ends "cancelled", whatever error it came back with.
THEOREM CancelClassified == Spec => []CancelIsNamed
<1>1. IInv => CancelIsNamed
  BY EngineSafe DEF IInv, EngineInv
<1> QED
  BY <1>1, Inductive, PTL

\* A terminal job file is the published outcome of the run it names.
THEOREM TruthfulFiles == Spec => []DiskTruthful
<1>1. IInv => DiskTruthful
  BY DEF IInv, DiskInv, DiskTruthful, NoJob, Terminal
<1> QED
  BY <1>1, Inductive, PTL

\* When the runs of a key are over and every write succeeded, its file is
\* terminal.
THEOREM NoFileLeftBehind == Spec => []NoOrphanFile
<1>1. IInv => NoOrphanFile
  <2> SUFFICES ASSUME IInv, ~LossyDisk, NEW k \in Keys,
                      \A r \in Runs : Key(r) = k => pc[r] \in {"none", "gone"}
               PROVE  disk[k].status \in Terminal \cup {"none"}
    BY DEF NoOrphanFile
  <2> DEFINE r == <<k, disk[k].attempt>>
  <2>1. CASE disk[k] = NoJob
    BY <2>1 DEF NoJob
  <2>2. CASE disk[k].attempt # 0
    <3>1. r \in Runs /\ Key(r) = k
      BY <2>2 DEF IInv, TypeOK, Snapshots, Runs, Key
    <3>2. pc[r] \in {"none", "gone"}
      BY <3>1
    <3> QED
      BY <2>2, <3>2 DEF IInv, DiskInv, NoJob, Registered, Executing
  <2> QED
    BY <2>1, <2>2 DEF IInv, DiskInv
<1> QED
  BY <1>1, Inductive, PTL

-----------------------------------------------------------------------------
(* Files only move forward.                                                *)

\* What Persist(r) writes is where the file of r already is, or further on.
LEMMA PersistForward ==
    ASSUME IInv, NEW r \in Runs, Persist(r), NEW t,
           status[r] = t, pc[r] \in {"started", "stage", "published"}
    PROVE  \A k \in Keys : ForwardStep(k)
<1>1. Write(Key(r), [attempt |-> r[2], status |-> t])
  BY DEF Persist, SnapshotOf
<1>2. Key(r) \in Keys /\ r = <<Key(r), r[2]>> /\ r[2] # 0
  BY DEF Runs, Key
<1>3. IF pc[r] = "published" THEN t \in Terminal ELSE t = "running"
  BY DEF IInv, StatusInv, Settled
<1>4. ASSUME disk[Key(r)].attempt = r[2]
      PROVE  disk[Key(r)].status = t \/ MovesOn(disk[Key(r)].status, t)
  <2>1. \/ disk[Key(r)].status \in {"queued", "running"}
        \/ /\ disk[Key(r)].status \in Terminal
           /\ pc[r] \in {"published", "exiting", "gone"}
           /\ disk[Key(r)].status = t
    BY <1>2, <1>4 DEF IInv, DiskInv, NoJob
  <2> QED
    BY <1>3, <2>1 DEF MovesOn
<1> SUFFICES ASSUME NEW k \in Keys, disk'[k].attempt = disk[k].attempt, disk'[k] # disk[k]
             PROVE  MovesOn(disk[k].status, disk'[k].status)
  BY DEF ForwardStep
<1>5. k = Key(r) /\ disk'[k] = [attempt |-> r[2], status |-> t]
  BY <1>1 DEF Write, IInv, TypeOK
<1>6. disk[k] \in Snapshots
  BY DEF IInv, TypeOK
<1>7. disk[k].status # t
  BY <1>5, <1>6 DEF Snapshots
<1> QED
  BY <1>4, <1>5, <1>7

\* The job file of one attempt never goes back.
THEOREM FilesMoveForward == Spec => DiskForward
<1>1. IInv /\ [Next]_vars => [\A k \in Keys : ForwardStep(k)]_vars
  <2> SUFFICES ASSUME IInv, [Next]_vars PROVE \A k \in Keys : ForwardStep(k)
    OBVIOUS
  <2>1. ASSUME NEW k \in Keys, NEW f \in Fingerprints, SubmitNew(k, f)
        PROVE  \A j \in Keys : ForwardStep(j)
    <3> DEFINE r == <<k, recent[k].attempt + 1>>
    <3>1. r \in Runs /\ pc[r] = "none" /\ r[2] = recent[k].attempt + 1
      BY <2>1, FreshRun DEF IInv
    <3>2. r[2] # 0
      BY <3>1, RunnerAssumption DEF Runs
    <3>3. disk[k].attempt # r[2]
      BY <3>1, <3>2 DEF IInv, DiskInv, NoJob, Registered, Executing
    <3>4. Write(k, [attempt |-> r[2], status |-> "queued"])
      BY <2>1, <3>1 DEF SubmitNew
    <3> QED
      BY <3>3, <3>4 DEF Write, ForwardStep, IInv, TypeOK
  <2>2. ASSUME NEW r \in Runs, PersistRunning(r)
        PROVE  \A k \in Keys : ForwardStep(k)
    BY <2>2, PersistForward DEF PersistRunning, Goto
  <2>3. ASSUME NEW r \in Runs, Narrate(r)
        PROVE  \A k \in Keys : ForwardStep(k)
    BY <2>3, PersistForward DEF Narrate
  <2>4. ASSUME NEW r \in Runs, PersistTerminal(r)
        PROVE  \A k \in Keys : ForwardStep(k)
    BY <2>4, PersistForward DEF PersistTerminal, Goto
  <2>5. CASE UNCHANGED disk
    BY <2>5 DEF ForwardStep
  <2>6. ASSUME NEW r \in Runs, OwnStep(r)
        PROVE  UNCHANGED disk \/ PersistRunning(r) \/ PersistTerminal(r)
    BY <2>6 DEF OwnStep, FinishStep, AbortQueued, SetRunning, CheckDead, CheckDeadline,
       ReadCancelled, Decide, Publish, Exit, registry
  <2>7. ASSUME NEW r \in Runs, StageStep(r)
        PROVE  UNCHANGED disk \/ Narrate(r)
    BY <2>7 DEF StageStep, Trip, Return, registry
  <2>8. ASSUME NEW r \in Runs, Acquire(r) \/ Deadline(r) \/ CancelDeliver(r)
        PROVE  UNCHANGED disk
    BY <2>8 DEF Acquire, Deadline, CancelDeliver, registry
  <2>9. ASSUME (\E k \in Keys : CancelFlag(k)) \/ Stop \/ Drained \/ UNCHANGED vars
        PROVE  UNCHANGED disk
    BY <2>9 DEF CancelFlag, Stop, Drained, vars, registry
  <2> QED
    BY <2>1, <2>2, <2>3, <2>4, <2>5, <2>6, <2>7, <2>8, <2>9 DEF Next, Exited
<1> QED
  BY <1>1, Inductive, PTL DEF Spec, DiskForward

-----------------------------------------------------------------------------
(* The engine implements the board.                                        *)

\* A registered run is what the board shows of its key.
LEMMA ViewOfRun ==
    ASSUME EngineInv, NEW r \in Runs, pc[r] \in Registered
    PROVE  /\ Key(r) \in Keys /\ r = <<Key(r), r[2]>> /\ r[2] # 0
           /\ active[Key(r)] = r[2]
           /\ view[Key(r)] = [attempt |-> r[2], status |-> status[r]]
<1>1. Key(r) \in Keys /\ r = <<Key(r), r[2]>> /\ r[2] # 0
  BY DEF Runs, Key
<1>2. active[Key(r)] = r[2]
  BY DEF EngineInv, RegistryInv
<1> QED
  BY <1>1, <1>2 DEF view, Get, SnapshotOf

\* Setting the status of a registered run updates its key on the board.
LEMMA ViewUpdate ==
    ASSUME EngineInv, NEW r \in Runs, pc[r] \in Registered, NEW s,
           status' = [status EXCEPT ![r] = s], UNCHANGED <<active, recent>>
    PROVE  view' = [view EXCEPT ![Key(r)] = [attempt |-> r[2], status |-> s]]
<1>1. Key(r) \in Keys /\ r = <<Key(r), r[2]>> /\ r[2] # 0 /\ active[Key(r)] = r[2]
  BY ViewOfRun
<1>2. ASSUME NEW k \in Keys
      PROVE  Get(k)' = IF k = Key(r) THEN [attempt |-> r[2], status |-> s] ELSE Get(k)
  <2>1. CASE k = Key(r)
    BY <1>1, <2>1 DEF Get, SnapshotOf, EngineInv, TypeOK
  <2>2. CASE k # Key(r) /\ active[k] = 0
    BY <2>2 DEF Get
  <2>3. CASE k # Key(r) /\ active[k] # 0
    <3>1. <<k, active[k]>> \in Runs /\ <<k, active[k]>> # r
      BY <1>1, <2>3, ActiveRun DEF EngineInv
    <3>2. status'[<<k, active[k]>>] = status[<<k, active[k]>>]
      BY <3>1 DEF EngineInv, TypeOK
    <3> QED
      BY <2>3, <3>2 DEF Get, SnapshotOf
  <2> QED
    BY <2>1, <2>2, <2>3
<1> QED
  BY <1>1, <1>2 DEF view

\* A step that leaves the registry and every status alone leaves the board alone.
LEMMA ViewUnchanged ==
    ASSUME UNCHANGED <<active, recent, status>>
    PROVE  UNCHANGED view
BY DEF view, Get, SnapshotOf

\* Publishing an outcome does not change what pollers see.
LEMMA ViewPublish ==
    ASSUME EngineInv, NEW r \in Runs, Publish(r)
    PROVE  UNCHANGED view
<1>1. pc[r] \in Registered
  BY DEF Publish, Goto, Registered
<1>2. Key(r) \in Keys /\ r = <<Key(r), r[2]>> /\ active[Key(r)] = r[2] /\ r[2] # 0
  BY <1>1, ViewOfRun
<1>3. /\ active' = [active EXCEPT ![Key(r)] = 0]
      /\ recent' = [recent EXCEPT ![Key(r)] = SnapshotOf(r)]
      /\ status' = status
  BY DEF Publish
<1>4. ASSUME NEW k \in Keys PROVE Get(k)' = Get(k)
  <2>1. CASE k = Key(r)
    BY <1>2, <1>3, <2>1 DEF Get, SnapshotOf, EngineInv, TypeOK
  <2>2. CASE k # Key(r)
    BY <1>2, <1>3, <2>2 DEF Get, SnapshotOf, EngineInv, TypeOK
  <2> QED
    BY <2>1, <2>2
<1> QED
  BY <1>4 DEF view

\* Submit on an inactive key puts its next attempt on the board.
LEMMA ViewSubmit ==
    ASSUME EngineInv, NEW k \in Keys, NEW f \in Fingerprints, SubmitNew(k, f)
    PROVE  /\ view[k] = recent[k]
           /\ view' = [view EXCEPT ![k] = [attempt |-> recent[k].attempt + 1, status |-> "queued"]]
<1> DEFINE r == <<k, recent[k].attempt + 1>>
<1>1. r \in Runs /\ r[2] = recent[k].attempt + 1 /\ r[2] # 0 /\ active[k] = 0
  <2>1. r \in Runs /\ r[2] = recent[k].attempt + 1
    BY FreshRun DEF EngineInv
  <2> QED
    BY <2>1, RunnerAssumption DEF Runs, SubmitNew
<1>2. /\ active' = [active EXCEPT ![k] = r[2]]
      /\ status' = [status EXCEPT ![r] = "queued"]
      /\ recent' = recent
  BY <1>1 DEF SubmitNew
<1>3. ASSUME NEW j \in Keys
      PROVE  Get(j)' = IF j = k THEN [attempt |-> r[2], status |-> "queued"] ELSE Get(j)
  <2>1. CASE j = k
    BY <1>1, <1>2, <2>1 DEF Get, SnapshotOf, EngineInv, TypeOK
  <2>2. CASE j # k /\ active[j] = 0
    BY <1>2, <2>2 DEF Get, EngineInv, TypeOK
  <2>3. CASE j # k /\ active[j] # 0
    <3>1. <<j, active[j]>> \in Runs /\ <<j, active[j]>> # r
      BY <1>1, <2>3, ActiveRun DEF EngineInv
    <3> QED
      BY <1>2, <2>3, <3>1 DEF Get, SnapshotOf, EngineInv, TypeOK
  <2> QED
    BY <2>1, <2>2, <2>3
<1> QED
  BY <1>1, <1>3 DEF view, Get

\* Every step of the engine is one of the board, or pollers see nothing of it.
LEMMA BoardStep == EngineInv /\ [Next]_vars => [Board!BoardNext]_view
<1> SUFFICES ASSUME EngineInv, [Next]_vars PROVE Board!BoardNext \/ UNCHANGED view
  OBVIOUS
<1> USE DEF Board!Attempt
<1>1. ASSUME NEW k \in Keys, NEW f \in Fingerprints, SubmitNew(k, f)
      PROVE  Board!Enqueue(k)
  <2>1. view[k].status \in Terminal \cup {"none"}
    BY <1>1, ViewSubmit DEF EngineInv, StatusInv, NoJob
  <2>2. view[k].attempt < MaxAttempts
    <3>1. recent[k].attempt \in Nat /\ recent[k].attempt + 1 <= MaxAttempts
      BY <1>1, RunnerAssumption DEF EngineInv, TypeOK, Snapshots, SubmitNew
    <3> QED
      BY <1>1, <3>1, ViewSubmit, RunnerAssumption
  <2> QED
    BY <1>1, <2>1, <2>2, ViewSubmit DEF Board!Enqueue, Board!Terminal, Terminal
<1>2. ASSUME NEW r \in Runs, SetRunning(r)
      PROVE  Board!Start(Key(r))
  <2>1. pc[r] \in Registered /\ status[r] = "queued"
    BY <1>2 DEF SetRunning, Goto, Registered, Executing, EngineInv, StatusInv
  <2>2. view' = [view EXCEPT ![Key(r)] = [attempt |-> r[2], status |-> "running"]]
    BY <1>2, <2>1, ViewUpdate DEF SetRunning, registry
  <2>3. view[Key(r)] = [attempt |-> r[2], status |-> "queued"]
    BY <2>1, ViewOfRun
  <2> QED
    BY <2>2, <2>3 DEF Board!Start
<1>3. ASSUME NEW r \in Runs, Decide(r)
      PROVE  Board!BoardNext
  <2> DEFINE s == Outcome(err[r], explicit[r])
  <2>1. pc[r] \in Registered /\ Key(r) \in Keys
    BY <1>3, ViewOfRun DEF Decide, Goto, Registered
  <2>2. view' = [view EXCEPT ![Key(r)] = [attempt |-> r[2], status |-> s]]
    BY <1>3, <2>1, ViewUpdate DEF Decide, registry
  <2>3. s \in Terminal
    BY DEF Outcome, Terminal
  <2>4. view[Key(r)] = [attempt |-> r[2], status |-> status[r]]
    BY <2>1, ViewOfRun
  <2>5. CASE status[r] = "running"
    <3>1. Board!Conclude(Key(r), s)
      BY <2>2, <2>4, <2>5 DEF Board!Conclude
    <3> QED
      BY <2>1, <2>3, <3>1 DEF Board!BoardNext, Board!Terminal, Terminal
  <2>6. CASE status[r] = "queued" /\ err[r] = "canceled"
    <3>1. s = "cancelled"
      BY <2>6 DEF Outcome, IsBudgetErr
    <3>2. Board!Abandon(Key(r))
      <4>1. view' = [view EXCEPT ![Key(r)] = [attempt |-> r[2], status |-> "cancelled"]]
        BY <2>2, <3>1
      <4>2. view[Key(r)] = [attempt |-> r[2], status |-> "queued"]
        BY <2>4, <2>6
      <4> QED
        BY <4>1, <4>2 DEF Board!Abandon
    <3> QED
      BY <2>1, <3>2 DEF Board!BoardNext
  <2> QED
    BY <1>3, <2>5, <2>6 DEF Decide, Goto, EngineInv, StatusInv
<1>4. ASSUME NEW r \in Runs, OwnStep(r)
      PROVE  Board!BoardNext \/ UNCHANGED view
  <2>1. CASE SetRunning(r)
    BY <1>2, <2>1 DEF Board!BoardNext, Runs, Key
  <2>2. CASE Decide(r)
    BY <1>3, <2>2
  <2>3. CASE Publish(r)
    BY <2>3, ViewPublish
  <2>4. CASE \/ AbortQueued(r) \/ PersistRunning(r) \/ CheckDead(r) \/ CheckDeadline(r)
             \/ ReadCancelled(r) \/ PersistTerminal(r) \/ Exit(r)
    <3>1. UNCHANGED <<active, recent, status>>
      BY <2>4 DEF AbortQueued, PersistRunning, CheckDead, CheckDeadline, ReadCancelled,
         PersistTerminal, Exit, registry
    <3> QED
      BY <3>1, ViewUnchanged
  <2> QED
    BY <1>4, <2>1, <2>2, <2>3, <2>4 DEF OwnStep, FinishStep
<1>5. ASSUME NEW r \in Runs, StageStep(r) \/ Acquire(r) \/ Deadline(r) \/ CancelDeliver(r)
      PROVE  UNCHANGED view
  <2>1. UNCHANGED <<active, recent, status>>
    BY <1>5 DEF StageStep, Narrate, Trip, Return, Acquire, Deadline, CancelDeliver, registry
  <2> QED
    BY <2>1, ViewUnchanged
<1>6. ASSUME (\E k \in Keys : CancelFlag(k)) \/ Stop \/ Drained \/ UNCHANGED vars
      PROVE  UNCHANGED view
  <2>1. UNCHANGED <<active, recent, status>>
    BY <1>6 DEF CancelFlag, Stop, Drained, vars, registry
  <2> QED
    BY <2>1, ViewUnchanged
<1> QED
  BY <1>1, <1>4, <1>5, <1>6 DEF Next, Exited, Board!BoardNext

\* The engine implements the board: whatever happens inside, the answers of
\* lf_job follow the lifecycle, one attempt after the other.
THEOREM ImplementsBoard == Spec => LifecycleSafety
<1>1. Init => Board!BoardInit
  BY DEF Init, Board!BoardInit, view, Get, NoJob, Board!NoJob
<1>2. IInv /\ [Next]_vars => [Board!BoardNext]_view
  BY BoardStep DEF IInv, EngineInv
<1> QED
  BY <1>1, <1>2, Inductive, PTL DEF Spec, LifecycleSafety, Board!BoardSafety

-----------------------------------------------------------------------------
(* What liveness rests on, and what is left of a claim that does not hold.   *)

\* Where a goroutine is on its way: it goes through these places once.
Rank(where) ==
    CASE where = "none" -> 0
      [] where = "queued" -> 1
      [] where = "slotted" -> 2
      [] where = "started" -> 3
      [] where = "stage" -> 4
      [] where = "returned" -> 5
      [] where = "checked" -> 6
      [] where = "finishing" -> 7
      [] where = "deciding" -> 8
      [] where = "decided" -> 9
      [] where = "published" -> 10
      [] where = "exiting" -> 11
      [] where = "gone" -> 12

\* No kill is lost: a job that lf_cancel has flagged has a dead context, or its
\* cancel() is still to come; a limit that has tripped has killed the context;
\* and after Close every job has a dead context, the queued ones and those that
\* are submitted during the shutdown included.
KillsArrive ==
    /\ \A r \in Runs : pc[r] \in Registered =>
          /\ cancelled[r] => r \in delivering \/ ctx[r] # "alive"
          /\ pc[r] = "stage" /\ tripped[r] # {} => ctx[r] # "alive"
          /\ life # "open" => ctx[r] # "alive"
    /\ life = "closed" => \A r \in Runs : pc[r] \in {"none", "gone"}

\* No slot is lost: whoever holds one is past the semaphore and has not exited,
\* so that a job which finds no free slot waits for another that goes on.
SlotsComeBack ==
    /\ \A r \in sem : pc[r] \in Live \ {"queued"}
    /\ \A r \in Runs : pc[r] = "queued" /\ Cardinality(sem) >= Workers =>
          \E s \in sem : s # r /\ pc[s] \in Live \ {"queued"}

\* A client is patient if it submits a key anew only when the last write of the
\* run before is over, not as soon as that run is reported terminal.
Patient == \A k \in Keys : active[k] = 0 /\ active'[k] # 0 =>
    \A r \in Runs : Key(r) = k => pc[r] # "published"

\* Then the run that is about to write its outcome is the latest of its key, and
\* the file of a key without such a run is the latest outcome.
SettledInv ==
    /\ \A r \in Runs : pc[r] = "published" =>
          active[Key(r)] = 0 /\ recent[Key(r)] = SnapshotOf(r)
    /\ \A k \in Keys :
          active[k] = 0 /\ (\A r \in Runs : Key(r) = k => pc[r] # "published")
              => disk[k] = recent[k]

\* Nobody has flagged a run that has not begun.
UnflaggedInv == \A r \in Runs : pc[r] = "none" => ~cancelled[r]

\* Every step of the engine, by what it is.
LEMMA StepCases ==
  ASSUME [Next]_vars
  PROVE  \/ \E k \in Keys, f \in Fingerprints : SubmitNew(k, f)
         \/ \E k \in Keys : CancelFlag(k)
         \/ \E r \in Runs :
               \/ Acquire(r) \/ AbortQueued(r) \/ SetRunning(r) \/ PersistRunning(r)
               \/ CheckDead(r) \/ CheckDeadline(r) \/ ReadCancelled(r) \/ Decide(r)
               \/ Publish(r) \/ PersistTerminal(r) \/ Exit(r)
               \/ Narrate(r) \/ (\E limit \in Limits : Trip(r, limit))
               \/ (\E e \in Errs : Return(r, e)) \/ Deadline(r) \/ CancelDeliver(r)
         \/ Stop
         \/ Drained
         \/ UNCHANGED vars
  BY DEF Next, OwnStep, FinishStep, StageStep, Exited

\* A goroutine only goes on.
LEMMA RankStep ==
  ASSUME TypeOK, RegistryInv, [Next]_vars, NEW r \in Runs
  PROVE  Rank(pc[r]) <= Rank(pc'[r])
<1>1. ASSUME NEW k \in Keys, NEW f \in Fingerprints, SubmitNew(k, f)
      PROVE  pc'[r] = pc[r] \/ (pc[r] = "none" /\ pc'[r] = "queued")
  BY <1>1, FreshRun DEF SubmitNew, TypeOK
<1>2. ASSUME NEW s \in Runs,
             \/ Acquire(s) \/ AbortQueued(s) \/ SetRunning(s) \/ PersistRunning(s)
             \/ CheckDead(s) \/ CheckDeadline(s) \/ ReadCancelled(s) \/ Decide(s)
             \/ Publish(s) \/ PersistTerminal(s) \/ Exit(s)
             \/ (\E e \in Errs : Return(s, e))
      PROVE  \E from, to \in PCs : Goto(s, from, to) /\ Rank(from) < Rank(to)
  BY <1>2 DEF Acquire, AbortQueued, SetRunning, PersistRunning, CheckDead, CheckDeadline,
     ReadCancelled, Decide, Publish, PersistTerminal, Exit, Return, PCs, Live, Registered,
     Executing, Rank
<1>3. ASSUME NEW s \in Runs, NEW from \in PCs, NEW to \in PCs, Goto(s, from, to), Rank(from) < Rank(to)
      PROVE  pc'[r] = pc[r] \/ Rank(pc[r]) < Rank(pc'[r])
  BY <1>3 DEF Goto, TypeOK
<1>4. ASSUME \/ \E k \in Keys : CancelFlag(k)
             \/ \E s \in Runs : \/ Narrate(s) \/ (\E limit \in Limits : Trip(s, limit))
                                \/ Deadline(s) \/ CancelDeliver(s)
             \/ Stop \/ Drained \/ UNCHANGED vars
      PROVE  UNCHANGED pc
  BY <1>4 DEF CancelFlag, Narrate, Trip, Deadline, CancelDeliver, Stop, Drained, vars
<1>5. Rank(pc[r]) \in Nat /\ Rank(pc'[r]) \in Nat
  <2>1. \A where \in PCs : Rank(where) \in Nat
    BY DEF Rank, PCs, Live, Registered, Executing
  <2>2. pc[r] \in PCs /\ pc'[r] \in PCs
    BY TypeStep DEF TypeOK
  <2> QED
    BY <2>1, <2>2
<1>6. Rank("none") < Rank("queued")
  BY DEF Rank
<1>7. pc'[r] = pc[r] \/ Rank(pc[r]) < Rank(pc'[r])
  <2>1. CASE \E k \in Keys, f \in Fingerprints : SubmitNew(k, f)
    BY <1>1, <1>6, <2>1
  <2>2. CASE \E s \in Runs :
               \/ Acquire(s) \/ AbortQueued(s) \/ SetRunning(s) \/ PersistRunning(s)
               \/ CheckDead(s) \/ CheckDeadline(s) \/ ReadCancelled(s) \/ Decide(s)
               \/ Publish(s) \/ PersistTerminal(s) \/ Exit(s)
               \/ (\E e \in Errs : Return(s, e))
    BY <1>2, <1>3, <2>2
  <2> QED
    BY <1>4, <2>1, <2>2, StepCases
<1> QED
  BY <1>5, <1>7

\* No step loses a kill.
LEMMA KillsStep ==
  ASSUME TypeOK, RegistryInv, KillInv, KillsArrive, UnflaggedInv, [Next]_vars
  PROVE  KillsArrive' /\ UnflaggedInv'
<1> USE DEF KillsArrive, UnflaggedInv
<1>1. ASSUME NEW k \in Keys, NEW f \in Fingerprints, SubmitNew(k, f)
      PROVE  KillsArrive' /\ UnflaggedInv'
  <2>1. PICK r \in Runs : /\ pc[r] = "none"
                          /\ pc' = [pc EXCEPT ![r] = "queued"]
                          /\ ctx' = [ctx EXCEPT ![r] = IF life = "open" THEN "alive" ELSE "canceled"]
    BY <1>1, FreshRun DEF SubmitNew
  <2>2. UNCHANGED <<cancelled, tripped, delivering, life>> /\ life # "closed"
    BY <1>1 DEF SubmitNew, locals
  <2> QED
    BY <2>1, <2>2 DEF TypeOK, Registered, Executing
<1>2. ASSUME NEW k \in Keys, CancelFlag(k)
      PROVE  KillsArrive' /\ UnflaggedInv'
  BY <1>2, ActiveRun DEF CancelFlag, TypeOK, Registered, Executing, locals
<1>3. ASSUME NEW r \in Runs, Acquire(r) \/ SetRunning(r) \/ PersistRunning(r)
      PROVE  KillsArrive' /\ UnflaggedInv'
  BY <1>3 DEF Acquire, SetRunning, PersistRunning, Goto, TypeOK, KillInv, Registered, Executing, locals
<1>4. ASSUME NEW r \in Runs,
             \/ AbortQueued(r) \/ CheckDead(r) \/ CheckDeadline(r) \/ ReadCancelled(r)
             \/ Decide(r) \/ Publish(r) \/ PersistTerminal(r) \/ (\E e \in Errs : Return(r, e))
      PROVE  KillsArrive' /\ UnflaggedInv'
  <2>1. \E from, to \in PCs \ {"none", "stage", "gone"} : Goto(r, from, to) \/ Goto(r, "stage", to)
    BY <1>4 DEF AbortQueued, CheckDead, CheckDeadline, ReadCancelled, Decide, Publish,
       PersistTerminal, Return, PCs, Live, Registered, Executing
  <2>2. UNCHANGED <<ctx, cancelled, tripped, delivering, life>>
    BY <1>4 DEF AbortQueued, CheckDead, CheckDeadline, ReadCancelled, Decide, Publish,
       PersistTerminal, Return, locals
  <2>3. \A s \in Runs : /\ pc'[s] \in Registered => pc[s] \in Registered
                        /\ pc'[s] = "stage" => pc[s] = "stage"
                        /\ pc'[s] = "none" => pc[s] = "none"
                        /\ pc'[s] \in {"none", "gone"} <=> pc[s] \in {"none", "gone"}
    BY <1>4 DEF AbortQueued, CheckDead, CheckDeadline, ReadCancelled, Decide, Publish,
       PersistTerminal, Return, Goto, TypeOK, Registered, Executing
  <2> QED
    BY <2>2, <2>3
<1>5. ASSUME NEW r \in Runs, Exit(r)
      PROVE  KillsArrive' /\ UnflaggedInv'
  BY <1>5 DEF Exit, Goto, TypeOK, Registered, Executing
<1>6. ASSUME NEW r \in Runs, Narrate(r) \/ (\E limit \in Limits : Trip(r, limit)) \/ Deadline(r)
                             \/ CancelDeliver(r)
      PROVE  KillsArrive' /\ UnflaggedInv'
  BY <1>6 DEF Narrate, Trip, Deadline, CancelDeliver, Kill, TypeOK, CtxErrs, locals
<1>7. CASE Stop
  BY <1>7 DEF Stop, Kill, TypeOK, CtxErrs, locals
<1>8. CASE Drained
  BY <1>8 DEF Drained, locals
<1>9. CASE UNCHANGED vars
  BY <1>9 DEF vars
<1> QED
  BY <1>1, <1>2, <1>3, <1>4, <1>5, <1>6, <1>7, <1>8, <1>9, StepCases

\* Whoever holds a slot goes through the places of Rank and exits.
Holding == Live \ {"queued"}

HolderInv == \A r \in sem : pc[r] \in Holding

\* No step loses a slot.
LEMMA HolderStep ==
  ASSUME TypeOK, RegistryInv, HolderInv, [Next]_vars
  PROVE  HolderInv'
<1> USE DEF HolderInv
<1>1. ASSUME NEW k \in Keys, NEW f \in Fingerprints, SubmitNew(k, f)
      PROVE  HolderInv'
  <2>1. PICK r \in Runs : pc[r] = "none" /\ pc' = [pc EXCEPT ![r] = "queued"]
    BY <1>1, FreshRun DEF SubmitNew
  <2>2. UNCHANGED sem
    BY <1>1 DEF SubmitNew
  <2> QED
    BY <2>1, <2>2 DEF TypeOK, Holding, Live, Registered, Executing
<1>2. ASSUME NEW r \in Runs, Acquire(r)
      PROVE  HolderInv'
  BY <1>2 DEF Acquire, Goto, TypeOK, Holding, Live, Registered, Executing
<1>3. ASSUME NEW r \in Runs,
             \/ AbortQueued(r) \/ SetRunning(r) \/ PersistRunning(r) \/ CheckDead(r)
             \/ CheckDeadline(r) \/ ReadCancelled(r) \/ Decide(r) \/ Publish(r)
             \/ PersistTerminal(r) \/ (\E e \in Errs : Return(r, e))
      PROVE  HolderInv'
  <2>1. UNCHANGED sem /\ \E from \in PCs, to \in Holding : Goto(r, from, to)
    BY <1>3 DEF AbortQueued, SetRunning, PersistRunning, CheckDead, CheckDeadline, ReadCancelled,
       Decide, Publish, PersistTerminal, Return, PCs, Holding, Live, Registered, Executing
  <2> QED
    BY <2>1 DEF Goto, TypeOK
<1>4. ASSUME NEW r \in Runs, Exit(r)
      PROVE  HolderInv'
  BY <1>4 DEF Exit, Goto, TypeOK
<1>5. ASSUME \/ \E k \in Keys : CancelFlag(k)
             \/ \E s \in Runs : \/ Narrate(s) \/ (\E limit \in Limits : Trip(s, limit))
                                \/ Deadline(s) \/ CancelDeliver(s)
             \/ Stop \/ Drained \/ UNCHANGED vars
      PROVE  UNCHANGED <<pc, sem>>
  BY <1>5 DEF CancelFlag, Narrate, Trip, Deadline, CancelDeliver, Stop, Drained, vars
<1> QED
  BY <1>1, <1>2, <1>3, <1>4, <1>5, StepCases

\* If there is no free slot, there is somebody who holds one and goes on.
LEMMA HoldersGoOn ==
  ASSUME HolderInv
  PROVE  SlotsComeBack
<1>1. ASSUME NEW r \in Runs, pc[r] = "queued", Cardinality(sem) >= Workers
      PROVE  \E s \in sem : s # r /\ pc[s] \in Holding
  <2>1. Workers \in Nat \ {0}
    BY RunnerAssumption
  <2>2. sem # {}
    BY <1>1, <2>1, FS_EmptySet
  <2> QED
    BY <1>1, <2>2 DEF HolderInv, Holding
<1> QED
  BY <1>1 DEF SlotsComeBack, HolderInv, Holding

\* A goroutine goes through its places once, in one direction: it can make but
\* finitely many steps besides what it narrates.
THEOREM GoroutinesAdvance == Spec => [][\A r \in Runs : Rank(pc[r]) <= Rank(pc'[r])]_vars
<1>1. IInv /\ [Next]_vars => [\A r \in Runs : Rank(pc[r]) <= Rank(pc'[r])]_vars
  BY RankStep DEF IInv
<1> QED
  BY <1>1, Inductive, PTL DEF Spec

\* No kill is lost, whatever it interleaves with.
THEOREM NoKillIsLost == Spec => []KillsArrive
<1>1. Init => KillsArrive /\ UnflaggedInv
  BY DEF Init, KillsArrive, UnflaggedInv, Registered, Executing
<1>2. IInv /\ (KillsArrive /\ UnflaggedInv) /\ [Next]_vars => (KillsArrive /\ UnflaggedInv)'
  BY KillsStep DEF IInv
<1> QED
  BY <1>1, <1>2, Inductive, PTL DEF Spec

\* No slot is lost, so that a queued job waits for one that goes on.
THEOREM NoSlotIsLost == Spec => []SlotsComeBack
<1>1. Init => HolderInv
  BY DEF Init, HolderInv
<1>2. IInv /\ HolderInv /\ [Next]_vars => HolderInv'
  BY HolderStep DEF IInv
<1>3. IInv /\ HolderInv => SlotsComeBack
  BY HoldersGoOn DEF IInv
<1> QED
  BY <1>1, <1>2, <1>3, Inductive, PTL DEF Spec

\* A patient client keeps SettledInv, if writes succeed.
LEMMA SettledStep ==
  ASSUME ~LossyDisk, IInv, SettledInv, [Next]_vars, [Patient]_vars
  PROVE  SettledInv'
<1> USE DEF IInv
<1>1. ASSUME NEW k \in Keys, NEW f \in Fingerprints, SubmitNew(k, f)
      PROVE  SettledInv'
  <2> DEFINE r == <<k, recent[k].attempt + 1>>
  <2>1. r \in Runs /\ Key(r) = k /\ pc[r] = "none" /\ r[2] # 0
    <3>1. r \in Runs /\ r[1] = k /\ pc[r] = "none"
      BY <1>1, FreshRun
    <3> QED
      BY <3>1 DEF Key, Runs
  <2>2. /\ active[k] = 0 /\ active' = [active EXCEPT ![k] = r[2]]
        /\ pc' = [pc EXCEPT ![r] = "queued"]
        /\ status' = [status EXCEPT ![r] = "queued"]
        /\ recent' = recent
    BY <1>1 DEF SubmitNew
  <2>3. \A j \in Keys : j # k => disk'[j] = disk[j]
    BY <1>1 DEF SubmitNew, Write, TypeOK
  <2> HIDE DEF r
  <2>4. active'[k] # 0 /\ active' # active
    BY <2>1, <2>2 DEF TypeOK
  <2>5. \A s \in Runs : Key(s) = k => pc[s] # "published"
    BY <2>2, <2>4 DEF Patient, vars
  <2>6. \A s \in Runs : pc'[s] = "published" =>
           /\ s # r /\ pc[s] = "published" /\ Key(s) # k
           /\ active'[Key(s)] = active[Key(s)] /\ status'[s] = status[s]
    BY <2>1, <2>2, <2>5 DEF TypeOK, Runs, Key
  <2>7. \A s \in Runs : pc'[s] = "published" =>
           active'[Key(s)] = 0 /\ recent'[Key(s)] = SnapshotOf(s)'
    BY <2>2, <2>6 DEF SettledInv, SnapshotOf
  <2>8. ASSUME NEW j \in Keys, active'[j] = 0,
               \A s \in Runs : Key(s) = j => pc'[s] # "published"
        PROVE  disk'[j] = recent'[j]
    <3>1. j # k
      BY <2>4, <2>8
    <3>2. active[j] = 0 /\ \A s \in Runs : Key(s) = j => pc[s] # "published"
      BY <2>1, <2>2, <2>8, <3>1 DEF TypeOK
    <3> QED
      BY <2>2, <2>3, <3>1, <3>2 DEF SettledInv
  <2> QED
    BY <2>7, <2>8 DEF SettledInv
<1>2. ASSUME NEW r \in Runs, Publish(r)
      PROVE  SettledInv'
  <2>1. /\ pc[r] = "decided" /\ pc' = [pc EXCEPT ![r] = "published"]
        /\ active' = [active EXCEPT ![Key(r)] = 0]
        /\ recent' = [recent EXCEPT ![Key(r)] = SnapshotOf(r)]
        /\ UNCHANGED <<disk, status>>
    BY <1>2 DEF Publish, Goto
  <2>2. Key(r) \in Keys /\ active[Key(r)] = r[2] /\ r[2] # 0
    BY <2>1 DEF RegistryInv, Registered, Runs, Key
  <2>3. \A s \in Runs : s # r /\ pc[s] = "published" => Key(s) # Key(r)
    BY <2>2 DEF SettledInv
  <2>4. ASSUME NEW s \in Runs, pc'[s] = "published"
        PROVE  active'[Key(s)] = 0 /\ recent'[Key(s)] = SnapshotOf(s)'
    <3>1. CASE s = r
      BY <2>1, <2>2, <3>1 DEF TypeOK, SnapshotOf
    <3>2. CASE s # r
      <4>1. pc[s] = "published" /\ Key(s) # Key(r)
        BY <2>1, <2>3, <2>4, <3>2 DEF TypeOK
      <4>2. active[Key(s)] = 0 /\ recent[Key(s)] = SnapshotOf(s) /\ Key(s) \in Keys
        BY <4>1 DEF SettledInv, Runs, Key
      <4> QED
        BY <2>1, <4>1, <4>2 DEF TypeOK, SnapshotOf
    <3> QED
      BY <3>1, <3>2
  <2>5. ASSUME NEW j \in Keys, active'[j] = 0,
               \A s \in Runs : Key(s) = j => pc'[s] # "published"
        PROVE  disk'[j] = recent'[j]
    <3>1. j # Key(r)
      BY <2>1, <2>5 DEF TypeOK
    <3>2. \A s \in Runs : Key(s) = j => pc[s] # "published"
      BY <2>1, <2>5 DEF TypeOK
    <3> QED
      BY <2>1, <2>5, <3>1, <3>2 DEF SettledInv, TypeOK
  <2> QED
    BY <2>4, <2>5 DEF SettledInv
<1>3. ASSUME NEW r \in Runs, PersistTerminal(r)
      PROVE  SettledInv'
  <2>1. /\ pc[r] = "published" /\ pc' = [pc EXCEPT ![r] = "exiting"]
        /\ disk' = [disk EXCEPT ![Key(r)] = SnapshotOf(r)]
        /\ UNCHANGED <<active, recent, status>>
    BY <1>3 DEF PersistTerminal, Persist, Write, Goto
  <2>2. Key(r) \in Keys /\ recent[Key(r)] = SnapshotOf(r)
    BY <2>1 DEF SettledInv, Runs, Key
  <2>3. \A s \in Runs : Key(s) # Key(r) => pc'[s] = pc[s]
    BY <2>1 DEF TypeOK
  <2>4. ASSUME NEW j \in Keys, active'[j] = 0,
               \A s \in Runs : Key(s) = j => pc'[s] # "published"
        PROVE  disk'[j] = recent'[j]
    <3>1. CASE j = Key(r)
      BY <2>1, <2>2, <3>1 DEF TypeOK
    <3>2. CASE j # Key(r)
      BY <2>1, <2>3, <2>4, <3>2 DEF SettledInv, TypeOK
    <3> QED
      BY <3>1, <3>2
  <2> QED
    BY <2>1, <2>4 DEF SettledInv, TypeOK, SnapshotOf
<1>4. ASSUME NEW r \in Runs, PersistRunning(r) \/ Narrate(r)
      PROVE  SettledInv'
  <2>1. /\ pc[r] \in {"started", "stage"} /\ pc' = [pc EXCEPT ![r] = "stage"]
        /\ disk' = [disk EXCEPT ![Key(r)] = SnapshotOf(r)]
        /\ UNCHANGED <<active, recent, status>>
    BY <1>4 DEF PersistRunning, Narrate, Persist, Write, Goto, TypeOK
  <2>2. Key(r) \in Keys /\ active[Key(r)] # 0
    BY <2>1 DEF RegistryInv, Registered, Executing, Runs, Key
  <2>3. \A s \in Runs : pc'[s] = "published" <=> pc[s] = "published"
    BY <2>1 DEF TypeOK
  <2> QED
    BY <2>1, <2>2, <2>3 DEF SettledInv, TypeOK, SnapshotOf
<1>5. ASSUME NEW r \in Runs,
             \/ Acquire(r) \/ AbortQueued(r) \/ SetRunning(r) \/ CheckDead(r) \/ CheckDeadline(r)
             \/ ReadCancelled(r) \/ Decide(r) \/ Exit(r) \/ (\E e \in Errs : Return(r, e))
      PROVE  SettledInv'
  <2>1. UNCHANGED <<active, recent, disk>>
    BY <1>5 DEF Acquire, AbortQueued, SetRunning, CheckDead, CheckDeadline, ReadCancelled,
       Decide, Exit, Return, registry
  <2>2. \A s \in Runs : /\ pc'[s] = "published" <=> pc[s] = "published"
                        /\ pc[s] = "published" => status'[s] = status[s]
    BY <1>5 DEF Acquire, AbortQueued, SetRunning, CheckDead, CheckDeadline, ReadCancelled,
       Decide, Exit, Return, Goto, TypeOK
  <2> QED
    BY <2>1, <2>2 DEF SettledInv, SnapshotOf
<1>6. ASSUME \/ \E k \in Keys : CancelFlag(k)
             \/ \E s \in Runs : \/ (\E limit \in Limits : Trip(s, limit))
                                \/ Deadline(s) \/ CancelDeliver(s)
             \/ Stop \/ Drained \/ UNCHANGED vars
      PROVE  SettledInv'
  <2>1. UNCHANGED <<active, recent, disk, pc, status>>
    BY <1>6 DEF CancelFlag, Trip, Deadline, CancelDeliver, Stop, Drained, vars, registry
  <2> QED
    BY <2>1 DEF SettledInv, SnapshotOf
<1> QED
  BY <1>1, <1>2, <1>3, <1>4, <1>5, <1>6, StepCases

\* What jobs.go says holds for patient clients: when the runs of a key are over
\* and writes succeed, its file is its latest outcome.
THEOREM PatientResultsOutlive ==
  ASSUME ~LossyDisk
  PROVE  Spec /\ [][Patient]_vars => []ResultsOutlive
<1>1. Init => SettledInv
  BY DEF Init, SettledInv
<1>2. IInv /\ SettledInv /\ [Next]_vars /\ [Patient]_vars => SettledInv'
  BY SettledStep
<1>3. IInv /\ SettledInv => ResultsOutlive
  <2> SUFFICES ASSUME IInv, SettledInv, NEW k \in Keys,
                      \A r \in Runs : Key(r) = k => pc[r] \in {"none", "gone"}
               PROVE  disk[k] = recent[k]
    BY DEF ResultsOutlive
  <2>1. active[k] = 0
    <3>1. CASE active[k] # 0
      <4>1. <<k, active[k]>> \in Runs /\ pc[<<k, active[k]>>] \in Registered
        BY <3>1, ActiveRun DEF IInv
      <4> QED
        BY <4>1 DEF Key, Registered, Executing
    <3> QED
      BY <3>1
  <2> QED
    BY <2>1 DEF SettledInv
<1> QED
  BY <1>1, <1>2, <1>3, Inductive, PTL DEF Spec
=============================================================================
