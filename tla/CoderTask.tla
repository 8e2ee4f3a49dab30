------------------------------ MODULE CoderTask ------------------------------
(***************************************************************************)
(* One coding job (internal/engine/coder, Task): one coder, or two in      *)
(* parallel goroutines whose solutions an evaluator ranks and a lead       *)
(* merges, with the degradation ladder for every call that fails.          *)
(*                                                                         *)
(* What a model returns matters only through ParseFileBlocks: usable FILE  *)
(* blocks, none, or a path that fails the whole parse.                     *)
(***************************************************************************)
EXTENDS BudgetedCaller

CONSTANT Roles            \* roles that may resolve to a model of the registry

AllRoles == {"A", "B", "evaluator", "lead"}

ASSUME RoleAssumption == Roles \subseteq AllRoles

VARIABLES solo,           \* the solo argument
          config,         \* the roles that resolve
          pc,             \* where Task is
          coder,          \* [Coders -> its goroutine: "call", "retry", "done"]
          out,            \* [Coders and "lead" -> what it returned, if anything]
          base,           \* the base the evaluator chose
          leadTry,        \* the call of the lead: "call" or "retry"
          source,         \* whose files are proposed
          err             \* what the job wrapper returns to the runner

locals == <<solo, config, pc, coder, out, base, leadTry, source, err>>
vars   == <<caller, locals>>

Coders  == {"A", "B"}
Authors == Coders \cup {"lead"}
Outputs == {"files", "prose", "badpath"}
PCs     == {"brief", "solo", "coders", "evaluate", "lead", "finish", "done"}

\* ParseFileBlocks of an output, "" of a failed call included.
Usable(o)    == o = "files"
Malformed(o) == o = "badpath"

Failed(c) == out[c] = "fail"

Return(failed) ==
    /\ pc' = "done"
    /\ err' = StageErr(failed)

Propose(author) ==
    /\ pc' = "finish"
    /\ source' = author
    /\ UNCHANGED err

Abandon == Return(TRUE) /\ UNCHANGED source

\* Who is left when one coder has failed.
Survivor == IF Failed("A") THEN "B" ELSE "A"

\* The step cap of a coding job unless the caller or an override sets another.
DefaultCap == 8

-----------------------------------------------------------------------------
(* Mutations: what plausible bugs would make of the definitions below.        *)

\* A failed call is repeated until it succeeds.
CoderRetries(c, o) ==
    /\ pc \in {"solo", "coders"}
    /\ pc = "solo" => c = "A"
    /\ coder[c] # "done"
    /\ CallModel(o # "fail")
    /\ out' = [out EXCEPT ![c] = o]
    /\ coder' = [coder EXCEPT ![c] = IF o = "fail" THEN "retry" ELSE "done"]
    /\ UNCHANGED <<solo, config, pc, base, leadTry, source, err>>

\* An evaluator that fails ends the job.
EvaluateStrictly(answer) ==
    /\ pc = "evaluate"
    /\ CallModel(answer # "fail")
    /\ base' = IF answer = "B" THEN "B" ELSE "A"
    /\ IF answer = "fail" THEN Abandon ELSE pc' = "lead" /\ UNCHANGED <<source, err>>
    /\ UNCHANGED <<solo, config, coder, out, leadTry>>

\* The lead is resolved only when it is called.
CodersEndNoLead ==
    /\ pc = "coders"
    /\ \A c \in Coders : coder[c] = "done"
    /\ \/ /\ \E c \in Coders : Failed(c)
          /\ IF Usable(out[Survivor]) THEN Propose(Survivor) ELSE Abandon
       \/ /\ \A c \in Coders : ~Failed(c)
          /\ IF "evaluator" \in config
             THEN pc' = "evaluate" /\ UNCHANGED <<source, err>>
             ELSE Abandon
    /\ UNCHANGED <<caller, solo, config, coder, out, base, leadTry>>

\* Without the lead the job falls back to solution A, not to the base.
LeadOrA(o) ==
    /\ pc = "lead"
    /\ CallModel(o # "fail")
    /\ out' = [out EXCEPT !["lead"] = o]
    /\ IF o = "fail" /\ leadTry = "call"
       THEN leadTry' = "retry" /\ UNCHANGED <<pc, source, err>>
       ELSE /\ UNCHANGED leadTry
            /\ IF Usable(o) THEN Propose("lead")
               ELSE IF ~Malformed(o) /\ Usable(out["A"]) THEN Propose("A")
               ELSE Abandon
    /\ UNCHANGED <<solo, config, coder, base>>

-----------------------------------------------------------------------------
Init ==
    /\ CallerInit
    /\ solo \in BOOLEAN
    /\ config \in SUBSET Roles
    /\ pc = "brief"
    /\ coder = [c \in Coders |-> "call"]
    /\ out = [a \in Authors |-> "fail"]
    /\ base = "none"
    /\ leadTry = "call"
    /\ source = "none"
    /\ err = "none"

\* The brief is read and the coders are resolved, coder B unless solo.
Start ==
    /\ pc = "brief"
    /\ IF "A" \in config /\ (solo \/ "B" \in config)
       THEN pc' = (IF solo THEN "solo" ELSE "coders") /\ UNCHANGED <<source, err>>
       ELSE Abandon
    /\ UNCHANGED <<caller, solo, config, coder, out, base, leadTry>>

NoBrief ==
    /\ pc = "brief"
    /\ Abandon
    /\ UNCHANGED <<caller, solo, config, coder, out, base, leadTry>>

\* runCoder: one call and one retry.  The two coders run concurrently.
CoderCalls(c, o) ==
    /\ pc \in {"solo", "coders"}
    /\ pc = "solo" => c = "A"
    /\ coder[c] # "done"
    /\ CallModel(o # "fail")
    /\ out' = [out EXCEPT ![c] = o]
    /\ coder' = [coder EXCEPT ![c] =
          IF o = "fail" /\ @ = "call" THEN "retry" ELSE "done"]
    /\ UNCHANGED <<solo, config, pc, base, leadTry, source, err>>

\* The solo coder has returned.
SoloEnds ==
    /\ pc = "solo"
    /\ coder["A"] = "done"
    /\ IF Usable(out["A"]) THEN Propose("A") ELSE Abandon
    /\ UNCHANGED <<caller, solo, config, coder, out, base, leadTry>>

\* wg.Wait has returned.  With one survivor, it is final; with two solutions,
\* the evaluator and the lead are resolved.
CodersEnd ==
    /\ pc = "coders"
    /\ \A c \in Coders : coder[c] = "done"
    /\ \/ /\ \E c \in Coders : Failed(c)
          /\ IF Usable(out[Survivor]) THEN Propose(Survivor) ELSE Abandon
       \/ /\ \A c \in Coders : ~Failed(c)
          /\ IF {"evaluator", "lead"} \subseteq config
             THEN pc' = "evaluate" /\ UNCHANGED <<source, err>>
             ELSE Abandon
    /\ UNCHANGED <<caller, solo, config, coder, out, base, leadTry>>

\* runEvaluator and ParseBase: base A unless the evaluator clearly says B.
Evaluate(answer) ==
    /\ pc = "evaluate"
    /\ CallModel(answer # "fail")
    /\ base' = IF answer = "B" THEN "B" ELSE "A"
    /\ pc' = "lead"
    /\ UNCHANGED <<solo, config, coder, out, leadTry, source, err>>

\* runLead: one call and one retry.  Nothing usable from the lead falls back to
\* the base; a bad path in its output or in that of the base aborts.
LeadCalls(o) ==
    /\ pc = "lead"
    /\ CallModel(o # "fail")
    /\ out' = [out EXCEPT !["lead"] = o]
    /\ IF o = "fail" /\ leadTry = "call"
       THEN leadTry' = "retry" /\ UNCHANGED <<pc, source, err>>
       ELSE /\ UNCHANGED leadTry
            /\ IF Usable(o) THEN Propose("lead")
               ELSE IF ~Malformed(o) /\ Usable(out[base]) THEN Propose(base)
               ELSE Abandon
    /\ UNCHANGED <<solo, config, coder, base>>

\* finish: WriteProposed; the manifest (JudgeLedger) and the metrics record
\* only log their failures.
Finish ==
    /\ pc = "finish"
    /\ Return(FALSE)
    /\ UNCHANGED <<caller, solo, config, coder, out, base, leadTry, source>>

FinishFails ==
    /\ pc = "finish"
    /\ Return(TRUE)
    /\ UNCHANGED <<caller, solo, config, coder, out, base, leadTry, source>>

KillJob == pc # "done" /\ Kill /\ UNCHANGED locals

Finished == pc = "done" /\ UNCHANGED vars

Step ==
    \/ Start
    \/ NoBrief
    \/ \E c \in Coders, o \in Outputs \cup {"fail"} : CoderCalls(c, o)
    \/ SoloEnds
    \/ CodersEnd
    \/ \E answer \in {"fail", "A", "B", "unparsed"} : Evaluate(answer)
    \/ \E o \in Outputs \cup {"fail"} : LeadCalls(o)
    \/ Finish
    \/ FinishFails

Next == Step \/ KillJob \/ Finished

Spec == Init /\ [][Next]_vars

-----------------------------------------------------------------------------
TypeOK ==
    /\ CallerTypeOK
    /\ solo \in BOOLEAN
    /\ config \in SUBSET Roles
    /\ pc \in PCs
    /\ coder \in [Coders -> {"call", "retry", "done"}]
    /\ out \in [Authors -> Outputs \cup {"fail"}]
    /\ base \in Coders \cup {"none"}
    /\ leadTry \in {"call", "retry"}
    /\ source \in Authors \cup {"none"}
    /\ err \in {"none", "nil", "other", "budget"}

\* The ladder, top to bottom, as the rungs are documented: the lead's files, or
\* those of the chosen base, the only surviving solution, the solo coder's.
Ladder ==
    IF solo THEN "A"
    ELSE IF Failed("B") THEN "A"
    ELSE IF Failed("A") THEN "B"
    ELSE IF Usable(out["lead"]) THEN "lead"
    ELSE base

\* A job that succeeds proposes the files of the rung it is on, and those are
\* usable: what was degraded is still complete on its own.
ProposesLadder == err = "nil" => source = Ladder /\ Usable(out[source])

\* Losing one coder, the evaluator or the lead never costs the job: with its
\* roles configured, it fails before the proposal is written only when the
\* rung it is on has no usable files, or the lead named a bad path.
OneLossIsSurvived ==
    pc = "done" /\ err # "nil" /\ source = "none" /\ config = AllRoles /\ modelCalls > 0
        => ~Usable(out[Ladder]) \/ Malformed(out["lead"])

\* A role that does not resolve is found out before anything is paid for if it
\* is a coder, and after the coders, four calls at most, if it is another.
MisconfiguredCostsFour == config # AllRoles /\ ~solo =>
    /\ modelCalls <= 4
    /\ ~(Coders \subseteq config) => modelCalls = 0

\* The default step cap covers the worst case, "2 coders (+retries) + evaluator
\* + lead (+retry)": whatever fails, a job asks for no more calls than that.
DefaultCapSuffices == modelCalls <= DefaultCap
=============================================================================
