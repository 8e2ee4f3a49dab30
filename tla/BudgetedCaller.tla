--------------------------- MODULE BudgetedCaller ---------------------------
(***************************************************************************)
(* What every stage sees of a model: budgetedCaller.CallModel charges the  *)
(* call to the step cap of the job (JobContext.StartModelCall) and hands   *)
(* it to the provider client, which answers a text or fails, and never     *)
(* raises.  The stage modules extend this one; Runner has the view of the  *)
(* job engine, where a tripped cap is Trip(r, "budget").                   *)
(***************************************************************************)
EXTENDS Integers

CONSTANT MaxModelCalls    \* the step cap of the job, 0 for none

ASSUME CapAssumption == MaxModelCalls \in Nat

VARIABLES modelCalls,     \* job.ModelCalls: calls charged
          sent,           \* history: calls handed to the provider client
          dead,           \* has the job context been cancelled, or timed out?
          budgetErr       \* budgetedCaller.budgetErr # nil

caller == <<modelCalls, sent, dead, budgetErr>>

CallerInit ==
    /\ modelCalls = 0
    /\ sent = 0
    /\ dead = FALSE
    /\ budgetErr = FALSE

\* StartModelCall counts first and compares then.
Over == MaxModelCalls > 0 /\ modelCalls + 1 > MaxModelCalls

\* A mutation: the calls made so far are compared.
CallModelLate(ok) ==
    LET over == MaxModelCalls > 0 /\ modelCalls > MaxModelCalls
    IN  /\ modelCalls' = modelCalls + 1
        /\ sent' = IF over THEN sent ELSE sent + 1
        /\ dead' = (dead \/ over)
        /\ budgetErr' = (budgetErr \/ over)
        /\ ok => ~over /\ ~dead

\* A mutation: a tripped cap is an error even if the stage made do without.
StageErrFirst(failed) == IF budgetErr THEN "budget" ELSE IF failed THEN "other" ELSE "nil"

\* Client.CallModel answers a text or false, and never raises; on a dead context
\* it is false, otherwise it is for the provider to say.
MayAnswer == ~dead

\* One call.  Over the cap it fails unsent and the job is cancelled.
CallModel(ok) ==
    /\ modelCalls' = modelCalls + 1
    /\ sent' = IF Over THEN sent ELSE sent + 1
    /\ dead' = (dead \/ Over)
    /\ budgetErr' = (budgetErr \/ Over)
    /\ ok => ~Over /\ MayAnswer

\* lf_cancel, the wall clock or a shutdown kills the job context.
Kill ==
    /\ ~dead
    /\ dead' = TRUE
    /\ UNCHANGED <<modelCalls, sent, budgetErr>>

\* What the stage wrappers of the tool handlers return to the runner when the
\* stage itself returned an error, or none.
StageErr(failed) == IF ~failed THEN "nil" ELSE IF budgetErr THEN "budget" ELSE "other"

CallerTypeOK ==
    /\ modelCalls \in Nat
    /\ sent \in 0 .. modelCalls
    /\ dead \in BOOLEAN
    /\ budgetErr \in BOOLEAN

\* The engine, not the model, stops the spending: no more calls are paid for
\* than the step cap allows, whoever calls concurrently and however often.
SpendWithinCap == MaxModelCalls > 0 => sent <= MaxModelCalls
=============================================================================
