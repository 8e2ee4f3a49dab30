----------------------------- MODULE CoderProofs -----------------------------
(***************************************************************************)
(* What holds of a coding job in every configuration of its roles and      *)
(* under every step cap.                                                   *)
(***************************************************************************)
EXTENDS CoderTask, CallerProofs

\* The variables the job decides by, without the reasons it gives.
LocalTypeOK ==
    /\ solo \in BOOLEAN
    /\ config \in SUBSET AllRoles
    /\ pc \in PCs
    /\ coder \in [Coders -> {"call", "retry", "done"}]
    /\ out \in [Authors -> Outputs \cup {"fail"}]
    /\ leadTry \in {"call", "retry"}

\* Calls that a coder's goroutine has paid for at most.
Paid(c) == IF coder[c] = "call" THEN 0 ELSE IF coder[c] = "retry" THEN 1 ELSE 2

\* Where the job is says what it has resolved and whom it still may need.
RouteInv ==
    /\ pc \in {"brief", "solo"} => coder["B"] = "call"
    /\ pc = "solo" => solo
    /\ pc \in {"coders", "evaluate", "lead"} => ~solo
    /\ pc \in {"coders", "evaluate", "lead"} => Coders \subseteq config
    /\ pc \in {"evaluate", "lead"} =>
          /\ {"evaluator", "lead"} \subseteq config
          /\ \A c \in Coders : ~Failed(c)
    /\ pc = "lead" => base \in Coders

\* What has been paid for, rung by rung.
CostInv ==
    /\ pc = "brief" => modelCalls = 0
    /\ pc \in {"solo", "coders"} => modelCalls <= Paid("A") + Paid("B")
    /\ pc = "evaluate" => modelCalls <= 4
    /\ pc = "lead" => modelCalls <= IF leadTry = "call" THEN 5 ELSE 6
    /\ modelCalls <= 7

\* Once the source of the files is chosen, it is the rung the job is on.
LadderInv ==
    /\ pc \notin {"finish", "done"} => err = "none"
    /\ pc = "finish" =>
          err = "none" /\ source \in Authors /\ source = Ladder /\ Usable(out[source])
    /\ ProposesLadder

IInv ==
    /\ CallerInv
    /\ LocalTypeOK
    /\ RouteInv
    /\ CostInv
    /\ LadderInv
    /\ MisconfiguredCostsFour
    /\ OneLossIsSurvived

-----------------------------------------------------------------------------
\* A job starts with nothing paid for, nothing chosen and nothing returned.
LEMMA InitIInv == Init => IInv
<1> SUFFICES ASSUME Init PROVE IInv
  OBVIOUS
<1> USE DEF Init
<1>1. CallerInv
  BY CallerInitInv
<1>2. LocalTypeOK
  BY RoleAssumption DEF LocalTypeOK, PCs
<1>3. RouteInv /\ LadderInv
  BY DEF RouteInv, LadderInv, ProposesLadder, Coders
<1>4. CostInv /\ MisconfiguredCostsFour /\ OneLossIsSurvived
  BY DEF CallerInit, CostInv, MisconfiguredCostsFour, OneLossIsSurvived
<1> QED
  BY <1>1, <1>2, <1>3, <1>4 DEF IInv

\* Start and NoBrief: nothing is paid for yet.
LEMMA StartStep ==
  ASSUME IInv, Start \/ NoBrief
  PROVE  IInv'
<1>1. pc = "brief" /\ modelCalls = 0 /\ UNCHANGED <<caller, solo, config, coder, out, base, leadTry>>
  BY DEF IInv, CostInv, Start, NoBrief
<1>2. \/ pc' = "done" /\ err' # "nil"
      \/ pc' = "solo" /\ solo /\ err' = "none"
      \/ pc' = "coders" /\ ~solo /\ Coders \subseteq config /\ err' = "none"
  BY DEF IInv, LadderInv, Start, NoBrief, Abandon, Return, StageErr, Coders
<1>3. CallerInv'
  BY <1>1, CallerUnchanged DEF IInv
<1>4. LocalTypeOK'
  BY <1>1, <1>2 DEF IInv, LocalTypeOK, PCs
<1>5. RouteInv'
  BY <1>1, <1>2 DEF IInv, RouteInv
<1>6. CostInv' /\ MisconfiguredCostsFour' /\ OneLossIsSurvived'
  <2>1. Paid("A")' \in 0 .. 2 /\ Paid("B")' \in 0 .. 2 /\ modelCalls' = 0
    BY <1>1 DEF Paid, caller
  <2> QED
    BY <1>2, <2>1 DEF CostInv, MisconfiguredCostsFour, OneLossIsSurvived
<1>7. LadderInv'
  BY <1>2 DEF LadderInv, ProposesLadder
<1> QED
  BY <1>3, <1>4, <1>5, <1>6, <1>7 DEF IInv

\* A call of a coder is one more that its goroutine has paid for.
LEMMA CoderStep ==
  ASSUME IInv, NEW c \in Coders, NEW o \in Outputs \cup {"fail"}, CoderCalls(c, o)
  PROVE  IInv'
<1>1. /\ pc \in {"solo", "coders"}
      /\ pc = "solo" => c = "A"
      /\ coder[c] # "done"
      /\ out' = [out EXCEPT ![c] = o]
      /\ coder' = [coder EXCEPT ![c] = IF o = "fail" /\ coder[c] = "call" THEN "retry" ELSE "done"]
      /\ UNCHANGED <<solo, config, pc, base, leadTry, source, err>>
  BY DEF CoderCalls
<1>2. CallerInv' /\ modelCalls' = modelCalls + 1 /\ modelCalls \in Nat
  BY CallKeepsInv DEF IInv, CoderCalls, CallerInv, CallerTypeOK
<1>3. LocalTypeOK'
  BY <1>1 DEF IInv, LocalTypeOK, Authors, Coders
<1>4. RouteInv'
  BY <1>1 DEF IInv, RouteInv, LocalTypeOK, Coders
<1>5. CostInv' /\ modelCalls' <= 4
  <2>1. /\ Paid("A")' + Paid("B")' >= Paid("A") + Paid("B") + 1
        /\ Paid("A")' + Paid("B")' <= 4
    BY <1>1 DEF Paid, IInv, LocalTypeOK, Coders
  <2>2. Paid("A") + Paid("B") \in Nat /\ Paid("A")' + Paid("B")' \in Nat
    BY DEF Paid
  <2>3. modelCalls' <= Paid("A")' + Paid("B")'
    BY <1>1, <1>2, <2>1, <2>2 DEF IInv, CostInv
  <2> QED
    BY <1>1, <1>2, <2>1, <2>2, <2>3 DEF CostInv
<1>6. MisconfiguredCostsFour' /\ OneLossIsSurvived'
  BY <1>1, <1>5 DEF IInv, RouteInv, MisconfiguredCostsFour, OneLossIsSurvived
<1>7. LadderInv'
  BY <1>1 DEF IInv, LadderInv, ProposesLadder
<1> QED
  BY <1>2, <1>3, <1>4, <1>5, <1>6, <1>7 DEF IInv

\* What proposing or giving up does to the invariant, in a step that has done
\* all else that it does.
LEMMA EndStep ==
  ASSUME IInv, pc \notin {"finish", "done"},
         \/ pc' = "done" /\ err' # "nil"
         \/ /\ pc' = "finish" /\ UNCHANGED err
            /\ source' \in Authors /\ source' = Ladder' /\ Usable(out[source])'
  PROVE  RouteInv' /\ LadderInv'
  BY DEF IInv, RouteInv, LadderInv, ProposesLadder

\* SoloEnds and CodersEnd: a coder's own files, or on to the evaluator.
LEMMA CodersDone ==
  ASSUME IInv, SoloEnds \/ CodersEnd
  PROVE  IInv'
<1>1. UNCHANGED <<caller, solo, config, coder, out, base, leadTry>> /\ pc \in {"solo", "coders"}
  BY DEF SoloEnds, CodersEnd
<1>2. \/ /\ pc' = "done" /\ err' # "nil"
         /\ {"evaluator", "lead"} \subseteq config => ~Usable(out[Ladder])'
      \/ /\ pc' = "finish" /\ UNCHANGED err
         /\ source' \in Authors /\ source' = Ladder' /\ Usable(out[source])'
      \/ /\ pc = "coders" /\ pc' = "evaluate" /\ UNCHANGED err
         /\ {"evaluator", "lead"} \subseteq config /\ \A c \in Coders : ~Failed(c)
  <2>1. CASE SoloEnds
    BY <1>1, <2>1 DEF SoloEnds, Propose, Abandon, Return, StageErr, Usable, Ladder, IInv, RouteInv,
       Authors, Coders
  <2>2. CASE CodersEnd
    BY <1>1, <2>2 DEF CodersEnd, Propose, Abandon, Return, StageErr, Usable, Ladder, IInv, RouteInv,
       Survivor, Failed, Authors, Coders
  <2> QED
    BY <2>1, <2>2
<1>3. CallerInv'
  BY <1>1, CallerUnchanged DEF IInv
<1>4. LocalTypeOK'
  BY <1>1, <1>2 DEF IInv, LocalTypeOK, PCs
<1>5. RouteInv' /\ LadderInv'
  <2>1. CASE pc' = "evaluate"
    BY <1>1, <1>2, <2>1 DEF IInv, RouteInv, LadderInv, ProposesLadder, Failed
  <2>2. CASE pc' # "evaluate"
    BY <1>1, <1>2, <2>2, EndStep
  <2> QED
    BY <2>1, <2>2
<1>6. CostInv'
  <2>1. Paid("A") + Paid("B") <= 4 /\ modelCalls \in Nat /\ modelCalls' = modelCalls
    BY <1>1 DEF Paid, IInv, CallerInv, CallerTypeOK, caller
  <2>2. modelCalls <= 4
    BY <1>1, <2>1 DEF Paid, IInv, CostInv
  <2> QED
    BY <1>2, <2>1, <2>2 DEF CostInv
<1>7. MisconfiguredCostsFour' /\ OneLossIsSurvived'
  BY <1>1, <1>2 DEF IInv, MisconfiguredCostsFour, OneLossIsSurvived, AllRoles, caller
<1> QED
  BY <1>3, <1>4, <1>5, <1>6, <1>7 DEF IInv

\* Beyond the coders every role has resolved.
LEMMA AllResolved ==
  ASSUME IInv, pc \in {"evaluate", "lead"}
  PROVE  config = AllRoles
<1>1. config \subseteq AllRoles
  BY DEF IInv, LocalTypeOK
<1>2. Coders \subseteq config /\ {"evaluator", "lead"} \subseteq config
  BY DEF IInv, RouteInv
<1>3. AllRoles \subseteq config
  BY <1>2 DEF AllRoles, Coders
<1> QED
  BY <1>1, <1>3

\* The evaluator is one more call, and chooses a base whatever it answers.
LEMMA EvaluateStep ==
  ASSUME IInv, NEW answer \in {"fail", "A", "B", "unparsed"}, Evaluate(answer)
  PROVE  IInv'
<1>1. /\ pc = "evaluate" /\ pc' = "lead" /\ base' \in Coders
      /\ UNCHANGED <<solo, config, coder, out, leadTry, source, err>>
  BY DEF Evaluate, Coders
<1>2. CallerInv' /\ modelCalls' = modelCalls + 1 /\ modelCalls \in Nat
  BY CallKeepsInv DEF IInv, Evaluate, CallerInv, CallerTypeOK
<1>3. LocalTypeOK'
  BY <1>1 DEF IInv, LocalTypeOK, PCs
<1>4. RouteInv' /\ LadderInv'
  BY <1>1 DEF IInv, RouteInv, LadderInv, ProposesLadder, Failed
<1>5. CostInv'
  BY <1>1, <1>2 DEF IInv, CostInv, LocalTypeOK
<1>6. MisconfiguredCostsFour' /\ OneLossIsSurvived'
  BY <1>1, AllResolved DEF MisconfiguredCostsFour, OneLossIsSurvived
<1> QED
  BY <1>2, <1>3, <1>4, <1>5, <1>6 DEF IInv

\* The lead is one call or two, and falls back to the base.
LEMMA LeadStep ==
  ASSUME IInv, NEW o \in Outputs \cup {"fail"}, LeadCalls(o)
  PROVE  IInv'
<1>1. /\ pc = "lead"
      /\ out' = [out EXCEPT !["lead"] = o]
      /\ UNCHANGED <<solo, config, coder, base>>
  BY DEF LeadCalls
<1>2. \/ /\ pc' = "lead" /\ leadTry = "call" /\ leadTry' = "retry" /\ UNCHANGED <<source, err>>
      \/ /\ leadTry' = leadTry
         /\ \/ /\ pc' = "done" /\ err' # "nil"
               /\ ~Usable(o) /\ (Malformed(o) \/ ~Usable(out[base]))
            \/ pc' = "finish" /\ UNCHANGED err
               /\ \/ Usable(o) /\ source' = "lead"
                  \/ ~Usable(o) /\ Usable(out[base]) /\ source' = base
  BY DEF LeadCalls, Propose, Abandon, Return, StageErr
<1>3. CallerInv' /\ modelCalls' = modelCalls + 1 /\ modelCalls \in Nat
  BY CallKeepsInv DEF IInv, LeadCalls, CallerInv, CallerTypeOK
<1>4. LocalTypeOK'
  BY <1>1, <1>2 DEF IInv, LocalTypeOK, PCs, Authors
<1>5. \A a \in Coders : out'[a] = out[a]
  BY <1>1 DEF IInv, LocalTypeOK, Authors, Coders
<1>6. /\ out'["lead"] = o /\ base \in Coders /\ base' = base
      /\ ~solo' /\ \A c \in Coders : out'[c] # "fail"
  BY <1>1, <1>5 DEF IInv, LocalTypeOK, Authors, RouteInv, Failed
<1>7. RouteInv' /\ LadderInv'
  <2>1. CASE pc' = "lead"
    BY <1>1, <1>2, <1>5, <2>1 DEF IInv, RouteInv, LadderInv, ProposesLadder, Failed
  <2>2. CASE pc' = "done"
    BY <1>1, <1>2, <2>2, EndStep
  <2>3. CASE pc' = "finish"
    <3>1. source' \in Authors /\ source' = Ladder' /\ Usable(out'[source'])
      BY <1>2, <1>5, <1>6, <2>3 DEF Ladder, Usable, Failed, Authors, Coders
    <3> QED
      BY <1>1, <1>2, <2>3, <3>1, EndStep DEF Usable
  <2> QED
    BY <1>2, <2>1, <2>2, <2>3
<1>8. CostInv'
  BY <1>1, <1>2, <1>3 DEF IInv, CostInv, LocalTypeOK
<1>9. MisconfiguredCostsFour'
  BY <1>1, AllResolved DEF MisconfiguredCostsFour
<1>10. OneLossIsSurvived'
  <2>1. CASE pc' = "done"
    <3>1. Malformed(out["lead"])' \/ ~Usable(out[Ladder])'
      BY <1>2, <1>5, <1>6, <2>1 DEF Ladder, Usable, Malformed, Failed, Coders
    <3> QED
      BY <3>1 DEF OneLossIsSurvived
  <2>2. CASE pc' # "done"
    BY <2>2 DEF OneLossIsSurvived
  <2> QED
    BY <2>1, <2>2
<1> QED
  BY <1>3, <1>4, <1>7, <1>8, <1>9, <1>10 DEF IInv

\* Finish and FinishFails only settle the outcome.
LEMMA FinishStep ==
  ASSUME IInv, Finish \/ FinishFails
  PROVE  IInv'
<1>1. /\ pc = "finish" /\ pc' = "done"
      /\ UNCHANGED <<caller, solo, config, coder, out, base, leadTry, source>>
  BY DEF Finish, FinishFails, Return
<1>2. CallerInv'
  BY <1>1, CallerUnchanged DEF IInv
<1>3. LocalTypeOK' /\ RouteInv'
  BY <1>1 DEF IInv, LocalTypeOK, PCs, RouteInv
<1>4. CostInv' /\ MisconfiguredCostsFour'
  BY <1>1 DEF IInv, CostInv, MisconfiguredCostsFour, caller
<1>5. LadderInv' /\ OneLossIsSurvived'
  BY <1>1 DEF IInv, LadderInv, ProposesLadder, OneLossIsSurvived, Ladder, Failed, Usable,
     Authors, Coders
<1> QED
  BY <1>2, <1>3, <1>4, <1>5 DEF IInv

\* Kills and stuttering leave the job where it is.
LEMMA IdleStep ==
  ASSUME IInv, KillJob \/ Finished \/ UNCHANGED vars
  PROVE  IInv'
<1>1. UNCHANGED locals /\ modelCalls' = modelCalls
  BY DEF KillJob, Kill, Finished, vars, caller
<1>2. CallerInv'
  <2>1. CASE KillJob
    BY <2>1, KillKeepsInv DEF KillJob, IInv
  <2>2. CASE Finished \/ UNCHANGED vars
    BY <2>2, CallerUnchanged DEF Finished, vars, IInv
  <2> QED
    BY <2>1, <2>2
<1>3. LocalTypeOK' /\ RouteInv'
  BY <1>1 DEF IInv, LocalTypeOK, RouteInv, Failed, locals
<1>4. CostInv' /\ MisconfiguredCostsFour'
  BY <1>1 DEF IInv, CostInv, Paid, MisconfiguredCostsFour, locals
<1>5. LadderInv' /\ OneLossIsSurvived'
  BY <1>1 DEF IInv, LadderInv, ProposesLadder, OneLossIsSurvived, Ladder, Failed, Usable,
     Malformed, locals
<1> QED
  BY <1>2, <1>3, <1>4, <1>5 DEF IInv

-----------------------------------------------------------------------------
\* The invariant behind the results below is inductive.
THEOREM Inductive == Spec => []IInv
<1>1. Init => IInv
  BY InitIInv
<1>2. IInv /\ [Next]_vars => IInv'
  <2> SUFFICES ASSUME IInv, [Next]_vars PROVE IInv'
    OBVIOUS
  <2> QED
    BY StartStep, CoderStep, CodersDone, EvaluateStep, LeadStep, FinishStep, IdleStep DEF Next, Step
<1> QED
  BY <1>1, <1>2, PTL DEF Spec

\* The reasons a job gives keep their types too, along with the invariant.
THEOREM TypeCorrect == Spec => []TypeOK
<1> DEFINE T ==
      /\ config \in SUBSET Roles
      /\ base \in Coders \cup {"none"}
      /\ source \in Authors \cup {"none"}
      /\ err \in {"none", "nil", "other", "budget"}
<1>1. Init => T
  BY DEF Init
<1>2. IInv /\ T /\ [Next]_vars => T'
  <2> SUFFICES ASSUME IInv, T, [Next]_vars PROVE T'
    OBVIOUS
  <2> USE DEF Return, StageErr, Abandon, Propose, Coders, Authors
  <2>1. CASE Start \/ NoBrief
    BY <2>1 DEF Start, NoBrief
  <2>2. CASE \E c \in Coders, o \in Outputs \cup {"fail"} : CoderCalls(c, o)
    BY <2>2 DEF CoderCalls
  <2>3. CASE SoloEnds \/ CodersEnd
    BY <2>3 DEF SoloEnds, CodersEnd, Survivor
  <2>4. CASE \E answer \in {"fail", "A", "B", "unparsed"} : Evaluate(answer)
    BY <2>4 DEF Evaluate
  <2>5. ASSUME NEW o \in Outputs \cup {"fail"}, LeadCalls(o) PROVE T'
    <3>1. base \in Coders /\ UNCHANGED <<config, base>>
      BY <2>5 DEF LeadCalls, IInv, RouteInv
    <3> QED
      BY <2>5, <3>1 DEF LeadCalls
  <2>6. CASE Finish \/ FinishFails
    BY <2>6 DEF Finish, FinishFails
  <2>7. CASE KillJob \/ Finished \/ UNCHANGED vars
    BY <2>7 DEF KillJob, Finished, vars, locals
  <2> QED
    BY <2>1, <2>2, <2>3, <2>4, <2>5, <2>6, <2>7 DEF Next, Step
<1>3. IInv /\ T => TypeOK
  BY DEF TypeOK, IInv, LocalTypeOK, CallerInv
<1> QED
  BY <1>1, <1>2, <1>3, Inductive, PTL DEF Spec

\* Under every step cap, two concurrent coders with retries included, no more
\* calls are sent than the cap allows.
THEOREM CoderSpendWithinCap == Spec => []SpendWithinCap
  BY Inductive, PTL DEF IInv, CallerInv

\* A job that succeeds proposes the usable files of the rung it is on.
THEOREM CoderProposesLadder == Spec => []ProposesLadder
  BY Inductive, PTL DEF IInv, LadderInv

\* With its roles configured, a job fails before the proposal is written only
\* when its rung has no usable files, or the lead named a bad path.
THEOREM CoderOneLossIsSurvived == Spec => []OneLossIsSurvived
  BY Inductive, PTL DEF IInv

\* A role that does not resolve costs no more than the calls of the coders.
THEOREM CoderMisconfiguredCostsFour == Spec => []MisconfiguredCostsFour
  BY Inductive, PTL DEF IInv

\* The default step cap covers the worst case of a coding job.
THEOREM CoderDefaultCapSuffices == Spec => []DefaultCapSuffices
<1>1. IInv => DefaultCapSuffices
  BY DEF IInv, CallerInv, CallerTypeOK, CostInv, DefaultCapSuffices, DefaultCap
<1> QED
  BY <1>1, Inductive, PTL
-----------------------------------------------------------------------------
(* What the end of a coding job rests on.                                     *)

\* Calls that a coder's goroutine may still make.
ToCall(c) == IF coder[c] = "call" THEN 2 ELSE IF coder[c] = "retry" THEN 1 ELSE 0

\* Steps that a job has left at most.
Left ==
    CASE pc = "brief"    -> 10
      [] pc = "coders"   -> 5 + ToCall("A") + ToCall("B")
      [] pc = "solo"     -> 2 + ToCall("A")
      [] pc = "evaluate" -> 4
      [] pc = "lead"     -> IF leadTry = "call" THEN 3 ELSE 2
      [] pc = "finish"   -> 1
      [] pc = "done"     -> 0

\* Every step of a job brings its end nearer, and nothing takes it further away.
Advances ==
    /\ Left \in 0 .. 10 /\ Left' \in 0 .. 10
    /\ Step => Left' < Left
    /\ Left' <= Left
    /\ Left = 0 <=> pc = "done"

\* A job has ten steps left at most, and none only when it is done.
LEMMA LeftRange ==
  ASSUME LocalTypeOK
  PROVE  Left \in 0 .. 10 /\ (Left = 0 <=> pc = "done")
<1>1. pc \in PCs /\ ToCall("A") \in 0 .. 2 /\ ToCall("B") \in 0 .. 2
  BY DEF LocalTypeOK, ToCall
<1> QED
  BY <1>1 DEF Left, PCs

\* A call of a coder leaves that coder fewer, and the other one as many.
LEMMA CallAdvances ==
  ASSUME LocalTypeOK, NEW c \in Coders, NEW o \in Outputs \cup {"fail"}, CoderCalls(c, o)
  PROVE  Left' < Left
<1>1. /\ pc \in {"solo", "coders"} /\ pc' = pc /\ c \in {"A", "B"}
      /\ pc = "solo" => c = "A"
      /\ coder \in [Coders -> {"call", "retry", "done"}] /\ coder[c] # "done"
      /\ coder' = [coder EXCEPT ![c] = IF o = "fail" /\ @ = "call" THEN "retry" ELSE "done"]
  BY DEF CoderCalls, LocalTypeOK, Coders
<1>2. ToCall(c)' < ToCall(c) /\ \A d \in Coders \ {c} : ToCall(d)' = ToCall(d)
  BY <1>1 DEF ToCall
<1>3. \A d \in Coders : ToCall(d) \in Nat /\ ToCall(d)' \in Nat
  BY DEF ToCall
<1>4. CASE c = "A"
  <2>1. ToCall("A")' < ToCall("A") /\ ToCall("B")' = ToCall("B")
    BY <1>2, <1>4 DEF Coders
  <2> QED
    BY <1>1, <1>3, <2>1 DEF Left, Coders
<1>5. CASE c = "B"
  <2>1. ToCall("B")' < ToCall("B") /\ ToCall("A")' = ToCall("A") /\ pc = "coders"
    BY <1>1, <1>2, <1>5 DEF Coders
  <2> QED
    BY <1>1, <1>3, <2>1 DEF Left, Coders
<1> QED
  BY <1>1, <1>4, <1>5

\* Every other step goes on to a place nearer to the end.
LEMMA OtherAdvances ==
  ASSUME LocalTypeOK,
         \/ Start \/ NoBrief \/ SoloEnds \/ CodersEnd
         \/ (\E answer \in {"fail", "A", "B", "unparsed"} : Evaluate(answer))
         \/ (\E o \in Outputs \cup {"fail"} : LeadCalls(o))
         \/ Finish \/ FinishFails
  PROVE  Left' < Left
<1>1. /\ ToCall("A") \in 0 .. 2 /\ ToCall("B") \in 0 .. 2
      /\ leadTry \in {"call", "retry"}
  BY DEF ToCall, LocalTypeOK
<1> USE DEF Return, Abandon, Propose
<1>2. CASE Start \/ NoBrief
  <2>1. pc = "brief" /\ pc' \in {"solo", "coders", "done"} /\ coder' = coder
    BY <1>2 DEF Start, NoBrief
  <2>2. ToCall("A")' = ToCall("A") /\ ToCall("B")' = ToCall("B")
    BY <2>1 DEF ToCall
  <2> QED
    BY <1>1, <2>1, <2>2 DEF Left
<1>3. CASE SoloEnds \/ CodersEnd
  <2>1. \/ pc = "solo" /\ pc' \in {"finish", "done"}
        \/ pc = "coders" /\ pc' \in {"evaluate", "finish", "done"}
    BY <1>3 DEF SoloEnds, CodersEnd
  <2> QED
    BY <1>1, <2>1 DEF Left
<1>4. CASE \E answer \in {"fail", "A", "B", "unparsed"} : Evaluate(answer)
  <2>1. pc = "evaluate" /\ pc' = "lead" /\ leadTry' = leadTry
    BY <1>4 DEF Evaluate
  <2> QED
    BY <1>1, <2>1 DEF Left
<1>5. CASE \E o \in Outputs \cup {"fail"} : LeadCalls(o)
  <2>1. /\ pc = "lead"
        /\ \/ leadTry = "call" /\ leadTry' = "retry" /\ pc' = pc
           \/ pc' \in {"finish", "done"}
    BY <1>5 DEF LeadCalls
  <2> QED
    BY <1>1, <2>1 DEF Left
<1>6. CASE Finish \/ FinishFails
  <2>1. pc = "finish" /\ pc' = "done"
    BY <1>6 DEF Finish, FinishFails
  <2> QED
    BY <2>1 DEF Left
<1> QED
  BY <1>2, <1>3, <1>4, <1>5, <1>6

\* A coding job goes on to its end in ten steps at most, whatever fails in it and
\* in whatever order the two coders make their calls.
THEOREM CodingJobsAdvance == Spec => [][Advances]_vars
<1> DEFINE Bounded == Left \in 0 .. 10 /\ (Left = 0 <=> pc = "done")
<1>1. IInv => Bounded
  BY LeftRange DEF IInv
<1>2. IInv /\ Bounded /\ Bounded' /\ [Next]_vars => [Advances]_vars
  <2> SUFFICES ASSUME IInv, Bounded, Bounded', Next PROVE Advances \/ UNCHANGED vars
    OBVIOUS
  <2>1. Left \in 0 .. 10 /\ Left' \in 0 .. 10 /\ (Left = 0 <=> pc = "done")
    OBVIOUS
  <2>2. Step => Left' < Left
    BY CallAdvances, OtherAdvances DEF Step, IInv
  <2>3. CASE Step
    BY <2>1, <2>2, <2>3 DEF Advances
  <2>4. CASE KillJob
    <3>1. Left' = Left
      BY <2>4 DEF KillJob, locals, Left, ToCall
    <3> QED
      BY <2>1, <2>2, <3>1 DEF Advances
  <2>5. CASE Finished
    BY <2>5 DEF Finished
  <2> QED
    BY <2>3, <2>4, <2>5 DEF Next
<1> HIDE DEF Bounded
<1> QED
  BY <1>1, <1>2, Inductive, PTL DEF Spec
=============================================================================
