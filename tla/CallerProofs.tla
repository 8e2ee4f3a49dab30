---------------------------- MODULE CallerProofs ----------------------------
(***************************************************************************)
(* What holds of a budgeted caller for every step cap: lemmas for the      *)
(* proofs about the stages.                                                *)
(***************************************************************************)
EXTENDS BudgetedCaller, TLAPS

\* The part of a stage's inductive invariant that is the caller's: what is sent
\* has been charged, and the cap is compared with what is charged.
CallerInv == CallerTypeOK /\ SpendWithinCap

\* A job starts with nothing charged.
LEMMA CallerInitInv == CallerInit => CallerInv
<1> SUFFICES ASSUME CallerInit PROVE CallerInv
  OBVIOUS
<1>1. modelCalls = 0 /\ sent = 0
  BY DEF CallerInit
<1>2. dead \in BOOLEAN /\ budgetErr \in BOOLEAN
  BY Zenon DEF CallerInit
<1>3. SpendWithinCap
  BY <1>1, CapAssumption DEF SpendWithinCap
<1> QED
  BY <1>1, <1>2, <1>3 DEF CallerInv, CallerTypeOK

\* One more call, over the cap or not, keeps what is sent within the cap.
LEMMA CallKeepsInv ==
  ASSUME CallerInv, NEW ok \in BOOLEAN, CallModel(ok)
  PROVE  CallerInv' /\ modelCalls' = modelCalls + 1
<1>1. CallerTypeOK'
  BY DEF CallerInv, CallerTypeOK, CallModel, Over
<1>2. SpendWithinCap'
  BY CapAssumption DEF CallerInv, CallerTypeOK, SpendWithinCap, CallModel, Over
<1> QED
  BY <1>1, <1>2 DEF CallModel, CallerInv

\* A kill spends nothing.
LEMMA KillKeepsInv ==
  ASSUME CallerInv, Kill
  PROVE  CallerInv'
  BY DEF CallerInv, CallerTypeOK, SpendWithinCap, Kill

\* Nor does a step that leaves the caller alone.
LEMMA CallerUnchanged ==
  ASSUME CallerInv, UNCHANGED caller
  PROVE  CallerInv'
  BY DEF CallerInv, CallerTypeOK, SpendWithinCap, caller
=============================================================================
