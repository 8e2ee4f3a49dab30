----------------------------- MODULE JudgeProofs -----------------------------
(***************************************************************************)
(* What holds of a judge round for every number of judges, every score     *)
(* they may give, every test report and every step cap.                    *)
(***************************************************************************)
EXTENDS JudgeTask, CallerProofs

\* The variables that the round is driven by, and the sums it decides on.
LocalTypeOK ==
    /\ criteria \in 0 .. MaxCriteria
    /\ coverage \in Seq(BOOLEAN)
    /\ pc \in {"normalize", "judge", "verdict", "done"}
    /\ turn \in 1 .. (Judges + 1)
    /\ retry \in BOOLEAN
    /\ results \in [number : 0 .. Judges, sums : Nat, avgs : Nat]
    /\ verdict_md \in BOOLEAN

\* An aggregate, as far as its type does not depend on the bounds of the input.
AggTypeOK ==
    /\ agg.verdict \in {"none", "PASS", "FAIL"}
    /\ agg.avg \in Nat
    /\ agg.uncovered \in SUBSET (1 .. MaxCriteria)
    /\ agg.reason \in {"none", "tests", "not attested", "uncovered"}

\* Whose turn it is says how many answers there may be and what they have cost.
TurnInv ==
    /\ pc \in {"normalize", "judge"} => turn <= Judges
    /\ results.number < turn
    /\ modelCalls <= 2 * (turn - 1) + (IF pc = "judge" /\ retry THEN 1 ELSE 0)

\* Units to a hundredth of a sum of three scores.
Third == 3 * Unit

\* Rounding every average moves their sum by half a hundredth per judge at most.
Close(sums, avgs, n) ==
    /\ 2 * (Third * avgs) <= 2 * sums + Third * n
    /\ 2 * sums <= 2 * (Third * avgs) + Third * n

SumInv == Close(results.sums, results.avgs, results.number)

\* There is no verdict before the round is done, and no return before its end.
OpenInv == pc # "done" => agg = NoAggregate /\ ~verdict_md /\ err = "none"

IInv ==
    /\ CallerInv
    /\ report \in Reports
    /\ LocalTypeOK
    /\ AggTypeOK
    /\ err \in {"none", "nil", "other", "budget"}
    /\ TurnInv
    /\ SumInv
    /\ OpenInv
    /\ PassEarned
    /\ FailEarned
    /\ RedIsTheReason
    /\ VerdictIffSuccess

-----------------------------------------------------------------------------
(* Rounding.                                                                  *)

\* Rounding is off by half a hundredth at most, whichever way it goes half way.
LEMMA RoundIsClose ==
  ASSUME NEW x \in Nat, NEW d \in Nat \ {0}, NEW a \in pyRound2(x, d)
  PROVE  /\ a \in Nat
         /\ 2 * (d * a) <= 2 * x + d
         /\ 2 * x <= 2 * (d * a) + d
<1>1. x \div d \in Nat
  OBVIOUS
<1>2. a \in Nat /\ 2 * (x - a * d) \in -d .. d
  BY <1>1 DEF pyRound2
<1>3. d * a = a * d /\ a * d \in Nat
  BY <1>2
<1> QED
  BY <1>2, <1>3

\* So is the average of one judge.
LEMMA AvgIsClose ==
  ASSUME NEW sum \in Nat, NEW a \in JudgeAvg(sum)
  PROVE  /\ a \in Nat
         /\ 2 * (Third * a) <= 2 * sum + Third
         /\ 2 * sum <= 2 * (Third * a) + Third
<1>1. Third \in Nat \ {0}
  BY JudgeAssumption DEF Third
<1>2. a \in pyRound2(sum, Third)
  BY DEF JudgeAvg, Third
<1> QED
  BY <1>1, <1>2, RoundIsClose

\* An answer more keeps the sums close.
LEMMA AddedIsClose ==
  ASSUME NEW sums \in Nat, NEW avgs \in Nat, NEW n \in Nat, Close(sums, avgs, n),
         NEW sum \in Nat, NEW a \in JudgeAvg(sum)
  PROVE  Close(sums + sum, avgs + a, n + 1)
<1>1. /\ a \in Nat
      /\ 2 * (Third * a) <= 2 * sum + Third
      /\ 2 * sum <= 2 * (Third * a) + Third
  BY AvgIsClose
<1>2. Third \in Nat
  BY JudgeAssumption DEF Third
<1>3. Third * (avgs + a) = Third * avgs + Third * a /\ Third * (n + 1) = Third * n + Third
  BY <1>1, <1>2
<1>4. Third * avgs \in Nat /\ Third * a \in Nat /\ Third * n \in Nat
  BY <1>1, <1>2
<1> QED
  BY <1>1, <1>2, <1>3, <1>4 DEF Close

\* A mean that is rounded to 8.00 was 7.995 at least, and one that is not was at most.
LEMMA MeanIsClose ==
  ASSUME NEW total \in Nat, NEW n \in Nat \ {0}, NEW a \in pyRound2(total, n)
  PROVE  /\ a \in Nat
         /\ a >= 800 => 2 * total >= 1599 * n
         /\ a < 800 => 2 * total <= 1599 * n
<1>1. /\ a \in Nat
      /\ 2 * (n * a) <= 2 * total + n
      /\ 2 * total <= 2 * (n * a) + n
  BY RoundIsClose
<1>2. ASSUME a >= 800 PROVE 2 * total >= 1599 * n
  <2>1. n * a >= n * 800
    BY <1>1, <1>2
  <2> QED
    BY <1>1, <2>1
<1>3. ASSUME a < 800 PROVE 2 * total <= 1599 * n
  <2>1. n * a <= n * 799
    BY <1>1, <1>3
  <2> QED
    BY <1>1, <2>1
<1> QED
  BY <1>1, <1>2, <1>3

\* What the mean says of the exact sum of what the judges gave.
Earned(v, sums, avgs, n) ==
    /\ v = "PASS" => sums >= 2397 * Unit * n
    /\ v = "FAIL" => \/ sums < 2400 * Unit * n
                     \/ sums = 2400 * Unit * n /\ 2 * avgs = 1599 * n

\* Both roundings together earn the verdict.
LEMMA MeanDecides ==
  ASSUME NEW sums \in Nat, NEW avgs \in Nat, NEW n \in Nat \ {0},
         Close(sums, avgs, n),
         NEW a \in pyRound2(avgs, n)
  PROVE  a \in Nat /\ Earned(IF a >= 800 THEN "PASS" ELSE "FAIL", sums, avgs, n)
<1>1. /\ a \in Nat
      /\ a >= 800 => 2 * avgs >= 1599 * n
      /\ a < 800 => 2 * avgs <= 1599 * n
  BY MeanIsClose
<1>2. Third \in Nat \ {0} /\ Third * n \in Nat /\ Third * avgs \in Nat
  BY JudgeAssumption DEF Third
<1>3. 2397 * Unit * n = 799 * (Third * n) /\ 2400 * Unit * n = 800 * (Third * n)
  BY JudgeAssumption DEF Third
<1>4. /\ 2 * (Third * avgs) <= 2 * sums + Third * n
      /\ 2 * sums <= 2 * (Third * avgs) + Third * n
  BY DEF Close
<1>5. Third * (2 * avgs) = 2 * (Third * avgs) /\ Third * (1599 * n) = 1599 * (Third * n)
  BY <1>2
<1>6. ASSUME a >= 800 PROVE sums >= 2397 * Unit * n
  <2>1. Third * (2 * avgs) >= Third * (1599 * n)
    BY <1>1, <1>2, <1>6
  <2> QED
    BY <1>2, <1>3, <1>4, <1>5, <2>1
<1>7. ASSUME a < 800, 2 * avgs < 1599 * n PROVE sums < 2400 * Unit * n
  <2>1. Third * (2 * avgs) < Third * (1599 * n)
    BY <1>2, <1>7
  <2> QED
    BY <1>2, <1>3, <1>4, <1>5, <2>1
<1>8. ASSUME 2 * avgs = 1599 * n PROVE sums <= 2400 * Unit * n
  <2>1. 2 * (Third * avgs) = 1599 * (Third * n)
    BY <1>5, <1>8
  <2> QED
    BY <1>2, <1>3, <1>4, <2>1
<1>9. 2400 * Unit * n \in Nat
  BY JudgeAssumption
<1>10. CASE a >= 800
  BY <1>1, <1>6, <1>10 DEF Earned
<1>11. CASE a < 800
  <2>1. sums < 2400 * Unit * n \/ (sums = 2400 * Unit * n /\ 2 * avgs = 1599 * n)
    BY <1>1, <1>7, <1>8, <1>9, <1>11
  <2> QED
    BY <1>1, <1>11, <2>1 DEF Earned
<1> QED
  BY <1>1, <1>10, <1>11

\* int(x) is 0 exactly if x is less than one in size.
LEMMA TruncateIsZero ==
  ASSUME NEW v \in Int
  PROVE  Truncate(v) # 0 <=> v \notin -99 .. 99
<1>1. CASE v >= 0
  BY <1>1 DEF Truncate
<1>2. CASE v < 0
  <2>1. -v \in Nat /\ Truncate(v) = -((-v) \div 100)
    BY <1>2 DEF Truncate
  <2>2. (-v) \div 100 = 0 <=> -v <= 99
    BY <2>1
  <2>3. (-v) \div 100 \in Int
    BY <2>1
  <2> QED
    BY <1>2, <2>1, <2>2, <2>3
<1> QED
  BY <1>1, <1>2

\* Criteria are counted up to the bound.
LEMMA CriteriaRange ==
  ASSUME NEW n \in 0 .. MaxCriteria
  PROVE  n \in Nat /\ 1 .. n \subseteq 1 .. MaxCriteria /\ 1 .. n \subseteq Nat
  BY JudgeAssumption

\* The criteria that stay open are criteria, and none is if all are covered.
LEMMA OpenCriteria ==
  ASSUME NEW n \in Nat, NEW cov \in Seq(BOOLEAN)
  PROVE  /\ Uncovered(n, cov) \in SUBSET (1 .. n)
         /\ Uncovered(n, cov) = {} => \A i \in 1 .. n : i <= Len(cov) /\ cov[i]
<1>1. Uncovered(n, cov) \in SUBSET (1 .. n)
  BY Zenon DEF Uncovered
<1>2. ASSUME Uncovered(n, cov) = {}, NEW i \in 1 .. n
      PROVE  i <= Len(cov) /\ cov[i]
  <2>1. ~(i > Len(cov) \/ ~cov[i])
    BY <1>2, Zenon DEF Uncovered
  <2>2. ~(i > Len(cov)) => i <= Len(cov)
    OBVIOUS
  <2> QED
    BY <2>1, <2>2, Zenon
<1> QED
  BY <1>1, <1>2, Zenon

\* An aggregate before and after the gates.
Aggregates == [verdict : {"none", "PASS", "FAIL"}, avg : Nat, uncovered : SUBSET Nat,
               reason : {"none", "tests", "not attested", "uncovered"}]
Raw(avg, v) == [NoAggregate EXCEPT !.avg = avg, !.verdict = v]
IsRed(rep)  == HasReport(rep) /\ ExitCode(rep) # 0
Gated(avg, v, rep, n, cov) == ApplyAcceptanceGate(ApplyTestGate(Raw(avg, v), rep), n, cov)

\* The gates leave an aggregate its verdict unless one of them finds a reason to
\* fail it, and red tests come first.
Decided(g, avg, v, rep, n, cov) ==
    /\ g.avg = avg
    /\ g.uncovered = Uncovered(n, cov)
    /\ g.reason \in {"none", "tests", "not attested", "uncovered"}
    /\ g.reason = "tests" <=> IsRed(rep)
    /\ g.reason = "none" <=> ~IsRed(rep) /\ Uncovered(n, cov) = {}
    /\ g.verdict \in {"PASS", "FAIL"}
    /\ g.reason = "none" => g.verdict = v
    /\ g.reason # "none" => g.verdict = "FAIL"

\* Which is what they do, whatever the aggregate, the report and the coverage.
LEMMA GatesDecide ==
  ASSUME NEW avg \in Nat, NEW v \in {"PASS", "FAIL"}, NEW rep,
         NEW n \in 0 .. MaxCriteria, NEW cov \in Seq(BOOLEAN),
         NEW g, g = Gated(avg, v, rep, n, cov)
  PROVE  Decided(g, avg, v, rep, n, cov)
<1> DEFINE tested == ApplyTestGate(Raw(avg, v), rep)
<1>1. /\ Raw(avg, v) \in Aggregates
      /\ Raw(avg, v).verdict = v /\ Raw(avg, v).avg = avg
      /\ Raw(avg, v).uncovered = {} /\ Raw(avg, v).reason = "none"
  BY DEF Raw, NoAggregate, Aggregates
<1>2. /\ tested \in Aggregates
      /\ tested.verdict = IF IsRed(rep) THEN "FAIL" ELSE v
      /\ tested.avg = avg
      /\ tested.uncovered = {}
      /\ tested.reason = IF IsRed(rep) THEN "tests" ELSE "none"
  BY <1>1 DEF ApplyTestGate, IsRed, Aggregates
<1> HIDE DEF tested
<1>3. g = ApplyAcceptanceGate(tested, n, cov)
  BY DEF Gated, tested
<1>4. CASE Uncovered(n, cov) = {}
  BY <1>2, <1>3, <1>4 DEF ApplyAcceptanceGate, Decided
<1>5. CASE Uncovered(n, cov) # {}
  <2>1. PICK why \in {"not attested", "uncovered"} :
           g = [tested EXCEPT !.uncovered = Uncovered(n, cov), !.verdict = "FAIL",
                                  !.reason = IF @ = "none" THEN why ELSE @]
    BY <1>3, <1>5 DEF ApplyAcceptanceGate
  <2>2. Uncovered(n, cov) \in SUBSET Nat
    <3>1. n \in Nat /\ 1 .. n \subseteq Nat
      BY CriteriaRange, Zenon
    <3>2. Uncovered(n, cov) \in SUBSET (1 .. n)
      BY <3>1, OpenCriteria
    <3> QED
      BY <3>1, <3>2, Zenon
  <2>3. /\ g.verdict = "FAIL" /\ g.avg = avg /\ g.uncovered = Uncovered(n, cov)
        /\ g.reason = IF IsRed(rep) THEN "tests" ELSE why
    BY <1>2, <2>1, <2>2 DEF Aggregates
  <2> QED
    BY <1>5, <2>3 DEF Decided
<1> QED
  BY <1>4, <1>5

-----------------------------------------------------------------------------
\* A round starts with nothing asked and nothing decided.
LEMMA InitIInv == Init => IInv
<1> SUFFICES ASSUME Init PROVE IInv
  OBVIOUS
<1> USE DEF Init
<1>1. CallerInv
  BY CallerInitInv
<1>2. coverage \in Seq(BOOLEAN)
  <2>1. PICK n \in 0 .. MaxCriteria : coverage \in [1 .. n -> BOOLEAN]
    OBVIOUS
  <2>2. n \in Nat
    BY JudgeAssumption
  <2> QED
    BY <2>1, <2>2
<1>3. LocalTypeOK
  <2>1. results \in [number : 0 .. Judges, sums : Nat, avgs : Nat]
    BY JudgeAssumption DEF NoResults
  <2>2. turn \in 1 .. (Judges + 1)
    BY JudgeAssumption
  <2> QED
    BY <1>2, <2>1, <2>2 DEF LocalTypeOK
<1>4. AggTypeOK
  BY DEF AggTypeOK, NoAggregate
<1>5. TurnInv /\ SumInv /\ OpenInv
  <2>1. SumInv
    BY JudgeAssumption DEF SumInv, Close, Third, NoResults
  <2> QED
    BY <2>1, JudgeAssumption DEF CallerInit, TurnInv, OpenInv, NoResults
<1>6. PassEarned /\ FailEarned /\ RedIsTheReason /\ VerdictIffSuccess
  BY DEF PassEarned, FailEarned, RedIsTheReason, VerdictIffSuccess, NoAggregate
<1> QED
  BY <1>1, <1>3, <1>4, <1>5, <1>6 DEF IInv

\* While there is no verdict there is nothing to earn, and an error returned
\* leaves none.
LEMMA NoVerdictYet ==
  ASSUME IInv, pc # "done", UNCHANGED <<agg, verdict_md>>,
         \/ pc' # "done" /\ UNCHANGED err
         \/ pc' = "done" /\ err' \in {"other", "budget"}
  PROVE  /\ AggTypeOK' /\ err' \in {"none", "nil", "other", "budget"} /\ OpenInv'
         /\ PassEarned' /\ FailEarned' /\ RedIsTheReason' /\ VerdictIffSuccess'
<1>1. agg' = NoAggregate /\ ~verdict_md' /\ (pc' # "done" => err' = "none")
  BY DEF IInv, OpenInv
<1>2. AggTypeOK' /\ OpenInv'
  BY <1>1 DEF AggTypeOK, NoAggregate, OpenInv
<1>3. PassEarned' /\ FailEarned' /\ RedIsTheReason'
  BY <1>1 DEF PassEarned, FailEarned, RedIsTheReason, NoAggregate
<1>4. VerdictIffSuccess' /\ err' \in {"none", "nil", "other", "budget"}
  BY <1>1 DEF VerdictIffSuccess
<1> QED
  BY <1>2, <1>3, <1>4

\* Normalize, Abort and NoVerdict: no model is asked.
LEMMA UnaskedStep ==
  ASSUME IInv, Normalize \/ Abort \/ NoVerdict
  PROVE  IInv'
<1>1. /\ UNCHANGED <<caller, input, turn, retry, results, agg, verdict_md>>
      /\ pc # "done"
      /\ pc = "judge" => modelCalls = 0
      /\ \/ pc = "normalize" /\ pc' = "judge" /\ UNCHANGED err
         \/ pc' = "done" /\ err' \in {"other", "budget"}
  BY DEF Normalize, Abort, NoVerdict, Return, StageErr
<1>2. CallerInv' /\ report' \in Reports /\ modelCalls' = modelCalls
  BY <1>1, CallerUnchanged DEF IInv, input, caller
<1>3. LocalTypeOK'
  BY <1>1 DEF IInv, LocalTypeOK, input
<1>4. TurnInv' /\ SumInv'
  <2>1. turn \in Nat /\ Judges \in Nat /\ modelCalls \in Nat
    BY JudgeAssumption DEF IInv, LocalTypeOK, CallerInv, CallerTypeOK
  <2>2. pc = "normalize" => turn <= Judges
    BY DEF IInv, TurnInv
  <2>3. modelCalls <= 2 * (turn - 1)
        \/ (pc = "judge" /\ retry /\ modelCalls <= 2 * (turn - 1) + 1)
    BY <2>1 DEF IInv, TurnInv
  <2> QED
    BY <1>1, <1>2, <2>1, <2>2, <2>3 DEF IInv, TurnInv, SumInv
<1> QED
  BY <1>1, <1>2, <1>3, <1>4, NoVerdictYet DEF IInv

\* A judge is asked, and the answer, if it can be parsed, is added up.
LEMMA AskStep ==
  ASSUME IInv, Unparsable \/ Silent \/ \E sum \in Sums : Scored(sum)
  PROVE  IInv'
<1>1. /\ pc = "judge" /\ turn <= Judges
      /\ \E ok \in BOOLEAN : CallModel(ok)
      /\ UNCHANGED <<input, agg, verdict_md, err>>
      /\ results' = results \/ \E sum \in Sums : results' \in Added(results, sum)
      /\ \/ NextJudge
         \/ ~retry /\ retry' = TRUE /\ UNCHANGED <<turn, pc, results>>
  BY DEF Unparsable, Silent, Scored
<1>2. CallerInv' /\ modelCalls' = modelCalls + 1 /\ modelCalls \in Nat /\ report' \in Reports
  BY <1>1, CallKeepsInv DEF IInv, CallerInv, CallerTypeOK, input
<1>3. /\ turn \in Nat /\ Judges \in Nat /\ turn <= Judges
      /\ results.number \in Nat /\ results.sums \in Nat /\ results.avgs \in Nat
      /\ results.number < turn
  BY <1>1, JudgeAssumption DEF IInv, LocalTypeOK, TurnInv
<1>4. /\ results'.number \in Nat /\ results'.sums \in Nat /\ results'.avgs \in Nat
      /\ results' \in [number : Nat, sums : Nat, avgs : Nat]
      /\ results'.number <= results.number + 1
      /\ results' # results => NextJudge
      /\ SumInv'
  <2>1. CASE results' = results
    BY <1>3, <2>1 DEF IInv, SumInv, LocalTypeOK
  <2>2. CASE \E sum \in Sums : results' \in Added(results, sum)
    <3>1. PICK sum \in Sums : results' \in Added(results, sum)
      BY <2>2
    <3>2. PICK a \in JudgeAvg(sum) :
             results' = [number |-> results.number + 1, sums |-> results.sums + sum,
                         avgs |-> results.avgs + a]
      BY <3>1 DEF Added
    <3>3. sum \in Nat /\ a \in Nat
      BY AvgIsClose, JudgeAssumption
    <3>4. /\ results'.number = results.number + 1
          /\ results'.sums = results.sums + sum
          /\ results'.avgs = results.avgs + a
          /\ results' \in [number : Nat, sums : Nat, avgs : Nat]
      BY <1>3, <3>2, <3>3
    <3>5. SumInv'
      BY <1>3, <3>3, <3>4, AddedIsClose DEF IInv, SumInv
    <3> QED
      BY <1>1, <1>3, <2>2, <3>4, <3>5
  <2> QED
    BY <1>1, <2>1, <2>2
<1>5. LocalTypeOK'
  <2>1. results' \in [number : 0 .. Judges, sums : Nat, avgs : Nat]
    BY <1>3, <1>4
  <2> QED
    <3>1. turn' \in 1 .. (Judges + 1)
      BY <1>1, <1>3 DEF NextJudge
    <3>2. pc' \in {"judge", "verdict"}
      BY <1>1 DEF NextJudge
    <3>3. retry' \in BOOLEAN
      BY <1>1, Zenon DEF NextJudge
    <3>4. criteria' \in 0 .. MaxCriteria /\ coverage' \in Seq(BOOLEAN) /\ verdict_md' \in BOOLEAN
      BY <1>1, Zenon DEF IInv, LocalTypeOK, input
    <3> QED
      BY <2>1, <3>1, <3>2, <3>3, <3>4 DEF LocalTypeOK
<1>6. TurnInv'
  <2>1. CASE NextJudge
    BY <1>2, <1>3, <1>4, <2>1 DEF IInv, TurnInv, NextJudge
  <2>2. CASE ~NextJudge
    BY <1>1, <1>2, <1>3, <1>4, <2>2 DEF IInv, TurnInv
  <2> QED
    BY <2>1, <2>2
<1>7. pc' # "done"
  BY <1>1 DEF NextJudge
<1> QED
  BY <1>1, <1>2, <1>4, <1>5, <1>6, <1>7, NoVerdictYet DEF IInv

\* The verdict: the mean of what was added up, and what the gates leave of it.
LEMMA VerdictStep ==
  ASSUME IInv, Verdict
  PROVE  IInv'
<1>1. /\ pc' = "done" /\ err' = "nil" /\ verdict_md' = TRUE
      /\ results.number > 0
      /\ UNCHANGED <<caller, input, turn, retry, results>>
  BY DEF Verdict, Return, StageErr
<1>2. CallerInv' /\ report' \in Reports /\ modelCalls' = modelCalls
  BY <1>1, CallerUnchanged DEF IInv, input, caller
<1>3. LocalTypeOK' /\ TurnInv' /\ SumInv' /\ OpenInv' /\ VerdictIffSuccess'
  <2>1. LocalTypeOK'
    BY <1>1 DEF IInv, LocalTypeOK, input
  <2>2. TurnInv'
    BY <1>1, <1>2 DEF Verdict, IInv, TurnInv
  <2> QED
    BY <1>1, <2>1, <2>2 DEF IInv, SumInv, OpenInv, VerdictIffSuccess
<1> DEFINE n == results.number
<1>4. /\ n \in Nat \ {0} /\ results.sums \in Nat /\ results.avgs \in Nat
      /\ Close(results.sums, results.avgs, n)
  BY <1>1, JudgeAssumption DEF IInv, LocalTypeOK, SumInv
<1>5. criteria \in 0 .. MaxCriteria /\ coverage \in Seq(BOOLEAN)
  BY DEF IInv, LocalTypeOK
<1>6. PICK avg \in pyRound2(results.avgs, n), v \in {"PASS", "FAIL"} :
         /\ v = IF avg >= 800 THEN "PASS" ELSE "FAIL"
         /\ agg' = Gated(avg, v, report, criteria, coverage)
  BY DEF Verdict, AggregateResults, Gated, Raw
<1>7. avg \in Nat /\ Earned(IF avg >= 800 THEN "PASS" ELSE "FAIL", results.sums, results.avgs, n)
  BY <1>4, MeanDecides
<1>8. Earned(v, results.sums, results.avgs, n)
  BY <1>6, <1>7
<1>9. Decided(agg', avg, v, report, criteria, coverage)
  BY <1>6, <1>7, <1>5, GatesDecide
<1>10. /\ agg'.reason \in {"none", "tests", "not attested", "uncovered"}
       /\ agg'.verdict \in {"PASS", "FAIL"}
       /\ agg'.reason = "none" => agg'.verdict = v
       /\ agg'.reason # "none" => agg'.verdict = "FAIL"
  BY <1>9, Zenon DEF Decided
<1>11. /\ agg'.avg = avg
       /\ agg'.uncovered = Uncovered(criteria, coverage)
       /\ agg'.reason = "tests" <=> IsRed(report)
       /\ agg'.reason = "none" <=> ~IsRed(report) /\ Uncovered(criteria, coverage) = {}
  BY <1>9, Zenon DEF Decided
<1>12. /\ criteria \in Nat /\ 1 .. criteria \subseteq 1 .. MaxCriteria
       /\ Uncovered(criteria, coverage) \in SUBSET (1 .. criteria)
       /\ Uncovered(criteria, coverage) = {} =>
             \A i \in 1 .. criteria : i <= Len(coverage) /\ coverage[i]
  <2>1. criteria \in Nat /\ 1 .. criteria \subseteq 1 .. MaxCriteria
    BY <1>5, CriteriaRange
  <2> QED
    BY <1>5, <2>1, OpenCriteria, Zenon
<1>13. AggTypeOK'
  <2>1. agg'.uncovered \in SUBSET (1 .. MaxCriteria)
    BY <1>12, <1>11, Zenon
  <2>2. agg'.avg \in Nat
    <3>1. avg \in Nat
      BY <1>7
    <3> QED
      BY <1>11, <3>1, Zenon
  <2>3. agg'.verdict \in {"none", "PASS", "FAIL"}
    BY <1>10, Zenon
  <2> QED
    BY <1>10, <2>1, <2>2, <2>3, Zenon DEF AggTypeOK
<1>14. Red' <=> IsRed(report)
  <2>1. report.value \in Int
    BY JudgeAssumption DEF IInv
  <2> QED
    BY <1>1, <2>1, TruncateIsZero DEF Red, IsRed, HasReport, ExitCode, input
<1>15. PassEarned'
  <2> SUFFICES ASSUME agg'.verdict = "PASS" PROVE PassEarned'
    BY DEF PassEarned
  <2>1. agg'.reason = "none" /\ v = "PASS"
    BY <1>10
  <2>2. ~Red'
    BY <1>14, <1>11, <2>1, Zenon
  <2>3. \A i \in 1 .. criteria : i <= Len(coverage) /\ coverage[i]
    BY <1>12, <1>11, <2>1, Zenon
  <2>4. results.sums >= 2397 * Unit * n
    BY <1>8, <2>1 DEF Earned
  <2> QED
    BY <1>1, <2>2, <2>3, <2>4 DEF PassEarned, input
<1>16. FailEarned'
  <2> SUFFICES ASSUME agg'.verdict = "FAIL", agg'.reason = "none"
               PROVE  \/ results'.sums < 2400 * Unit * results'.number
                      \/ /\ results'.sums = 2400 * Unit * results'.number
                         /\ 2 * results'.avgs = 1599 * results'.number
    BY DEF FailEarned
  <2>1. v = "FAIL"
    BY <1>10
  <2> QED
    BY <1>1, <1>8, <2>1 DEF Earned
<1>17. RedIsTheReason'
  BY <1>14, <1>11, Zenon DEF RedIsTheReason
<1> QED
  BY <1>1, <1>2, <1>3, <1>13, <1>15, <1>16, <1>17 DEF IInv

\* A kill and a step in which nothing happens.
LEMMA IdleStep ==
  ASSUME IInv, KillJob \/ Finished \/ UNCHANGED vars
  PROVE  IInv'
<1>1. /\ UNCHANGED <<input, pc, turn, retry, results, agg, verdict_md, err>>
      /\ modelCalls' = modelCalls
  BY DEF KillJob, Kill, Finished, vars, caller
<1>2. CallerInv'
  BY KillKeepsInv, CallerUnchanged DEF KillJob, Finished, vars, IInv
<1>3. report' \in Reports /\ LocalTypeOK' /\ AggTypeOK'
  BY <1>1 DEF IInv, LocalTypeOK, AggTypeOK, input
<1>4. TurnInv' /\ SumInv' /\ OpenInv'
  BY <1>1 DEF IInv, TurnInv, SumInv, OpenInv
<1>5. PassEarned' /\ FailEarned' /\ RedIsTheReason' /\ VerdictIffSuccess'
  BY <1>1 DEF IInv, PassEarned, FailEarned, RedIsTheReason, VerdictIffSuccess, Red, input
<1> QED
  BY <1>1, <1>2, <1>3, <1>4, <1>5 DEF IInv

-----------------------------------------------------------------------------
\* The invariant holds of every reachable state.
THEOREM Inductive == Spec => []IInv
<1>1. IInv /\ [Next]_vars => IInv'
  <2> SUFFICES ASSUME IInv, [Next]_vars PROVE IInv'
    OBVIOUS
  <2> QED
    BY UnaskedStep, AskStep, VerdictStep, IdleStep DEF Next, Step
<1> QED
  BY <1>1, InitIInv, PTL DEF Spec

\* Every variable keeps its type.
THEOREM TypeCorrect == Spec => []TypeOK
<1>1. IInv => TypeOK
  BY DEF IInv, CallerInv, LocalTypeOK, AggTypeOK, TypeOK
<1> QED
  BY <1>1, Inductive, PTL

\* No round passes with a red test report, with a criterion that has no entry of
\* its own in the coverage, or with judges whose exact mean is below 7.99: whatever
\* the judges answer, with however many decimals, and however many they are.
THEOREM PassIsEarned == Spec => []PassEarned
  BY Inductive, PTL DEF IInv

\* A round that no gate has failed fails only if the exact mean is below 8.0, or
\* if it is 8.0 and the averages of the judges have a mean of 7.995.
THEOREM FailIsEarned == Spec => []FailEarned
  BY Inductive, PTL DEF IInv

\* A verdict names the tests as its reason exactly if the report is red, whatever
\* the acceptance gate has to say.
THEOREM RedComesFirst == Spec => []RedIsTheReason
  BY Inductive, PTL DEF IInv

\* The runner is told of a success exactly if this round has written a verdict.
THEOREM VerdictsAreSuccesses == Spec => []VerdictIffSuccess
  BY Inductive, PTL DEF IInv

\* A round costs two calls per judge at most, retries included ...
THEOREM TwoCallsPerJudge == Spec => [](modelCalls <= 2 * Judges)
<1>1. IInv => modelCalls <= 2 * Judges
  <2> SUFFICES ASSUME IInv PROVE modelCalls <= 2 * Judges
    OBVIOUS
  <2>1. /\ turn \in 1 .. (Judges + 1) /\ Judges \in Nat /\ modelCalls \in Nat
        /\ modelCalls <= 2 * (turn - 1) + (IF pc = "judge" /\ retry THEN 1 ELSE 0)
        /\ pc = "judge" => turn <= Judges
    BY JudgeAssumption DEF IInv, LocalTypeOK, CallerInv, CallerTypeOK, TurnInv
  <2> QED
    BY <2>1
<1> QED
  BY <1>1, Inductive, PTL

\* ... and no more are sent than the step cap of the job allows.
THEOREM JudgeSpendWithinCap == Spec => []SpendWithinCap
  BY Inductive, PTL DEF IInv, CallerInv
-----------------------------------------------------------------------------
(* What the end of a round rests on.                                          *)

\* Steps that a round has left at most: two for every judge whose turn has yet to
\* come, one for a judge who has been asked once, and the beginning and the end.
Left ==
    CASE pc = "normalize" -> 2 * Judges + 2
      [] pc = "judge"     -> 2 * (Judges + 1 - turn) + (IF retry THEN 0 ELSE 1)
      [] pc = "verdict"   -> 1
      [] pc = "done"      -> 0

\* Every step of a round brings its end nearer, and nothing takes it further away.
Advances ==
    /\ Left \in 0 .. (2 * Judges + 2) /\ Left' \in 0 .. (2 * Judges + 2)
    /\ Step => Left' < Left
    /\ Left' <= Left
    /\ Left = 0 <=> pc = "done"

\* What is left is never more than 2 * Judges + 2, and nothing only when it is over.
LEMMA LeftRange ==
  ASSUME IInv
  PROVE  Left \in 0 .. (2 * Judges + 2) /\ (Left = 0 <=> pc = "done")
<1>1. /\ Judges \in Nat \ {0} /\ turn \in 1 .. (Judges + 1) /\ retry \in BOOLEAN
      /\ pc \in {"normalize", "judge", "verdict", "done"}
      /\ pc = "judge" => turn <= Judges
  BY JudgeAssumption DEF IInv, LocalTypeOK, TurnInv
<1>2. CASE pc = "judge"
  BY <1>1, <1>2 DEF Left
<1>3. CASE pc # "judge"
  BY <1>1, <1>3 DEF Left
<1> QED
  BY <1>2, <1>3

\* Asking a judge, for the first time or again, is a step forward.
LEMMA AskAdvances ==
  ASSUME IInv, (\E sum \in Sums : Scored(sum)) \/ Unparsable \/ Silent
  PROVE  Left' < Left
<1>1. /\ Judges \in Nat \ {0} /\ turn \in Nat /\ turn <= Judges /\ retry \in BOOLEAN
      /\ pc = "judge"
  <2>1. pc = "judge" /\ turn <= Judges
    BY Zenon DEF Scored, Unparsable, Silent
  <2> QED
    BY <2>1, JudgeAssumption DEF IInv, LocalTypeOK
<1>2. NextJudge \/ (~retry /\ retry' = TRUE /\ turn' = turn /\ pc' = pc)
  BY <1>1 DEF Scored, Unparsable, Silent
<1>3. CASE NextJudge
  BY <1>1, <1>3 DEF NextJudge, Left
<1>4. CASE ~retry /\ retry' = TRUE /\ turn' = turn /\ pc' = pc
  BY <1>1, <1>4 DEF Left
<1> QED
  BY <1>2, <1>3, <1>4

\* The steps of a round that ask nobody are steps forward as well.
LEMMA OtherAdvances ==
  ASSUME IInv, Normalize \/ Abort \/ Verdict \/ NoVerdict
  PROVE  Left' < Left
<1>1. /\ Judges \in Nat \ {0} /\ turn \in 1 .. (Judges + 1)
      /\ pc = "judge" => turn <= Judges
  BY JudgeAssumption DEF IInv, LocalTypeOK, TurnInv
<1>2. CASE Normalize
  <2>1. pc = "normalize" /\ pc' \in {"judge", "done"} /\ turn' = turn
    BY <1>2 DEF Normalize, Return
  <2> QED
    BY <1>1, <2>1 DEF Left
<1>3. CASE Abort
  BY <1>1, <1>3 DEF Abort, Return, Left
<1>4. CASE Verdict \/ NoVerdict
  <2>1. pc = "verdict" /\ pc' = "done"
    BY <1>4, Zenon DEF Verdict, NoVerdict, Return
  <2> QED
    BY <2>1 DEF Left
<1> QED
  BY <1>2, <1>3, <1>4

\* A round goes on to its end, in 2 * Judges + 2 steps at most, whatever the judges
\* answer: RoundEnds needs no more than that some step of it is taken, which is the
\* fairness it assumes.
THEOREM RoundsAdvance == Spec => [][Advances]_vars
<1> DEFINE Bounded == Left \in 0 .. (2 * Judges + 2) /\ (Left = 0 <=> pc = "done")
<1>1. IInv => Bounded
  BY LeftRange
<1>2. IInv /\ Bounded /\ Bounded' /\ [Next]_vars => [Advances]_vars
  <2> SUFFICES ASSUME IInv, Bounded, Bounded', Next PROVE Advances \/ UNCHANGED vars
    OBVIOUS
  <2>1. /\ Left \in 0 .. (2 * Judges + 2) /\ Left' \in 0 .. (2 * Judges + 2)
        /\ Left = 0 <=> pc = "done"
    OBVIOUS
  <2>2. Step => Left' < Left
    BY AskAdvances, OtherAdvances DEF Step
  <2>3. CASE Step
    BY <2>1, <2>2, <2>3 DEF Advances
  <2>4. CASE KillJob
    <3>1. Left' = Left
      BY <2>4 DEF KillJob, Left
    <3> QED
      BY <2>1, <2>2, <3>1 DEF Advances
  <2>5. CASE Finished
    BY <2>5 DEF Finished
  <2> QED
    BY <2>3, <2>4, <2>5 DEF Next
<1> HIDE DEF Bounded
<1> QED
  BY <1>1, <1>2, Inductive, PTL DEF Spec
=============================================================================
