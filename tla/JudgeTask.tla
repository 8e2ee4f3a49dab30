------------------------------ MODULE JudgeTask ------------------------------
(***************************************************************************)
(* One judge round (internal/engine/judge, Task): the test report is       *)
(* normalised before any model is paid for, the judges are asked one after *)
(* the other with one retry each, and what they answer is averaged and put *)
(* through the test gate and the acceptance-coverage gate.                 *)
(*                                                                         *)
(* An answer is the sum of its three scores: the gates look at nothing     *)
(* else.  Scores may have decimals: sums are integers, with Unit of them   *)
(* to a hundredth, which is what averages are rounded to.                  *)
(***************************************************************************)
EXTENDS BudgetedCaller, Sequences

CONSTANTS Judges,         \* how many judges the pipeline resolves to
          Unit,           \* units of a score to a hundredth: 10 for three decimals
          Sums,           \* sums of three scores that a judge may give, in units
          Reports,        \* test reports as they may arrive
          MaxCriteria     \* bound: items of acceptance.md, and of the coverage

\* A test report: absent or empty; not an object, or one without exit_code; or
\* one whose exit_code is a JSON value: a number (in hundredths), a string that
\* reads as one, a bool (0 or 100), or anything else.
Kinds == {"none", "malformed", "number", "string", "bool", "other"}

ASSUME JudgeAssumption ==
    /\ Judges \in Nat \ {0}
    /\ Unit \in Nat \ {0}
    /\ Sums \subseteq Nat
    /\ Reports \subseteq [kind : Kinds, value : Int]
    /\ MaxCriteria \in Nat

VARIABLES report,         \* the test_report argument
          criteria,       \* number of criteria parsed from acceptance.md
          coverage,       \* acceptance_coverage: is entry i non-blank?
          pc,             \* "normalize", "judge", "verdict", "done"
          turn, retry,    \* whose turn it is, and whether this is the retry
          results,        \* the answers that could be parsed, added up
          agg,            \* the aggregate
          verdict_md,     \* has verdict.md been written?
          err             \* what the job wrapper returns to the runner

input == <<report, criteria, coverage>>
vars  == <<caller, input, pc, turn, retry, results, agg, verdict_md, err>>

-----------------------------------------------------------------------------
(* Mutations: what plausible bugs would make of the definitions below.        *)

\* The rounding of a judge's average cuts off.
JudgeAvgDown(sum) == {sum \div (3 * Unit)}

\* It rounds up.
JudgeAvgUp(sum) == {sum \div (3 * Unit) + 1}

\* The exit code is rounded to the nearest integer, away from zero.
TruncateRound(v) == IF v >= 0 THEN (v + 50) \div 100 ELSE -((50 - v) \div 100)

\* Entries beyond the coverage that was sent count as covered.
UncoveredShort(n, cov) == {k \in 1 .. n : k <= Len(cov) /\ ~cov[k]}

\* The acceptance gate overrides the reason that the test gate gave.
ApplyAcceptanceGateLast(a, n, cov) ==
    LET open == {k \in 1 .. n : k > Len(cov) \/ ~cov[k]}
        why  == IF Len(cov) = 0 THEN "not attested" ELSE "uncovered"
    IN  IF open = {} THEN a
        ELSE [a EXCEPT !.uncovered = open, !.verdict = "FAIL", !.reason = why]

\* On a dead context a judge is waited for.
SilentWaits ==
    /\ pc = "judge"
    /\ turn <= Judges
    /\ IF dead THEN UNCHANGED vars
       ELSE /\ CallModel(FALSE)
            /\ retry' = TRUE
            /\ UNCHANGED <<input, turn, pc, results, agg, verdict_md, err>>

-----------------------------------------------------------------------------
NoAggregate == [verdict |-> "none", avg |-> 0, uncovered |-> {}, reason |-> "none"]

\* Go's int(x) of a number in hundredths.
Truncate(v) == IF v >= 0 THEN v \div 100 ELSE -((-v) \div 100)

\* toInt, as far as it fails: strconv.Atoi takes integers only.
ToIntFails(rep) == rep.kind = "other" \/ (rep.kind = "string" /\ rep.value % 100 # 0)

\* NormalizeTestReport.
Rejected(rep)   == rep.kind = "malformed" \/ ToIntFails(rep)
HasReport(rep)  == rep.kind # "none"
ExitCode(rep)   == Truncate(rep.value)

\* pyRound2 of x / d: the hundredths that are nearest.  There are two if it is
\* half way: the last bit of the float, or the even digit, decides.
pyRound2(x, d) == {a \in {x \div d, x \div d + 1} : 2 * (x - a * d) \in -d .. d}

\* The average of the three scores of an answer.
JudgeAvg(sum) == pyRound2(sum, 3 * Unit)

\* The loop of AggregateResults over the answers, of which the verdict takes
\* their number and the sum of their averages (and the properties their sums).
NoResults == [number |-> 0, sums |-> 0, avgs |-> 0]
Added(res, sum) ==
    {[number |-> res.number + 1, sums |-> res.sums + sum, avgs |-> res.avgs + a] :
        a \in JudgeAvg(sum)}

\* AggregateResults.
AggregateResults(res) ==
    {[NoAggregate EXCEPT !.avg = a, !.verdict = IF a >= 800 THEN "PASS" ELSE "FAIL"] :
        a \in pyRound2(res.avgs, res.number)}

\* ApplyTestGate: red tests force FAIL.
ApplyTestGate(a, rep) ==
    IF HasReport(rep) /\ ExitCode(rep) # 0
    THEN [a EXCEPT !.verdict = "FAIL", !.reason = "tests"]
    ELSE a

Uncovered(n, cov) == {i \in 1 .. n : i > Len(cov) \/ ~cov[i]}

\* ApplyAcceptanceGate: an uncovered criterion forces FAIL; a reason that the
\* test gate has given is kept.
ApplyAcceptanceGate(a, n, cov) ==
    LET open == Uncovered(n, cov)
        why  == IF Len(cov) = 0 THEN "not attested" ELSE "uncovered"
    IN  IF open = {} THEN a
        ELSE [a EXCEPT !.uncovered = open, !.verdict = "FAIL",
                       !.reason = IF @ = "none" THEN why ELSE @]

-----------------------------------------------------------------------------
Init ==
    /\ CallerInit
    /\ report \in Reports
    /\ criteria \in 0 .. MaxCriteria
    /\ coverage \in UNION {[1 .. n -> BOOLEAN] : n \in 0 .. MaxCriteria}
    /\ pc = "normalize"
    /\ turn = 1
    /\ retry = FALSE
    /\ results = NoResults
    /\ agg = NoAggregate
    /\ verdict_md = FALSE
    /\ err = "none"

Return(failed) ==
    /\ pc' = "done"
    /\ err' = StageErr(failed)

\* Fail fast on a malformed report, before burning model calls.
Normalize ==
    /\ pc = "normalize"
    /\ IF Rejected(report) THEN Return(TRUE) ELSE pc' = "judge" /\ UNCHANGED err
    /\ UNCHANGED <<caller, input, turn, retry, results, agg, verdict_md>>

\* No brief, no changed files, no usable judge, or a prompt that cannot be built.
Abort ==
    /\ pc = "judge"
    /\ modelCalls = 0
    /\ Return(TRUE)
    /\ UNCHANGED <<caller, input, turn, retry, results, agg, verdict_md>>

NextJudge ==
    /\ turn' = turn + 1
    /\ retry' = FALSE
    /\ pc' = IF turn = Judges THEN "verdict" ELSE "judge"

\* A judge answers: scores, something else, or not at all (one retry).
Scored(sum) ==
    /\ pc = "judge"
    /\ turn <= Judges
    /\ CallModel(TRUE)
    /\ results' \in Added(results, sum)
    /\ NextJudge
    /\ UNCHANGED <<input, agg, verdict_md, err>>

Unparsable ==
    /\ pc = "judge"
    /\ turn <= Judges
    /\ CallModel(TRUE)
    /\ NextJudge
    /\ UNCHANGED <<input, results, agg, verdict_md, err>>

Silent ==
    /\ pc = "judge"
    /\ turn <= Judges
    /\ CallModel(FALSE)
    /\ IF retry THEN NextJudge ELSE retry' = TRUE /\ UNCHANGED <<turn, pc>>
    /\ UNCHANGED <<input, results, agg, verdict_md, err>>

\* Aggregate, gate, write verdict.md.  The metrics record and the mark in the
\* manifest (JudgeLedger) only log their failures.
Verdict ==
    /\ pc = "verdict"
    /\ results.number > 0
    /\ \E a \in AggregateResults(results) :
          agg' = ApplyAcceptanceGate(ApplyTestGate(a, report), criteria, coverage)
    /\ verdict_md' = TRUE
    /\ Return(FALSE)
    /\ UNCHANGED <<caller, input, turn, retry, results>>

\* No judge produced parseable scores, or verdict.md cannot be written.
NoVerdict ==
    /\ pc = "verdict"
    /\ Return(TRUE)
    /\ UNCHANGED <<caller, input, turn, retry, results, agg, verdict_md>>

KillJob == pc # "done" /\ Kill /\ UNCHANGED <<input, pc, turn, retry, results, agg, verdict_md, err>>

Finished == pc = "done" /\ UNCHANGED vars

Step ==
    \/ Normalize
    \/ Abort
    \/ \E sum \in Sums : Scored(sum)
    \/ Unparsable
    \/ Silent
    \/ Verdict
    \/ NoVerdict

Next == Step \/ KillJob \/ Finished

Spec == Init /\ [][Next]_vars

\* A provider call ends, at the latest by its timeout; the rest is computation.
FairSpec == Spec /\ WF_vars(Step)

-----------------------------------------------------------------------------
TypeOK ==
    /\ CallerTypeOK
    /\ report \in Reports
    /\ criteria \in 0 .. MaxCriteria
    /\ coverage \in Seq(BOOLEAN)
    /\ pc \in {"normalize", "judge", "verdict", "done"}
    /\ turn \in 1 .. (Judges + 1)
    /\ retry \in BOOLEAN
    /\ results \in [number : 0 .. Judges, sums : Nat, avgs : Nat]
    /\ agg.verdict \in {"none", "PASS", "FAIL"}
    /\ agg.avg \in Nat
    /\ agg.uncovered \in SUBSET (1 .. MaxCriteria)
    /\ agg.reason \in {"none", "tests", "not attested", "uncovered"}
    /\ verdict_md \in BOOLEAN
    /\ err \in {"none", "nil", "other", "budget"}

\* An exit code that is not less than one in size, whatever kind of value it is.
Red == HasReport(report) /\ report.value \notin -99 .. 99

\* PASS is earned: no red test report, every criterion covered by an entry of
\* its own, and judges whose exact mean is 7.99 at least: the two roundings of
\* Task can add up to a whole hundredth, half of one each.
PassEarned == agg.verdict = "PASS" =>
    /\ ~Red
    /\ \A i \in 1 .. criteria : i <= Len(coverage) /\ coverage[i]
    /\ results.sums >= 2397 * Unit * results.number

\* FAIL is earned as well: with no red report and full coverage, judges whose
\* exact mean is more than 8.0 are never failed by the intermediate rounding, and
\* at 8.0 only if it has left a mean that is half way between 7.99 and 8.00.
FailEarned == agg.verdict = "FAIL" =>
    \/ agg.reason # "none"
    \/ results.sums < 2400 * Unit * results.number
    \/ /\ results.sums = 2400 * Unit * results.number
       /\ 2 * results.avgs = 1599 * results.number

\* A red test is the reason that is reported, whatever else is missing: the
\* agent is told to fix the tests first.
RedIsTheReason == agg.verdict # "none" => (agg.reason = "tests" <=> Red)

\* A round that returns an error to the runner has left no verdict, and one
\* that returns none has: the ledger counts what verdict.md shows.
VerdictIffSuccess == pc = "done" => (verdict_md <=> err = "nil")

\* A round ends, after two calls per judge at most.
RoundEnds == <>(pc = "done" /\ modelCalls <= 2 * Judges)
=============================================================================
