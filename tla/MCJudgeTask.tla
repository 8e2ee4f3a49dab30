----------------------------- MODULE MCJudgeTask -----------------------------
(* JudgeTask with test reports of every kind. *)
EXTENDS JudgeTask

Report(k, v) == [kind |-> k, value |-> v]

AllReports ==
    {Report("none", 0), Report("malformed", 0), Report("other", 0),
     Report("number", 0), Report("number", 100), Report("number", -100),
     Report("number", 50), Report("number", 150), Report("string", 0),
     Report("string", 50), Report("string", 200),
     Report("bool", 0), Report("bool", 100)}
=============================================================================
