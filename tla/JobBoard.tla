------------------------------ MODULE JobBoard ------------------------------
(***************************************************************************)
(* What the job engine promises whoever polls it: for every job key there  *)
(* is one current attempt, whose status only moves along the lifecycle     *)
(*                                                                         *)
(*     queued -> running -> done | failed | cancelled | budget_exhausted   *)
(*                                                                         *)
(* (a queued job may also be cancelled at once), a terminal attempt is     *)
(* never touched again, and the next attempt starts only after the current *)
(* one is terminal.  Runner.tla is shown to implement this board.          *)
(***************************************************************************)
EXTENDS Naturals

CONSTANTS Keys,           \* job keys: project, slug, stage and task
          MaxAttempts     \* bound: attempts per key that are explored

VARIABLE board            \* [Keys -> Snapshot]: what lf_job answers for a key

Terminal == {"done", "failed", "cancelled", "budget_exhausted"}

\* A job snapshot; attempt 0 stands for a key the runner has never seen.
Snapshot == [attempt : 0 .. MaxAttempts,
             status  : {"none", "queued", "running"} \cup Terminal]

NoJob == [attempt |-> 0, status |-> "none"]

Attempt(a, s) == [attempt |-> a, status |-> s]

BoardInit == board = [k \in Keys |-> NoJob]

\* A first submit, or a resubmit after a terminal state.
Enqueue(k) ==
    /\ board[k].status \in Terminal \cup {"none"}
    /\ board[k].attempt < MaxAttempts
    /\ board' = [board EXCEPT ![k] = Attempt(board[k].attempt + 1, "queued")]

\* A worker slot frees up.
Start(k) ==
    /\ board[k].status = "queued"
    /\ board' = [board EXCEPT ![k] = Attempt(board[k].attempt, "running")]

\* Cancelled, or the server shuts down, while queued.
Abandon(k) ==
    /\ board[k].status = "queued"
    /\ board' = [board EXCEPT ![k] = Attempt(board[k].attempt, "cancelled")]

Conclude(k, s) ==
    /\ board[k].status = "running"
    /\ board' = [board EXCEPT ![k] = Attempt(board[k].attempt, s)]

BoardNext == \E k \in Keys :
    \/ Enqueue(k)
    \/ Start(k)
    \/ Abandon(k)
    \/ \E s \in Terminal : Conclude(k, s)

\* Whatever is on the board is eventually settled.
BoardFairness == \A k \in Keys :
    WF_board(Start(k) \/ Abandon(k) \/ \E s \in Terminal : Conclude(k, s))

BoardSafety == BoardInit /\ [][BoardNext]_board

BoardSpec == BoardSafety /\ BoardFairness
=============================================================================
