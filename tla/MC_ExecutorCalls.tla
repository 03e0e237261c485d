--------------------------- MODULE MC_ExecutorCalls ---------------------------
(* Instances of ExecutorCalls for model checking.                             *)
EXTENDS ExecutorCalls

CONSTANTS c1, c2

\* A task that is retried and leaves checkpoints, and one under a cost policy that
\* shares its breaker and is dispatched often enough to open it, test it and fail.
Two == {c1, c2}
Plain(x) == [c \in Call |-> x]
Attempts == [Plain(1) EXCEPT ![c1] = 3]
Exponential == Plain("exponential")
Downgrading == [Plain("downgrade") EXCEPT ![c1] = "none"]
Budgets == [Plain(2) EXCEPT ![c1] = Unlimited]
Dispatches == [Plain(3) EXCEPT ![c1] = 1]
Resuming == {c1}
Faulty == [Plain({"crashed"}) EXCEPT ![c1] = Failure \ {"unavailable"}]
=============================================================================
