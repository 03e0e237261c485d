---------------------------- MODULE ExecutorCalls ----------------------------
(* The calls of one executor in one process: TaskManager._execute_single_task *)
(* from the claim to the recorded outcome, the circuit breaker its calls      *)
(* share, the cost policy that is asked before the first attempt, the retries *)
(* of RetryManager, and the checkpoints an executor leaves between attempts.  *)
(*                                                                            *)
(* Every await is a point where the other calls, the clock and a request for  *)
(* cancellation come in between. Who owns the task is RootExecution's         *)
(* subject, how it is charged UsageLedger's.                                  *)
EXTENDS Integers, FiniteSets

CONSTANTS
  Call,          \* the tasks of this executor
  MaxAttempts,   \* tasks.max_attempts
  Strategy,      \* tasks.backoff_strategy
  Policy,        \* the action of the task's cost policy, "none" without one
  Budget,        \* tasks.token_budget, Unlimited without one
  ChainLength,   \* the models of the downgrade chain
  Resumable,     \* tasks whose executor supports checkpoints
  Faults,        \* how the executor may fail on each
  Cancellable,   \* tasks somebody may ask to cancel
  Threshold,     \* CircuitBreakerConfig.failure_threshold
  HalfOpenMax,   \* CircuitBreakerConfig.half_open_max_attempts
  BackoffBase,   \* tasks.backoff_base_seconds, in ticks
  BackoffMax,    \* RetryPolicy.backoff_max_seconds, in ticks
  MaxProgress,   \* bound: what an executor can do before it is done
  MaxDispatches  \* bound: how often a task is dispatched

Unlimited == -1
NoAttempt == -1

ASSUME CallsAssumption ==
  /\ IsFiniteSet(Call)
  /\ MaxAttempts \in [Call -> Nat \ {0}]
  /\ Strategy \in [Call -> {"fixed", "exponential", "linear"}]
  /\ Policy \in [Call -> {"none", "block", "downgrade", "notify"}]
  /\ Budget \in [Call -> Nat \cup {Unlimited}]
  /\ Resumable \subseteq Call /\ Cancellable \subseteq Call
  /\ {ChainLength, Threshold, HalfOpenMax, BackoffBase} \subseteq Nat \ {0}
  /\ BackoffMax \in Nat /\ BackoffMax >= BackoffBase
  /\ MaxProgress \in Nat /\ MaxDispatches \in [Call -> Nat]

(* How an execution fails, told apart by what the code asks of a failure: is  *)
(* it raised or returned in the envelope, is it a BusinessError (which a      *)
(* NetworkError is too), does its error_info declare it retryable, and after  *)
(* how long.                                                                  *)
Failure == {"invalid", "unavailable", "crashed", "overloaded",
            "refused", "busy", "throttled"}
NoFailure == "no failure"
Raised == {"invalid", "unavailable", "crashed", "overloaded"}
Business == {"invalid", "unavailable"}
Declared == {"unavailable", "overloaded", "busy", "throttled"}
RetryAfter(f) == CASE f = "overloaded" -> BackoffMax
                   [] f = "throttled" -> BackoffMax + 1
                   [] OTHER -> 0

VARIABLES
  breaker,    \* the CircuitBreaker of the executor
  admission,  \* each context's _admission_generation, against the breaker's
  call,       \* the coroutine of each task
  task,       \* the rows: tasks, and the latest of task_checkpoints
  cancelled,  \* tasks with cancel_requested_at
  asked,      \* the attempt a request for cancellation found in the executor
  overrides   \* dispatches that were given a cheaper model

callsVars == <<breaker, admission, call, task, cancelled, asked, overrides>>

Least(i, j) == IF i <= j THEN i ELSE j
Greatest(i, j) == IF i >= j THEN i ELSE j

(* The generation of the breaker only matters in comparison: an admission is  *)
(* of the current one or of an earlier, stale one. due says that              *)
(* reset_timeout_seconds have passed since the last failure, or since the     *)
(* half-open period began. Counting stops at the threshold.                   *)
BreakerState == [state : {"closed", "open", "half_open"}, failures : 0 .. Threshold,
                 probes : 0 .. HalfOpenMax, due : BOOLEAN]
Closed == [state |-> "closed", failures |-> 0, probes |-> 0, due |-> FALSE]

Idle == [at |-> "idle", attempt |-> 0, failure |-> NoFailure, wait |-> 0, progress |-> 0]

CallsInit ==
  /\ breaker = Closed
  /\ admission = [c \in Call |-> "none"]
  /\ call = [c \in Call |-> Idle]
  /\ task = [c \in Call |-> [status |-> "pending", checkpoint |-> 0, used |-> 0,
                             tier |-> 0, dispatches |-> 0]]
  /\ cancelled = {}
  /\ asked = [c \in Call |-> NoAttempt]
  /\ overrides = [c \in Call |-> 0]

-----------------------------------------------------------------------------
(* The circuit breaker.                                                       *)

\* Faulty variant: a half-open period whose test calls all went unrecorded stays.
CheckedOpenOnly(b) ==
  IF b.state = "open" /\ b.due
  THEN [b EXCEPT !.state = "half_open", !.probes = 0, !.due = FALSE] ELSE b
\* _check_and_transition_state, which runs when somebody looks.
Checked(b) ==
  CASE b.state = "open" /\ b.due ->
         [b EXCEPT !.state = "half_open", !.probes = 0, !.due = FALSE]
    [] b.state = "half_open" /\ b.due -> [b EXCEPT !.probes = 0, !.due = FALSE]
    [] OTHER -> b

Aged == [c \in Call |-> IF admission[c] = "current" THEN "stale" ELSE admission[c]]
\* A half-open period that is given up begins a new generation.
CheckedAdmissions == IF breaker.state = "half_open" /\ breaker.due THEN Aged ELSE admission

Allows(b) == \/ b.state = "closed"
             \/ b.state = "half_open" /\ b.probes < HalfOpenMax

CanExecute(c) ==
  LET b == Checked(breaker)
  IN  /\ Allows(b)
      /\ breaker' = IF b.state = "closed" THEN b ELSE [b EXCEPT !.probes = @ + 1]
      /\ admission' = [CheckedAdmissions EXCEPT ![c] = "current"]

CannotExecute ==
  /\ ~ Allows(Checked(breaker))
  /\ breaker' = Checked(breaker)
  /\ admission' = CheckedAdmissions

\* Faulty variant: whoever succeeds closes the breaker.
RecordAnySuccess(c) ==
  /\ breaker' = IF Checked(breaker).state = "open" THEN Checked(breaker) ELSE Closed
  /\ admission' = CheckedAdmissions
\* A success of an earlier generation says nothing about the executor now.
RecordSuccess(c) ==
  /\ breaker' = IF Checked(breaker).state = "open" \/ CheckedAdmissions[c] = "stale"
                THEN Checked(breaker) ELSE Closed
  /\ admission' = CheckedAdmissions

\* Faulty variant: a failing test call opens the breaker in the same generation.
RecordFailureSameGeneration(c) ==
  IF admission[c] = "stale" THEN UNCHANGED <<breaker, admission>> ELSE
  LET n == Least(breaker.failures + 1, Threshold)
  IN  /\ breaker' = IF breaker.state = "closed" /\ n < Threshold
                    THEN [breaker EXCEPT !.failures = n]
                    ELSE [state |-> "open", failures |-> n, probes |-> 0, due |-> FALSE]
      /\ UNCHANGED admission
\* A failure does not look at the clock first; without an admission it counts.
RecordFailure(c) ==
  IF admission[c] = "stale" THEN UNCHANGED <<breaker, admission>> ELSE
  LET n == Least(breaker.failures + 1, Threshold)
  IN  IF breaker.state = "closed" /\ n < Threshold
      THEN breaker' = [breaker EXCEPT !.failures = n] /\ UNCHANGED admission
      ELSE /\ breaker' = [state |-> "open", failures |-> n,
                          probes |-> IF breaker.state = "half_open" THEN 0
                                     ELSE breaker.probes,
                          due |-> FALSE]
           /\ admission' = IF breaker.state = "open" THEN admission ELSE Aged

\* The reset timeout passes.
Elapse ==
  /\ breaker.state # "closed" /\ ~ breaker.due
  /\ breaker' = [breaker EXCEPT !.due = TRUE]
  /\ UNCHANGED <<admission, call, task, cancelled, asked, overrides>>

\* The state property.
Look ==
  /\ Checked(breaker) # breaker
  /\ breaker' = Checked(breaker)
  /\ admission' = CheckedAdmissions
  /\ UNCHANGED <<call, task, cancelled, asked, overrides>>

\* reset_all, from outside of the calls.
Reset ==
  /\ breaker' = Closed
  /\ admission' = Aged
  /\ breaker # Closed
  /\ UNCHANGED <<call, task, cancelled, asked, overrides>>

-----------------------------------------------------------------------------
(* Before the first attempt.                                                  *)

At(c, where) == call[c].at = where
Go(c, where) == call' = [call EXCEPT ![c].at = where]
Ends(c, status) ==
  /\ call' = [call EXCEPT ![c] = [Idle EXCEPT !.at = "over"]]
  /\ task' = [task EXCEPT ![c].status = status]
SameBreaker == UNCHANGED <<breaker, admission>>
SameHistory == UNCHANGED <<asked, overrides>>

\* Pending tasks are dispatched, and those marked for re-execution. A dependent
\* runs in the context of the call that triggered it, and inherits its admission.
Dispatch(c) ==
  /\ call[c].at \in {"idle", "over"}
  /\ task[c].status \in {"pending", "failed", "completed"}
  /\ c \notin cancelled
  /\ task[c].dispatches < MaxDispatches[c]
  /\ Go(c, "prepare")
  /\ task' = [task EXCEPT ![c].status = "in_progress", ![c].dispatches = @ + 1]
  /\ \E from \in {"none"} \cup {admission[d] : d \in {d \in Call : At(d, "over")}} :
       admission' = [admission EXCEPT ![c] = from]
  /\ UNCHANGED <<breaker, cancelled>> /\ SameHistory

\* The inputs are completed with the results of the dependencies, handed to the
\* hooks and written whenever they changed; a result may be missing, or the
\* database fail.
PrepareFails(c) ==
  /\ At(c, "prepare")
  /\ Ends(c, IF c \in cancelled THEN "cancelled" ELSE "failed")
  /\ SameBreaker \/ RecordFailure(c)
  /\ UNCHANGED cancelled /\ SameHistory

\* The checks between the claim and the call, and those of the retry loop.
StopsCancelled(c) ==
  /\ call[c].at \in {"prepare", "loop", "ready", "backoff"}
  /\ c \in cancelled
  /\ Ends(c, "cancelled")
  /\ UNCHANGED cancelled /\ SameBreaker /\ SameHistory

Admit(c) ==
  /\ At(c, "prepare") /\ c \notin cancelled
  /\ CanExecute(c)
  /\ Go(c, "budget")
  /\ UNCHANGED <<task, cancelled>> /\ SameHistory

Reject(c) ==
  /\ At(c, "prepare") /\ c \notin cancelled
  /\ CannotExecute
  /\ Ends(c, "failed")
  /\ UNCHANGED cancelled /\ SameHistory

Exhausted(c) == Budget[c] # Unlimited /\ task[c].used >= Budget[c]
\* The threshold of the policies is half of the budget.
Triggered(c) == Budget[c] # Unlimited /\ 2 * task[c].used >= Budget[c]
Downgrades(c) ==
  Policy[c] = "downgrade" /\ Triggered(c) /\ task[c].tier + 1 < ChainLength
Blocks(c) ==
  \/ Policy[c] = "none" /\ Exhausted(c)
  \/ Policy[c] = "block" /\ Triggered(c)
  \/ Policy[c] = "downgrade" /\ Triggered(c) /\ task[c].tier + 1 >= ChainLength

\* Faulty variant: the tier that was chosen is not written to the task.
PassForgetting(c) ==
  /\ At(c, "budget") /\ ~ Blocks(c)
  /\ Go(c, "loop")
  /\ overrides' = [overrides EXCEPT ![c] = IF Downgrades(c) THEN @ + 1 ELSE @]
  /\ UNCHANGED <<task, cancelled, asked>> /\ SameBreaker
\* The policy lets the task pass, with the next model of its chain if it must.
Pass(c) ==
  /\ At(c, "budget") /\ ~ Blocks(c)
  /\ Go(c, "loop")
  /\ task' = [task EXCEPT ![c].tier = IF Downgrades(c) THEN @ + 1 ELSE @]
  /\ overrides' = [overrides EXCEPT ![c] = IF Downgrades(c) THEN @ + 1 ELSE @]
  /\ UNCHANGED <<cancelled, asked>> /\ SameBreaker

\* The breaker is told nothing of a call that the budget stops.
Block(c) ==
  /\ At(c, "budget") /\ Blocks(c)
  /\ Ends(c, "failed")
  /\ UNCHANGED cancelled /\ SameBreaker /\ SameHistory

-----------------------------------------------------------------------------
(* The attempts.                                                              *)

\* load_checkpoint, save_checkpoint and delete_checkpoints: only the latest counts.
Loaded(c) == IF c \in Resumable THEN task[c].checkpoint ELSE 0
Saved(c) == [task EXCEPT ![c].checkpoint = IF call[c].progress > 0 THEN call[c].progress ELSE @]
Deleted(c, rows) == [rows EXCEPT ![c].checkpoint = 0]

\* Faulty variant: the executor is not given what it had saved.
BeginFromScratch(c) ==
  /\ At(c, "loop") /\ c \notin cancelled
  /\ call' = [call EXCEPT ![c].at = "ready", ![c].progress = 0]
  /\ UNCHANGED <<task, cancelled>> /\ SameBreaker /\ SameHistory
\* _execute_attempt: the latest checkpoint is restored in a new executor.
Begin(c) ==
  /\ At(c, "loop") /\ c \notin cancelled
  /\ call' = [call EXCEPT ![c].at = "ready", ![c].progress = Loaded(c)]
  /\ UNCHANGED <<task, cancelled>> /\ SameBreaker /\ SameHistory

\* _load_executor, the permissions, the constructor and resume_from_checkpoint: what
\* is missing or not allowed is returned, and what raises is not declared retryable.
LoadFailure == {"refused", "crashed"}
NoExecutor(c) ==
  /\ At(c, "ready")
  /\ \E f \in LoadFailure :
       call' = [call EXCEPT ![c].at = "failed", ![c].failure = f]
  /\ UNCHANGED <<task, cancelled>> /\ SameBreaker /\ SameHistory

\* Demo mode, or a pre_hook of the executor, answers in its place: nobody looks for
\* a cancellation, and nothing is consumed.
Answered(c) ==
  /\ At(c, "ready")
  /\ Go(c, "settle")
  /\ UNCHANGED <<task, cancelled>> /\ SameBreaker /\ SameHistory

\* Faulty variant: nobody looks for a cancellation before the call.
EnterUnchecked(c) ==
  /\ At(c, "ready")
  /\ Go(c, "calling")
  /\ UNCHANGED <<task, cancelled>> /\ SameBreaker /\ SameHistory
\* The last look at the row: tokens are reserved between it and the call.
Enter(c) ==
  /\ At(c, "ready") /\ c \notin cancelled
  /\ Go(c, "calling")
  /\ UNCHANGED <<task, cancelled>> /\ SameBreaker /\ SameHistory

Invoke(c) ==
  /\ At(c, "calling")
  /\ Go(c, "running")
  /\ UNCHANGED <<task, cancelled>> /\ SameBreaker /\ SameHistory

\* What the attempt consumed is recorded with its outcome.
Spent(c) == IF Budget[c] = Unlimited THEN 0 ELSE Least(task[c].used + 1, Budget[c])

Succeed(c) ==
  /\ At(c, "running")
  /\ Go(c, "settle")
  /\ task' = [task EXCEPT ![c].used = Spent(c)]
  /\ UNCHANGED cancelled /\ SameBreaker /\ SameHistory

FailAttempt(c) ==
  /\ At(c, "running")
  /\ \E f \in Faults[c] \cap Failure :
     \E p \in IF c \in Resumable THEN call[c].progress .. MaxProgress ELSE {0} :
       call' = [call EXCEPT ![c].at = "failed", ![c].failure = f, ![c].progress = p]
  /\ task' = [task EXCEPT ![c].used = Spent(c)]
  /\ UNCHANGED cancelled /\ SameBreaker /\ SameHistory

\* The executor obeys the cancellation its watcher passes on.
Stopped(c) ==
  /\ At(c, "running") /\ c \in cancelled
  /\ Ends(c, "cancelled")
  /\ UNCHANGED cancelled /\ SameBreaker /\ SameHistory

\* Faulty variant: what is not known to be permanent is tried again.
CanRetryUnknown(f) == f \notin {"invalid", "refused"} /\ RetryAfter(f) <= BackoffMax
\* _can_retry, for the policies of TaskManager (retry_unknown_errors is off).
CanRetry(f) == f \in Declared /\ RetryAfter(f) <= BackoffMax

Backoff(c) ==
  Least(BackoffMax,
        CASE Strategy[c] = "fixed" -> BackoffBase
          [] Strategy[c] = "exponential" -> BackoffBase * 2 ^ call[c].attempt
          [] Strategy[c] = "linear" -> BackoffBase * (call[c].attempt + 1))
\* A quarter more or less.
Jittered(c) ==
  LET d == Backoff(c) IN {Greatest(0, Least(BackoffMax, e)) : e \in {d - d \div 4, d, d + d \div 4}}

MayRetry(c) ==
  /\ At(c, "failed")
  /\ call[c].attempt < MaxAttempts[c] - 1
  /\ CanRetry(call[c].failure)

\* Faulty variant: the loop does not count its attempts.
RetryUncounted(c) ==
  /\ MayRetry(c)
  /\ \E d \in Jittered(c) :
       call' = [call EXCEPT ![c].at = "backoff",
                            ![c].wait = Greatest(d, RetryAfter(call[c].failure))]
  /\ UNCHANGED <<task, cancelled>> /\ SameBreaker /\ SameHistory
\* The callback saves what the executor has done, if it has done anything and
\* the write succeeds; a failure of the callback changes nothing else.
Retry(c) ==
  /\ MayRetry(c)
  /\ \E d \in Jittered(c) :
       call' = [call EXCEPT ![c].at = "backoff", ![c].attempt = @ + 1,
                            ![c].wait = Greatest(d, RetryAfter(call[c].failure))]
  /\ task' \in {Saved(c), task}
  /\ UNCHANGED cancelled /\ SameBreaker /\ SameHistory

WakeUp(c) ==
  /\ At(c, "backoff") /\ c \notin cancelled
  /\ call' = [call EXCEPT ![c].at = "loop", ![c].wait = 0]
  /\ UNCHANGED <<task, cancelled>> /\ SameBreaker /\ SameHistory

-----------------------------------------------------------------------------
(* The outcome.                                                               *)

Failed(c) ==
  /\ Ends(c, IF c \in cancelled THEN "cancelled" ELSE "failed")
  /\ UNCHANGED <<cancelled, asked, overrides>>

\* An exception that is not tried again; the breaker only counts system faults.
GiveUpRaised(c) ==
  /\ At(c, "failed") /\ ~ MayRetry(c)
  /\ call[c].failure \in Raised
  /\ IF call[c].failure \in Business THEN SameBreaker ELSE RecordFailure(c)
  /\ Failed(c)

\* A failure in the envelope is a result: the breaker is told nothing.
GiveUpReturned(c) ==
  /\ At(c, "failed") /\ ~ MayRetry(c)
  /\ call[c].failure \notin Raised
  /\ SameBreaker
  /\ Failed(c)

\* The deletion of the checkpoints may fail without notice.
Complete(c) ==
  /\ At(c, "settle") /\ c \notin cancelled
  /\ RecordSuccess(c)
  /\ call' = [call EXCEPT ![c] = [Idle EXCEPT !.at = "over"]]
  /\ LET rows == [task EXCEPT ![c].status = "completed"]
     IN  task' \in {rows, Deleted(c, rows)}
  /\ UNCHANGED <<cancelled, asked, overrides>>

\* The task was cancelled while it ran, or the row is no longer this call's.
Discard(c) ==
  /\ At(c, "settle")
  /\ Ends(c, IF c \in cancelled THEN "cancelled" ELSE "failed")
  /\ UNCHANGED cancelled /\ SameBreaker /\ SameHistory

InExecutor(c) == call[c].at \in {"calling", "running"}
RequestCancel(c) ==
  /\ call[c].at \notin {"idle", "over"}
  /\ c \in Cancellable \ cancelled
  /\ cancelled' = cancelled \cup {c}
  /\ asked' = IF InExecutor(c) THEN [asked EXCEPT ![c] = call[c].attempt] ELSE asked
  /\ UNCHANGED <<call, task, overrides>> /\ SameBreaker

-----------------------------------------------------------------------------
Proceed(c) ==
  \/ PrepareFails(c) \/ StopsCancelled(c) \/ Admit(c) \/ Reject(c)
  \/ Pass(c) \/ Block(c) \/ Begin(c)
  \/ NoExecutor(c) \/ Answered(c) \/ Enter(c) \/ Invoke(c)
  \/ Succeed(c) \/ FailAttempt(c) \/ Stopped(c) \/ Retry(c) \/ WakeUp(c)
  \/ GiveUpRaised(c) \/ GiveUpReturned(c) \/ Complete(c) \/ Discard(c)

CallsNext ==
  \/ Elapse \/ Look \/ Reset
  \/ \E c \in Call : Dispatch(c) \/ Proceed(c) \/ RequestCancel(c)

CallsSpec == CallsInit /\ [][CallsNext]_callsVars

\* Time passes, and the executor calls return.
FairCallsSpec == CallsSpec /\ WF_callsVars(Elapse) /\ \A c \in Call : WF_callsVars(Proceed(c))

-----------------------------------------------------------------------------
(* Properties                                                                 *)

Where == {"idle", "prepare", "budget", "loop", "ready", "calling", "running",
          "failed", "backoff", "settle", "over"}

\* Every variable has its type, and a retry its number within max_attempts.
CallsTypeOK ==
  /\ breaker \in BreakerState
  /\ admission \in [Call -> {"none", "current", "stale"}]
  /\ \A c \in Call :
       /\ call[c].at \in Where
       /\ call[c].attempt \in 0 .. MaxAttempts[c] - 1
       /\ call[c].failure \in Failure \cup {NoFailure}
       /\ call[c].wait \in Nat
       /\ {call[c].progress, task[c].checkpoint} \subseteq 0 .. MaxProgress
       /\ task[c].status \in {"pending", "in_progress", "completed", "failed", "cancelled"}
  /\ cancelled \subseteq Call

\* A call that the breaker let pass and whose outcome it waits for.
Admitted(c) == call[c].at \in Where \ {"idle", "prepare", "over"} /\ admission[c] = "current"

\* A half-open breaker has no more test calls under way than half_open_max_attempts,
\* whatever late outcomes, forgotten calls and restarted periods came before; a
\* closed one has counted fewer failures than open it, and an open one waits for
\* nobody (circuit_breaker.py, can_execute and record_failure).
ProbesAreFew ==
  /\ breaker.state = "half_open" =>
       Cardinality({c \in Call : Admitted(c)}) <= breaker.probes
  /\ breaker.state = "closed" => breaker.failures < Threshold
  /\ breaker.state = "open" => \A c \in Call : ~ Admitted(c)

\* The types and the bound on test calls together.
CallsInv == CallsTypeOK /\ ProbesAreFew

\* A breaker that recovers was told so by a call of its present half-open period,
\* or by reset: the outcome of an older call never closes it (record_success).
ClosedByItsProbe ==
  [][breaker.state # "closed" /\ breaker'.state = "closed" =>
       \/ Reset
       \/ \E c \in Call : Admitted(c) /\ task'[c].status = "completed"]_callsVars

\* What is tried again was declared retryable by whoever failed: an operation
\* that may have had its effect is not repeated. The wait before it honors what the
\* server asked for and the ceiling of the policy (retry.py, _can_retry and
\* _wait_before_retry).
NoBlindReplay ==
  \A c \in Call :
    /\ call[c].attempt > 0 /\ call[c].at \in {"backoff", "loop", "ready", "calling"} =>
         call[c].failure \in Declared
    /\ At(c, "backoff") => /\ call[c].wait >= RetryAfter(call[c].failure)
                           /\ call[c].wait <= BackoffMax

\* After a cancellation was requested only the attempt that had looked before may be
\* in the executor: none begins, however many were left (task_manager.py,
\* _execute_task_with_schemas; retry.py, execute_with_retry).
CancelStopsRetries ==
  \A c \in cancelled : InExecutor(c) => asked[c] = call[c].attempt

\* A downgrade chain is used up: no task is given cheaper models more often than
\* its chain has models after the first (policy.py, evaluate; _apply_budget_policy).
ChainEnds == \A c \in Call : overrides[c] < ChainLength

\* What an attempt may do, in any order of failures, cancellations and dispatches:
\* repeat only what was declared retryable, not after a cancellation, and never
\* with more downgrades than there are models.
RetriesAreSafe == NoBlindReplay /\ CancelStopsRetries /\ ChainEnds

\* A saved checkpoint is only replaced by one of more progress, until the task is
\* completed: a retry never throws away what an attempt before it had saved
\* (task_manager.py, _execute_fn and _on_retry).
CheckpointsAdvance ==
  [][\A c \in Call : task'[c].checkpoint < task[c].checkpoint =>
                       task'[c].status = "completed"]_callsVars

\* A breaker that rejects calls lets one pass again, also when the outcome of its
\* test calls is never recorded (_check_and_transition_state).
BreakerHeals == ~ Allows(Checked(breaker)) ~> Allows(Checked(breaker))

\* A claimed task comes to an end (execute_with_retry).
CallsEnd == \A c \in Call : call[c].at \notin {"idle", "over"} ~> At(c, "over")

\* Neither a breaker nor a call is stuck, whatever outcomes get lost.
NothingIsStuck == BreakerHeals /\ CallsEnd
=============================================================================
