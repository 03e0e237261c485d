--------------------------- MODULE RootExecution ---------------------------
(***************************************************************************)
(* Who may execute a root task, and what happens to the tree when that     *)
(* owner dies.                                                             *)
(*                                                                         *)
(* One root and its tree.  The root can be executed by a background        *)
(* dispatcher (a TaskDispatch row with a lease), by a cluster worker (a    *)
(* TaskLease row) or by a request running in process (no row at all).  All *)
(* three share the WorkflowRun row, the task rows and the invocation rows. *)
(* The database is the only thing they share: an action is one database    *)
(* transaction, and everything a process remembers between two of them is  *)
(* in proc, poll and flight, so that it can be stale when it is used.      *)
(*                                                                         *)
(* Time is abstracted to whether a lease has expired: every guard of the   *)
(* code compares an expiry with the current time and nothing else.         *)
(***************************************************************************)
EXTENDS Naturals, FiniteSets

CONSTANTS
  Task,         \* the nodes of the tree
  Root,         \* its structural root
  Frozen,       \* nodes of a retry run whose completed result is a snapshot
  Enrolled,     \* whether the run row was created with the tree, as run.retry does
  Dispatcher,   \* processes running TaskDispatcher
  Worker,       \* processes running WorkerRuntime
  Local,        \* requests running TaskExecutor.execute_task_by_id
  MaxToken      \* bound: ownership tokens ever drawn

ASSUME TreeAssumption == Root \in Task /\ Frozen \subseteq Task
ASSUME EnrolledAssumption == Enrolled \in BOOLEAN /\ (Frozen # {} => Enrolled)
ASSUME ProcessAssumption ==
  /\ Dispatcher \cap Worker = {}
  /\ Dispatcher \cap Local = {}
  /\ Worker \cap Local = {}
ASSUME MaxTokenAssumption == MaxToken \in Nat

VARIABLES
  task,       \* task row: status, cancel_requested_at, unknown delivery
  claimedBy,  \* token of the executor that set started_at (NoToken: not set)
  inv,        \* ExecutionAttempt of the node: its status ("none": no row)
  run,        \* WorkflowRun.status ("none": no row)
  dispatch,   \* TaskDispatch row
  lease,      \* TaskLease row (owner = NoToken: no row)
  proc,       \* memory of an executor: where it is, its token, a verdict
  poll,       \* memory of a dispatcher's poll between reading and writing
  flight,     \* memory of the executor of a node: claimed, invoking, result
  nextToken   \* last token drawn

vars == <<task, claimedBy, inv, run, dispatch, lease, proc, poll, flight, nextToken>>

NoToken == 0
Proc == Dispatcher \cup Worker \cup Local
Token == 0 .. MaxToken

TaskStatus == {"pending", "in_progress", "completed", "failed", "cancelled"}
Reconcile == "reconciliation_required"
\* What _protect_run_history lets nobody write again: neither reopened nor altered.
TerminalRun == {"completed", "failed", "cancelled", Reconcile}
RunStatus == {"none", "accepted", "running"} \cup TerminalRun
InvStatus == {"none", "running", "completed", "failed", "cancelled", "unknown"}
SettledDispatch == {"finished", Reconcile}
DispatchState == {"none", "accepted", "running"} \cup SettledDispatch
Place == {"idle", "found", "entering", "admitted", "executing", "finishing",
          "checking", "settling", "reporting"}
Verdict == {"none", "finished", "raised", "refused"} \cup TerminalRun
Outcome == {"ok", "error", "unknown"}

NoLease == [owner |-> NoToken, live |-> FALSE]
Idle == [at |-> "idle", token |-> NoToken, verdict |-> "none"]
NoPoll == [token |-> NoToken, verdict |-> "none"]

TypeOK ==
  /\ task \in [Task -> [status: TaskStatus, cancel: BOOLEAN, unknown: BOOLEAN]]
  /\ claimedBy \in [Task -> Token]
  /\ inv \in [Task -> InvStatus]
  /\ run \in RunStatus
  /\ dispatch \in [state: DispatchState, owner: Token, live: BOOLEAN]
  /\ lease \in [owner: Token, live: BOOLEAN]
  /\ proc \in [Proc -> [at: Place, token: Token, verdict: Verdict]]
  /\ poll \in [Dispatcher -> [token: Token, verdict: {"none", "accepted"} \cup SettledDispatch]]
  /\ flight \in [Task -> {"none", "claimed", "invoking"} \cup Outcome]
  /\ nextToken \in Token

\* A root that was never executed; a retry run is created with its run row and
\* with the nodes it reuses, if any, already completed and frozen.
Init ==
  /\ task = [t \in Task |->
       [status |-> IF t \in Frozen THEN "completed" ELSE "pending",
        cancel |-> FALSE, unknown |-> FALSE]]
  /\ claimedBy = [t \in Task |-> NoToken]
  /\ inv = [t \in Task |-> "none"]
  /\ run = IF ~Enrolled THEN "none"
           ELSE IF Frozen = Task THEN "completed" ELSE "accepted"
  /\ dispatch = [state |-> "none", owner |-> NoToken, live |-> FALSE]
  /\ lease = NoLease
  /\ proc = [p \in Proc |-> Idle]
  /\ poll = [d \in Dispatcher |-> NoPoll]
  /\ flight = [t \in Task |-> "none"]
  /\ nextToken = NoToken

-----------------------------------------------------------------------------
(* What the code reads from the rows.                                       *)

Started(t) == claimedBy[t] # NoToken
HasStatus(s) == \E t \in Task : task[t].status = s
HasInvocations == \E t \in Task : inv[t] # "none"
HasUnknown == \E t \in Task : task[t].unknown
AllCompleted == \A t \in Task : task[t].status = "completed"

\* Faulty variant: the root speaks for its tree.
SummaryOfRoot ==
  CASE task[Root].status = "completed" -> "completed"
    [] task[Root].status = "pending"   -> "accepted"
    [] OTHER -> Reconcile

\* summarize_run: one status for the whole tree.
Summary ==
  IF HasUnknown \/ (\E t \in Task : task[t].status = "pending" /\ Started(t)) THEN Reconcile
  ELSE IF HasStatus("in_progress") THEN Reconcile
  ELSE IF HasStatus("failed") THEN "failed"
  ELSE IF HasStatus("cancelled") THEN "cancelled"
  ELSE IF AllCompleted THEN "completed" ELSE "accepted"

\* Faulty variant: an execution that ends with nothing decided went well.
OptimisticFinish == IF Summary = "accepted" THEN "completed" ELSE Summary

\* finish_from_tasks: an execution that ends with nothing decided is uncertain.
FinishStatus == IF Summary = "accepted" THEN Reconcile ELSE Summary

\* ensure_run: the status of the run row, created from the tree when missing.
EnsuredRun ==
  IF run # "none" THEN run
  ELSE IF Summary = "accepted" /\ HasInvocations THEN Reconcile ELSE Summary

\* Faulty variant: the last writer decides.
FinishedAnyway(status) == status

\* Only active runs are finished; terminal history is never rewritten.
Finished(status) == IF run \in {"accepted", "running"} THEN status ELSE run

\* Faulty variant: terminal history is not protected.
FrozenOnly(t) == t \notin Frozen

\* _business_write_allowed: no write to a frozen result or to terminal history.
BusinessOpen(t) == t \notin Frozen /\ run \notin TerminalRun

\* _execution_fence: the lease an executor runs under is still its own.
Fence(p) ==
  \/ /\ p \in Dispatcher
     /\ dispatch = [state |-> "running", owner |-> proc[p].token, live |-> TRUE]
  \/ /\ p \in Worker
     /\ lease = [owner |-> proc[p].token, live |-> TRUE]
     /\ dispatch.state = "none"
  \/ /\ p \in Local
     /\ dispatch.state \in {"none", "finished"}
     /\ ~lease.live

\* _ownership_conditions: what writing the run row asks of the caller.
Owns(p) ==
  \/ p \in Dispatcher /\ dispatch.owner = proc[p].token /\ dispatch.live
  \/ p \in Worker /\ lease = [owner |-> proc[p].token, live |-> TRUE]
  \/ p \in Local

\* The nodes an executor has in flight: it may run siblings concurrently.
Held(p) == {t \in Task : claimedBy[t] = proc[p].token /\ flight[t] # "none"}

\* _reconcile_run, shared by every path that gives up a worker lease: started
\* work becomes uncertain, work that never started may be admitted again.
TreeStarted ==
  \E t \in Task : \/ inv[t] # "none"
                  \/ Started(t)
                  \/ task[t].status # "pending" /\ t \notin Frozen
RecoveredRun == IF run = "none" THEN Summary ELSE run
\* Faulty variant: the invocation rows are forgotten.
ForgottenInv == inv
ReconciledRun ==
  IF RecoveredRun \in {"accepted", "running"}
  THEN IF TreeStarted THEN Reconcile ELSE "accepted"
  ELSE RecoveredRun
ReconciledInv == [t \in Task |-> IF inv[t] = "running" THEN "unknown" ELSE inv[t]]

Goto(p, place, verdict) ==
  proc' = [proc EXCEPT ![p] = [at |-> place, token |-> proc[p].token, verdict |-> verdict]]
Leave(p) == proc' = [proc EXCEPT ![p] = Idle]

\* execute_task_tree returned "already running" to its caller, or raised.
Refused(p) ==
  \/ p \in Dispatcher /\ Goto(p, "checking", "none")
  \/ p \in Worker /\ Goto(p, "reporting", "refused")
  \/ p \in Local /\ Leave(p)
Raised(p) ==
  \/ p \in Dispatcher /\ Goto(p, "reporting", Reconcile)
  \/ p \in Worker /\ Goto(p, "reporting", "raised")
  \/ p \in Local /\ Leave(p)

-----------------------------------------------------------------------------
(* Submission and the dispatcher's poll.                                    *)

\* Faulty variant: the pending root is all that admission looks at.
AcceptPendingRoot ==
  /\ dispatch.state = "none" /\ ~lease.live
  /\ task[Root].status = "pending"
  /\ run' = EnsuredRun
  /\ dispatch' = [dispatch EXCEPT !.state = "accepted"]
  /\ UNCHANGED <<task, claimedBy, inv, lease, proc, poll, flight, nextToken>>

\* accept_task: a root enters the queue once, only while no worker owns it and
\* nothing in its tree is active.  A submission that is rejected, or that finds
\* the row already there, changes nothing.
Accept ==
  /\ dispatch.state = "none"
  /\ ~lease.live
  /\ \/ task[Root].status = "pending"
     \/ Root \in Frozen /\ run = "accepted"
  /\ \A t \in Task : task[t].status # "in_progress" /\ ~task[t].cancel
  /\ EnsuredRun = "accepted"
  /\ run' = EnsuredRun
  /\ dispatch' = [dispatch EXCEPT !.state = "accepted"]
  /\ UNCHANGED <<task, claimedBy, inv, lease, proc, poll, flight, nextToken>>

\* Faulty variant: a node that was claimed and never invoked does not count.
VerdictByInvocations ==
  IF AllCompleted THEN "finished"
  ELSE IF ~HasInvocations /\ ~HasUnknown THEN "accepted" ELSE Reconcile

\* The verdict _recover reaches on an expired row, from rows it reads one by one.
RecoveryVerdict ==
  IF AllCompleted THEN "finished"
  ELSE IF /\ ~HasInvocations
          /\ \A t \in Task : /\ task[t].status # "in_progress"
                             /\ ~task[t].unknown
                             /\ ~Started(t)
                             /\ task[t].status = "pending" \/ t \in Frozen
  THEN "accepted" ELSE Reconcile

\* Faulty variant: only a run that was started is recovered.
RecoverStarted(d) ==
  /\ poll[d] = NoPoll
  /\ dispatch.state = "running" /\ ~dispatch.live /\ run = "running"
  /\ poll' = [poll EXCEPT ![d] = [token |-> dispatch.owner, verdict |-> RecoveryVerdict]]
  /\ UNCHANGED <<task, claimedBy, inv, run, dispatch, lease, proc, flight, nextToken>>

\* _recover reads an expired row and decides what it means...
RecoverRead(d) ==
  /\ poll[d] = NoPoll
  /\ dispatch.state = "running" /\ ~dispatch.live
  /\ poll' = [poll EXCEPT ![d] = [token |-> dispatch.owner, verdict |-> RecoveryVerdict]]
  /\ UNCHANGED <<task, claimedBy, inv, run, dispatch, lease, proc, flight, nextToken>>

\* ... and then writes it, unless the row changed hands in between.
RecoverCommit(d) ==
  /\ poll[d] # NoPoll
  /\ poll' = [poll EXCEPT ![d] = NoPoll]
  /\ \/ /\ dispatch.owner = poll[d].token /\ ~dispatch.live
        /\ dispatch' = [state |-> poll[d].verdict, owner |-> NoToken, live |-> FALSE]
        /\ \/ /\ poll[d].verdict = Reconcile
              /\ inv' = ReconciledInv
              /\ run' = Finished(Reconcile)
           \/ /\ poll[d].verdict = "accepted"
              /\ run' = IF run = "running" THEN "accepted" ELSE run
              /\ UNCHANGED inv
           \/ /\ poll[d].verdict = "finished"
              /\ run' = Finished("completed")
              /\ UNCHANGED inv
     \/ /\ ~(dispatch.owner = poll[d].token /\ ~dispatch.live)
        /\ UNCHANGED <<dispatch, inv, run>>
  /\ UNCHANGED <<task, claimedBy, lease, proc, flight, nextToken>>

\* _dispatch: claim an accepted row with a fresh token, unless this process is
\* still running the root.
Claim(d) ==
  /\ poll[d] = NoPoll
  /\ proc[d] = Idle
  /\ dispatch.state = "accepted"
  /\ nextToken < MaxToken
  /\ nextToken' = nextToken + 1
  /\ dispatch' = [state |-> "running", owner |-> nextToken + 1, live |-> TRUE]
  /\ proc' = [proc EXCEPT ![d] = [at |-> "entering", token |-> nextToken + 1, verdict |-> "none"]]
  /\ UNCHANGED <<task, claimedBy, inv, run, lease, poll, flight>>

-----------------------------------------------------------------------------
(* A worker's poll, and a request executed in process.                      *)

\* _find_executable_tasks: the row is selected now and leased later.
Find(w) ==
  /\ proc[w] = Idle
  /\ \/ task[Root].status = "pending"
     \/ Root \in Frozen /\ run = "accepted"
  /\ ~task[Root].cancel
  /\ dispatch.state = "none"
  /\ run \in {"none", "accepted"}
  /\ proc' = [proc EXCEPT ![w].at = "found"]
  /\ UNCHANGED <<task, claimedBy, inv, run, dispatch, lease, poll, flight, nextToken>>

\* Faulty variant: the dispatch table is not looked at again.
RefusedByRunOnly ==
  \/ run \notin {"none", "accepted"}
  \/ lease.live
  \/ lease.owner # NoToken /\ ReconciledRun # "accepted"

\* acquire_lease: refused when the root was submitted, its run moved on or the
\* lease is held; an expired owner is reconciled first, and that may refuse too.
AcquireRefused ==
  \/ dispatch.state # "none"
  \/ run \notin {"none", "accepted"}
  \/ lease.live
  \/ lease.owner # NoToken /\ ReconciledRun # "accepted"

Acquire(w) ==
  /\ proc[w].at = "found"
  /\ ~AcquireRefused
  /\ nextToken < MaxToken
  /\ nextToken' = nextToken + 1
  /\ IF lease.owner # NoToken
     THEN run' = ReconciledRun /\ inv' = ReconciledInv
     ELSE UNCHANGED <<run, inv>>
  /\ lease' = [owner |-> nextToken + 1, live |-> TRUE]
  /\ proc' = [proc EXCEPT ![w] = [at |-> "entering", token |-> nextToken + 1, verdict |-> "none"]]
  /\ UNCHANGED <<task, claimedBy, dispatch, poll, flight>>

AcquireFails(w) ==
  /\ proc[w].at = "found"
  /\ AcquireRefused
  /\ Leave(w)
  /\ IF /\ dispatch.state = "none"
        /\ run \in {"none", "accepted"}
        /\ ~lease.live /\ lease.owner # NoToken
     THEN run' = ReconciledRun /\ inv' = ReconciledInv /\ lease' = NoLease
     ELSE UNCHANGED <<run, inv, lease>>
  /\ UNCHANGED <<task, claimedBy, dispatch, poll, flight, nextToken>>

\* execute_task_by_id called by a request: no row records the owner.  The token
\* only tells one request from another.
Request(l) ==
  /\ proc[l] = Idle
  /\ nextToken < MaxToken
  /\ nextToken' = nextToken + 1
  /\ proc' = [proc EXCEPT ![l] = [at |-> "entering", token |-> nextToken + 1, verdict |-> "none"]]
  /\ UNCHANGED <<task, claimedBy, inv, run, dispatch, lease, poll, flight>>

-----------------------------------------------------------------------------
(* Starting the run.                                                        *)

\* start_run: an accepted run becomes running once, by the owner it has now.
StartRun(p) ==
  /\ \/ run # "accepted" /\ Raised(p) /\ UNCHANGED run
     \/ /\ run = "accepted" /\ HasInvocations /\ Raised(p)
        /\ run' = IF Owns(p) THEN Reconcile ELSE run
     \/ run = "accepted" /\ ~HasInvocations /\ ~Owns(p) /\ Raised(p) /\ UNCHANGED run
     \/ /\ run = "accepted" /\ ~HasInvocations /\ Owns(p)
        /\ run' = "running" /\ Goto(p, "executing", "none")
  /\ UNCHANGED <<task, claimedBy, inv, dispatch, lease, poll, flight, nextToken>>

\* execute_task_tree: refused without its fence.  A request keeps the root locked
\* from the fence to the start of the run, unless it had to create the run row,
\* which commits; nothing holds the two together for a dispatcher or a worker.
Enter(p) ==
  /\ proc[p].at = "entering"
  /\ \/ /\ ~Fence(p) /\ Refused(p)
        /\ UNCHANGED <<task, claimedBy, inv, run, dispatch, lease, poll, flight, nextToken>>
     \/ /\ Fence(p) /\ (p \in Local => run = "none")
        /\ run' = EnsuredRun /\ Goto(p, "admitted", "none")
        /\ UNCHANGED <<task, claimedBy, inv, dispatch, lease, poll, flight, nextToken>>
     \/ Fence(p) /\ p \in Local /\ run # "none" /\ StartRun(p)

Start(p) == proc[p].at = "admitted" /\ StartRun(p)

-----------------------------------------------------------------------------
(* Executing the nodes.  Any pending node may be next: the order the DAG     *)
(* imposes, and the retries of an invocation, are left out.                  *)

SetStatus(t, status) == task' = [task EXCEPT ![t].status = status]
Land(t, state) == flight' = [flight EXCEPT ![t] = state]

\* A write that confirms a requested cancellation is fenced by a token only.
CancelFence(p) == p \in Local \/ Fence(p)

\* try_claim_for_execution: one UPDATE decides which executor gets the node.
Claimable(p, t) ==
  /\ task[t].status = "pending" /\ ~task[t].cancel
  /\ BusinessOpen(t)
  /\ Fence(p)

ClaimTask(p, t) ==
  /\ proc[p].at = "executing"
  /\ Claimable(p, t)
  /\ SetStatus(t, "in_progress")
  /\ claimedBy' = [claimedBy EXCEPT ![t] = proc[p].token]
  /\ Land(t, "claimed")
  /\ UNCHANGED <<inv, run, dispatch, lease, proc, poll, nextToken>>

InFlight(p, t, state) ==
  /\ proc[p].at = "executing"
  /\ claimedBy[t] = proc[p].token
  /\ flight[t] = state

\* AttemptRecorder.start: not fenced, it only looks at the node.
BeginInvocation(p, t) ==
  /\ InFlight(p, t, "claimed")
  /\ task[t].status # "cancelled" /\ ~task[t].cancel
  /\ inv' = [inv EXCEPT ![t] = "running"]
  /\ Land(t, "invoking")
  /\ UNCHANGED <<task, claimedBy, run, dispatch, lease, proc, poll, nextToken>>

\* A request seen before the invocation stops the node there.
CancelClaimed(p, t) ==
  /\ InFlight(p, t, "claimed")
  /\ task[t].status = "cancelled" \/ task[t].cancel
  /\ IF CancelFence(p) /\ BusinessOpen(t) /\ task[t].status = "in_progress"
     THEN SetStatus(t, "cancelled") ELSE UNCHANGED task
  /\ Land(t, "none")
  /\ UNCHANGED <<claimedBy, inv, run, dispatch, lease, proc, poll, nextToken>>

\* transition_task to failed, from the executor of the node.
FailNode(p, t, unknown) ==
  IF /\ task[t].status = "in_progress" /\ ~task[t].cancel
     /\ BusinessOpen(t) /\ Fence(p)
  THEN task' = [task EXCEPT ![t] = [status |-> "failed", cancel |-> FALSE, unknown |-> unknown]]
  ELSE UNCHANGED task

\* A policy, the circuit breaker, the budget or an exception ends the node first.
FailBeforeInvocation(p, t) ==
  /\ InFlight(p, t, "claimed")
  /\ \E unknown \in BOOLEAN : FailNode(p, t, unknown)
  /\ Land(t, "none")
  /\ UNCHANGED <<claimedBy, inv, run, dispatch, lease, proc, poll, nextToken>>

\* AttemptRecorder.finish: what the invocation is recorded as.  An exception is
\* recorded whatever was requested, a result only when nothing was cancelled.
Recordings(t, outcome) ==
  LET returned(status) == IF task[t].status = "cancelled" \/ task[t].cancel
                          THEN "cancelled" ELSE status
  IN CASE outcome = "ok"      -> {returned("completed")}
       [] outcome = "error"   -> {returned("failed"), "failed"}
       [] outcome = "unknown" -> {returned("failed"), "unknown"}

\* Only a running invocation is written: a recorded one is evidence.
FinishInvocation(p, t) ==
  /\ InFlight(p, t, "invoking")
  /\ \E outcome \in Outcome :
       /\ \/ inv[t] = "running"
             /\ \E status \in Recordings(t, outcome) : inv' = [inv EXCEPT ![t] = status]
          \/ inv[t] # "running" /\ UNCHANGED inv
       /\ Land(t, outcome)
  /\ UNCHANGED <<task, claimedBy, run, dispatch, lease, proc, poll, nextToken>>

\* _handle_task_execution_result reads the node, then writes what it decided: a
\* request arriving in between leaves the node in progress with nobody on it.
RecordOutcome(p, t) ==
  /\ \E outcome \in Outcome : InFlight(p, t, outcome)
  /\ \/ /\ task[t].cancel
        /\ CancelFence(p) /\ BusinessOpen(t) /\ task[t].status = "in_progress"
        /\ SetStatus(t, "cancelled")
     \/ /\ flight[t] = "ok"
        /\ task[t].status = "in_progress" /\ ~task[t].cancel
        /\ BusinessOpen(t) /\ Fence(p)
        /\ SetStatus(t, "completed")
     \/ /\ flight[t] # "ok"
        /\ FailNode(p, t, flight[t] = "unknown")
     \/ /\ flight[t] = "ok"
        /\ \/ task[t].status # "in_progress" \/ task[t].cancel
           \/ ~BusinessOpen(t) \/ ~Fence(p)
        /\ UNCHANGED task
  /\ Land(t, "none")
  /\ UNCHANGED <<claimedBy, inv, run, dispatch, lease, proc, poll, nextToken>>

\* An executor that confirms it stopped: told by the watcher of its own process,
\* or by a cancellation request that process received, which no token fences.
ConfirmStop(t) ==
  /\ flight[t] = "invoking"
  /\ task[t].cancel /\ task[t].status = "in_progress"
  /\ BusinessOpen(t)
  /\ SetStatus(t, "cancelled")
  /\ UNCHANGED <<claimedBy, inv, run, dispatch, lease, proc, poll, flight, nextToken>>

-----------------------------------------------------------------------------
(* Ending the run.                                                          *)

\* The tree has been walked: nothing in flight, and what is left is not for us
\* to claim or waits for a node that did not complete.
Walked(p) ==
  /\ Held(p) = {}
  /\ \/ \A t \in Task : ~Claimable(p, t)
     \/ \E t \in Task : task[t].status \in {"in_progress", "failed", "cancelled"}

\* finish_from_tasks reads the tree...
ReadOutcome(p) ==
  /\ proc[p].at = "executing" /\ Walked(p)
  /\ Goto(p, "finishing", FinishStatus)
  /\ UNCHANGED <<task, claimedBy, inv, run, dispatch, lease, poll, flight, nextToken>>

\* ... and finish_run writes the status it read, if the caller still owns the run.
FinishWrite(p) ==
  /\ proc[p].at = "finishing"
  /\ run' = IF Owns(p) THEN Finished(proc[p].verdict) ELSE run
  /\ \/ p \in Dispatcher /\ Goto(p, "checking", "none")
     \/ p \in Worker /\ Goto(p, "reporting", proc[p].verdict)
     \/ p \in Local /\ Leave(p)
  /\ UNCHANGED <<task, claimedBy, inv, dispatch, lease, poll, flight, nextToken>>

\* Anything raised while walking the tree closes the run as uncertain.
ExecutorError(p) ==
  /\ proc[p].at = "executing" /\ Held(p) = {}
  /\ run' = IF Owns(p) THEN Finished(Reconcile) ELSE run
  /\ Raised(p)
  /\ UNCHANGED <<task, claimedBy, inv, dispatch, lease, poll, flight, nextToken>>

\* _run, after the executor returned: the tree is read and the run finished
\* again, and the verdict on the dispatch row comes from this second reading.
CheckRead(d) ==
  /\ proc[d].at = "checking" /\ d \in Dispatcher
  /\ Goto(d, "settling", FinishStatus)
  /\ UNCHANGED <<task, claimedBy, inv, run, dispatch, lease, poll, flight, nextToken>>

CheckWrite(d) ==
  /\ proc[d].at = "settling" /\ d \in Dispatcher
  /\ run' = IF Owns(d) THEN Finished(proc[d].verdict) ELSE run
  /\ Goto(d, "reporting", IF proc[d].verdict = Reconcile THEN Reconcile ELSE "finished")
  /\ UNCHANGED <<task, claimedBy, inv, dispatch, lease, poll, flight, nextToken>>

\* The last UPDATE of _run asks for the token, not for a live lease.
ReportDispatch(d) ==
  /\ proc[d].at = "reporting" /\ d \in Dispatcher
  /\ dispatch' = IF dispatch.owner = proc[d].token
                 THEN [state |-> proc[d].verdict, owner |-> NoToken, live |-> FALSE]
                 ELSE dispatch
  /\ Leave(d)
  /\ UNCHANGED <<task, claimedBy, inv, run, lease, poll, flight, nextToken>>

\* _finalize_task: the lease is deleted and the root closed in one transaction.
\* The history guard of the session refuses a root whose run is terminal: the
\* transaction rolls back, and the lease stays until it expires.
Finalize(w) ==
  LET status == IF task[Root].cancel THEN "cancelled"
                ELSE IF proc[w].verdict = "raised" THEN "failed" ELSE proc[w].verdict
      open == task[Root].status \in {"pending", "in_progress"}
  IN /\ proc[w].at = "reporting" /\ w \in Worker
     /\ proc[w].verdict \notin {"refused", Reconcile}
     /\ \/ /\ lease = [owner |-> proc[w].token, live |-> TRUE]
           /\ dispatch.state = "none"
           /\ ~(open /\ ~BusinessOpen(Root))
           /\ lease' = NoLease
           /\ IF open THEN SetStatus(Root, status) ELSE UNCHANGED task
        \/ /\ \/ lease # [owner |-> proc[w].token, live |-> TRUE]
              \/ dispatch.state # "none"
              \/ open /\ ~BusinessOpen(Root)
           /\ UNCHANGED <<lease, task>>
     /\ Leave(w)
     /\ UNCHANGED <<claimedBy, inv, run, dispatch, poll, flight, nextToken>>

\* recover_lease: a worker that lost its task, or was refused it, gives the lease
\* up.  It asks for its token only, expired or not.
RecoverLease(w) ==
  /\ proc[w].at = "reporting" /\ w \in Worker
  /\ proc[w].verdict \in {"refused", Reconcile}
  /\ IF lease.owner = proc[w].token /\ dispatch.state = "none"
     THEN lease' = NoLease /\ run' = ReconciledRun /\ inv' = ReconciledInv
     ELSE UNCHANGED <<lease, run, inv>>
  /\ Leave(w)
  /\ UNCHANGED <<task, claimedBy, dispatch, poll, flight, nextToken>>

-----------------------------------------------------------------------------
(* Losing a lease, stopping, crashing, expiring.                            *)

Walking == {"entering", "admitted", "executing", "finishing"}

\* The executor is cancelled: an invocation in flight is recorded as cancelled
\* when the request was known to the executor, as unknown otherwise, and a node
\* whose cancellation was requested is confirmed.
Interrupt(p) ==
  /\ \E known \in SUBSET {t \in Held(p) : task[t].cancel} :
       inv' = [t \in Task |->
                 IF t \in Held(p) /\ flight[t] = "invoking" /\ inv[t] = "running"
                 THEN IF t \in known THEN "cancelled" ELSE "unknown" ELSE inv[t]]
  /\ task' = [t \in Task |->
       IF /\ t \in Held(p) /\ task[t].cancel /\ task[t].status = "in_progress"
          /\ CancelFence(p) /\ BusinessOpen(t)
       THEN [task[t] EXCEPT !.status = "cancelled"] ELSE task[t]]
  /\ flight' = [t \in Task |-> IF t \in Held(p) THEN "none" ELSE flight[t]]

\* _execute_single_task absorbs the cancellation of a node it was asked to
\* cancel: the worker's executor goes on with the rest of the tree.
Absorbed(w) == \E t \in Held(w) : task[t].cancel

\* The renewal finds its lease gone.
LoseLease(p) ==
  /\ proc[p].at \in Walking
  /\ \/ /\ p \in Dispatcher
        /\ dispatch # [state |-> "running", owner |-> proc[p].token, live |-> TRUE]
        /\ Goto(p, "reporting", Reconcile)
     \/ /\ p \in Worker
        /\ lease # [owner |-> proc[p].token, live |-> TRUE]
        /\ \/ Goto(p, "reporting", "refused")
           \/ Absorbed(p) /\ UNCHANGED proc
  /\ Interrupt(p)
  /\ UNCHANGED <<claimedBy, run, dispatch, lease, poll, nextToken>>

\* TaskDispatcher.stop leaves its row to lease recovery, WorkerRuntime.shutdown
\* recovers its lease itself, a request simply ends.
Shutdown(p) ==
  /\ proc[p].at \in Walking
  /\ \/ p \in Dispatcher \cup Local /\ Leave(p)
     \/ p \in Worker /\ Goto(p, "reporting", "refused")
  /\ Interrupt(p)
  /\ UNCHANGED <<claimedBy, run, dispatch, lease, poll, nextToken>>

\* The process dies: only the rows survive.
Crash(p) ==
  /\ proc[p] # Idle \/ (p \in Dispatcher /\ poll[p] # NoPoll)
  /\ Leave(p)
  /\ flight' = [t \in Task |-> IF t \in Held(p) THEN "none" ELSE flight[t]]
  /\ poll' = [d \in Dispatcher |-> IF d = p THEN NoPoll ELSE poll[d]]
  /\ UNCHANGED <<task, claimedBy, inv, run, dispatch, lease, nextToken>>

ExpireDispatch ==
  /\ dispatch.live
  /\ dispatch' = [dispatch EXCEPT !.live = FALSE]
  /\ UNCHANGED <<task, claimedBy, inv, run, lease, proc, poll, flight, nextToken>>

ExpireLease ==
  /\ lease.live
  /\ lease' = [lease EXCEPT !.live = FALSE]
  /\ UNCHANGED <<task, claimedBy, inv, run, dispatch, proc, poll, flight, nextToken>>

\* Faulty variant: a closed run has nothing left to clean.
CleanupOpenRuns ==
  /\ lease.owner # NoToken /\ ~lease.live /\ run \notin TerminalRun
  /\ lease' = NoLease
  /\ run' = ReconciledRun
  /\ inv' = ReconciledInv
  /\ UNCHANGED <<task, claimedBy, dispatch, proc, poll, flight, nextToken>>

\* The leader's janitor.  It does not look for a dispatch row.
CleanupExpiredLeases ==
  /\ lease.owner # NoToken /\ ~lease.live
  /\ lease' = NoLease
  /\ run' = ReconciledRun
  /\ inv' = ReconciledInv
  /\ UNCHANGED <<task, claimedBy, dispatch, proc, poll, flight, nextToken>>

-----------------------------------------------------------------------------
(* Cancellation requests.                                                   *)

\* request_cancellation is persisted before anybody is told.
RequestCancel(t) ==
  /\ task[t].status \in {"pending", "in_progress"}
  /\ ~task[t].cancel /\ BusinessOpen(t)
  /\ task' = [task EXCEPT ![t].cancel = TRUE]
  /\ UNCHANGED <<claimedBy, inv, run, dispatch, lease, proc, poll, flight, nextToken>>

\* cancel_task on a node nobody runs, and the executor's own check before a
\* claim: the pending node is cancelled, whoever owns the tree.
CancelPending(t) ==
  /\ task[t].status = "pending"
  /\ task[t].cancel /\ BusinessOpen(t)
  /\ SetStatus(t, "cancelled")
  /\ UNCHANGED <<claimedBy, inv, run, dispatch, lease, proc, poll, flight, nextToken>>

\* cancel_task_tree closes the run once every stop is confirmed, owner or not.
CancelFinish ==
  /\ \A t \in Task : task[t].status \notin {"pending", "in_progress"}
  /\ HasStatus("cancelled")
  /\ run # Finished(FinishStatus)
  /\ run' = Finished(FinishStatus)
  /\ UNCHANGED <<task, claimedBy, inv, dispatch, lease, proc, poll, flight, nextToken>>

-----------------------------------------------------------------------------
Poll(d) == RecoverRead(d) \/ RecoverCommit(d) \/ Claim(d)
Take(w) == Find(w) \/ Acquire(w) \/ AcquireFails(w)

RunNode(p, t) ==
  \/ ClaimTask(p, t) \/ BeginInvocation(p, t) \/ CancelClaimed(p, t)
  \/ FailBeforeInvocation(p, t) \/ FinishInvocation(p, t) \/ RecordOutcome(p, t)

\* What an executor does when nothing stops it.
Progress(p) ==
  \/ Enter(p) \/ Start(p)
  \/ \E t \in Task : RunNode(p, t)
  \/ ReadOutcome(p) \/ FinishWrite(p)
  \/ CheckRead(p) \/ CheckWrite(p) \/ ReportDispatch(p)
  \/ Finalize(p) \/ RecoverLease(p)

Stop(p) == ExecutorError(p) \/ LoseLease(p) \/ Shutdown(p) \/ Crash(p)

\* cancel_task of the executor, from the request to the stop.
Cancel(t) == RequestCancel(t) \/ CancelPending(t) \/ ConfirmStop(t)

Next ==
  \/ Accept
  \/ \E d \in Dispatcher : Poll(d)
  \/ \E w \in Worker : Take(w)
  \/ \E l \in Local : Request(l)
  \/ \E p \in Proc : Progress(p) \/ Stop(p)
  \/ ExpireDispatch \/ ExpireLease \/ CleanupExpiredLeases
  \/ \E t \in Task : Cancel(t)
  \/ CancelFinish

Spec == Init /\ [][Next]_vars

\* A lease is not renewed once the process that holds its token is gone.
Abandoned(token) == \A p \in Proc : proc[p].at \notin Walking \/ proc[p].token # token

\* What the event loops guarantee: a dispatcher keeps polling and not every poll
\* it begins is cut short by a crash, an executor that is running goes on (an
\* executor call returns), an abandoned lease expires and the leader's janitor
\* keeps looking.  Workers and requests need not come, nobody has to cancel, stop
\* or crash.
Fairness ==
  /\ \A d \in Dispatcher :
       WF_vars(RecoverRead(d)) /\ SF_vars(RecoverCommit(d)) /\ WF_vars(Claim(d))
  /\ \A p \in Proc : WF_vars(Progress(p))
  /\ WF_vars(Abandoned(dispatch.owner) /\ ExpireDispatch)
  /\ WF_vars(Abandoned(lease.owner) /\ ExpireLease)
  /\ WF_vars(CleanupExpiredLeases)

FairSpec == Spec /\ Fairness

-----------------------------------------------------------------------------
(* Properties.                                                              *)

\* A root that was submitted is never under a worker's live lease: admission and
\* acquire_lease both look at the other's table under the lock of the root.
OneDurableOwner == dispatch.state # "none" => ~lease.live

\* Every node of the tree is claimed by one and the same executor, whatever
\* expires, crashes or is requeued: recovery never hands started work on.
SingleExecutor ==
  \A s, t \in Task : Started(s) /\ Started(t) => claimedBy[s] = claimedBy[t]

\* A submission waiting in the queue has nothing of its tree started, so that
\* dispatching it (again) repeats no side effect.
ReadmittedIsUntouched ==
  dispatch.state = "accepted" => \A t \in Task : ~Started(t) /\ inv[t] = "none"

\* A run is completed only on evidence: every node is completed, by a recorded
\* invocation of its own or by a frozen result, late recoveries notwithstanding.
CompletedIsEvidenced ==
  run = "completed" => \A t \in Task : /\ task[t].status = "completed"
                                       /\ t \in Frozen \/ inv[t] = "completed"

\* What recoveries and late owners may never do to a tree: begin its work twice, or
\* call it completed without evidence (dispatch.py, _recover_expired; runs.py,
\* finish_from_tasks).
RecoveryIsSafe == ReadmittedIsUntouched /\ CompletedIsEvidenced

\* An invocation begun while its run was open does not stay "running" after its
\* executor died: recovery, through the dispatch row or through the worker's lease,
\* records that nothing is known of it.
InvocationsSettle ==
  \A t \in Task : inv[t] = "running" /\ run \notin TerminalRun ~> inv[t] # "running"

\* A submission leaves the queue and ends (unless the bound on tokens is hit).
SubmissionSettles ==
  dispatch.state \in {"accepted", "running"} ~>
    dispatch.state \in SettledDispatch \/ nextToken = MaxToken

\* A worker's lease is given back, however the worker ends.
LeaseReturned == lease.owner # NoToken ~> lease.owner = NoToken

-----------------------------------------------------------------------------
(* Why: the inductive invariant behind OneDurableOwner and SingleExecutor.   *)

\* What a process carries to its next step is what that step can use.
VerdictOK ==
  \A p \in Proc :
    /\ proc[p].at \in {"finishing", "settling"} => proc[p].verdict \in TerminalRun
    /\ proc[p].at = "reporting" /\ p \in Dispatcher => proc[p].verdict \in SettledDispatch
    /\ proc[p].at = "reporting" /\ p \in Worker =>
         proc[p].verdict \in TerminalRun \cup {"raised", "refused"}

\* A token names one process, and one it was drawn for.
TokensDrawn ==
  /\ \A p \in Proc : /\ proc[p].token <= nextToken
                     /\ proc[p].at \notin {"idle", "found"} => proc[p].token # NoToken
                     /\ proc[p].at \in {"idle", "found"} => proc[p].token = NoToken
  /\ \A p, q \in Proc : p # q /\ proc[p].token = proc[q].token => proc[p].token = NoToken
  /\ \A t \in Task : claimedBy[t] <= nextToken
  /\ \A d \in Dispatcher : /\ poll[d].token <= nextToken
                           /\ poll[d] # NoPoll => poll[d].token # NoToken
  /\ dispatch.owner <= nextToken

\* Only a running dispatch has an owner and a lease.
DispatchOwned ==
  /\ dispatch.owner # NoToken <=> dispatch.state = "running"
  /\ dispatch.live => dispatch.state = "running"

LeaseInv == TypeOK /\ VerdictOK /\ TokensDrawn /\ DispatchOwned /\ OneDurableOwner

\* A process that has not begun to execute has claimed nothing.
NotYetClaiming ==
  \A p \in Proc : proc[p].at \in {"entering", "admitted"} =>
    \A t \in Task : claimedBy[t] # proc[p].token

\* Who may still claim is who claimed: else the run is closed or the dispatch over.
ClaimantOwns ==
  \A t \in Task : Started(t) =>
    \/ run \in TerminalRun
    \/ dispatch.state \in SettledDispatch
    \/ dispatch.state = "running" /\ dispatch.owner = claimedBy[t]
    \/ dispatch.state = "none" /\ lease.owner = claimedBy[t]

\* Without a submission, started work shows in the run row...
StartedShows ==
  dispatch.state = "none" /\ (\E t \in Task : Started(t)) => run \notin {"none", "accepted"}

\* ... and a worker executes under its lease only a run that was started.
LeasedRunStarted ==
  \A w \in Worker :
    /\ proc[w].at \in {"executing", "finishing"}
    /\ lease.owner = proc[w].token /\ dispatch.state = "none"
    => run \notin {"none", "accepted"}

\* A worker that reports under a live lease left its run closed or untouched.
ReportedIsClosed ==
  \A w \in Worker :
    /\ proc[w].at = "reporting" /\ proc[w].verdict \notin {"refused", Reconcile}
    /\ lease = [owner |-> proc[w].token, live |-> TRUE] /\ dispatch.state = "none"
    => run \in TerminalRun \/ \A t \in Task : ~Started(t)

\* What a poll read stays true until it writes: an expired lease is never renewed.
PollIsCurrent ==
  \A d \in Dispatcher : poll[d].verdict = "accepted" /\ poll[d].token = dispatch.owner =>
    ~dispatch.live /\ \A t \in Task : ~Started(t)

\* Holds when no request executes the root outside the lease protocol.
OwnershipInv ==
  /\ LeaseInv
  /\ SingleExecutor
  /\ NotYetClaiming /\ ClaimantOwns /\ StartedShows
  /\ LeasedRunStarted /\ ReportedIsClosed /\ PollIsCurrent

-----------------------------------------------------------------------------
(* The same where no worker leases the root: requests execute it in process, *)
(* beside dispatchers when the run row existed before any of them.           *)

InProcess == Worker = {} /\ (Enrolled \/ Dispatcher = {})

\* Work waiting to be admitted has not begun.
WaitingIsUntouched ==
  run \in {"none", "accepted"} \/ dispatch.state = "accepted" => \A t \in Task : ~Started(t)

\* The owner of a running dispatch is who claimed, and it executes a started run.
DispatchOwns ==
  dispatch.state = "running" =>
    /\ \A t \in Task : Started(t) => claimedBy[t] = dispatch.owner
    /\ \A d \in Dispatcher :
         proc[d].at = "executing" /\ proc[d].token = dispatch.owner => run \notin {"none", "accepted"}

\* One request executes at most: it started the run, nobody else can take it up
\* again, and no dispatcher is at it.
RequestOwns ==
  \A l \in Local :
    /\ proc[l].at = "admitted" => Dispatcher = {}
    /\ proc[l].at \in {"executing", "finishing"} =>
         /\ run \notin {"none", "accepted"}
         /\ dispatch.state \in {"none", "finished"} \/ Dispatcher = {}
         /\ \A t \in Task : Started(t) => claimedBy[t] = proc[l].token
         /\ \A m \in Local \ {l} : proc[m].at \notin {"executing", "finishing"}

\* Holds of InProcess only: a request that has to create the run row commits it, and
\* a submission that slips in before the start makes two executors of one tree.
InProcessInv ==
  /\ LeaseInv
  /\ lease.owner = NoToken
  /\ Enrolled => run # "none"
  /\ SingleExecutor
  /\ NotYetClaiming /\ PollIsCurrent
  /\ WaitingIsUntouched /\ DispatchOwns /\ RequestOwns

-----------------------------------------------------------------------------
(* What the caller sees: a run that is executed once.                       *)

NodeStatus == [t \in Task |-> task[t].status]
Executing == {t \in Task : Started(t)}
RunExecutor == IF Executing = {} THEN NoToken ELSE claimedBy[CHOOSE t \in Executing : TRUE]
RunOutcome == IF run \in TerminalRun THEN run ELSE "open"

Abstract == INSTANCE SingleRun WITH
  Node <- Task,
  Reused <- Frozen,
  Executor <- 1 .. MaxToken,
  NoExecutor <- NoToken,
  status <- NodeStatus,
  executor <- RunExecutor,
  outcome <- RunOutcome

\* The protocol of leases and recovery implements the run its caller sees: no
\* interleaving of owners, crashes and late writes is visible in the rows.
ImplementsSingleRun == Abstract!Spec

-----------------------------------------------------------------------------
(* What the documentation says and the code does not do.                    *)

\* A dispatch that ended as uncertain can be answered with run.retry, which only
\* takes a closed run.
UncertainDispatchClosesRun == dispatch.state = Reconcile => run \in {"none"} \cup TerminalRun

\* Only interrupted work is reconciled: the run of a dispatcher that holds its
\* lease and is executing a node is not closed under it as uncertain.
LiveOwnerIsNotReconciled ==
  (/\ dispatch.state = "running" /\ dispatch.live
   /\ \E t \in Task : /\ Started(t) /\ claimedBy[t] = dispatch.owner
                       /\ task[t].status = "in_progress" /\ flight[t] # "none")
  => run # Reconcile

\* Every started invocation of a lost executor becomes uncertain.
EveryInvocationSettles == \A t \in Task : inv[t] = "running" ~> inv[t] # "running"
=============================================================================
