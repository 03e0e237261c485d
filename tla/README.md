# Verification of apflow

apflow runs trees of tasks. A root and its descendants are rows of one database;
the tree is executed by a request in process, by a background dispatcher, or by
the workers of a cluster, and may be created by a schedule. This directory holds
TLA+ models of the parts of the code where several processes share those rows, or
several coroutines the memory of one process, the TLC runs that check them on
small instances, and TLAPS proofs of what matters most for every instance.

The reference is the code under `src/apflow`; paths below are relative to it
unless they start with `docs/`. `PROJECT.json` maps every definition that models
code to the lines it stands for.

## 1. Inventory

| Component | Where | State it keeps | Operations | What is hard | What makes it correct |
|---|---|---|---|---|---|
| Workflow runs | `core/execution/runs.py` | `WorkflowRun.status`, one row for each root | ensure, start, finish, finish from tasks | conditional updates from several owners; terminal history must not move | a run closes once, on evidence |
| Durable dispatch | `core/execution/dispatch.py` | `TaskDispatch` row: state, owner token, expiry | accept, claim, renew, recover, report | recovery of one process races the late writes of another | started work is never handed on; a submission ends |
| Task leases, distributed worker | `core/distributed/lease_manager.py`, `core/distributed/worker.py` | `TaskLease` row; asyncio tasks of a worker | find, acquire, renew, finalize, recover, clean up | rows selected now and leased later; two protocols (lease and dispatch) for one root | one durable owner; leases given back |
| Task executor | `core/execution/task_executor.py` | in-process tracker of roots | admit, execute the tree, fail, cancel | the state read before an `await` is used after it | no execution without ownership |
| Task manager | `core/execution/task_manager.py` | nothing shared; walks the tree | claim, invoke, record, cancel a node; dependencies, priorities, retry | concurrent siblings; a cancelled node in flight; unconfirmed side effects | a node is begun once; a failed tree is not completed |
| Task repository, run invariants | `core/storage/sqlalchemy/task_repository.py`, `core/storage/sqlalchemy/invariants.py` | the `TaskModel` rows | fenced writes, compare-and-set claims, cancellation | every write must ask for ownership in the same transaction | frozen results and terminal history are not written |
| Execution attempts | `durability/attempts.py` | `ExecutionAttempt` of each invocation | start, finish, late usage | a result that arrives after recovery | an outcome is confirmed, or unknown |
| Token ledger and usage | `governance/ledger.py`, `governance/budget.py`, `governance/usage.py` | account, reservations, usage events | reserve, settle, hold, correct, reconcile, report | late reports, receipts and recovery in any order | balances add up; nothing charged twice or released without evidence |
| Leader election | `core/distributed/leader_election.py` | one `ClusterLeader` row | acquire, renew, release | expired leaders that wake up | one live leadership at a time |
| Distributed runtime | `core/distributed/runtime.py` | role of the node, its loops | start, demote, shut down, run the dispatch scheduler | a stale leader that still dispatches | a leader that lost the row stops |
| Internal scheduler | `scheduler/internal.py` | active fires of the process, its loop | start, stop, pause, resume, trigger; poll, fire, advance | three separate readings of one definition; fires that outlive a stop | no occurrence lost, no run counted twice, no definition fired twice at once |
| Webhook gateway, `schedule.trigger` | `scheduler/gateway/`, `bridge/` | none | fire by hand | overlaps the scheduler's fires | unkeyed runs do not claim an occurrence |
| Schedule calculation | `core/storage/sqlalchemy/schedule_calculator.py` | none | next occurrence of an expression | ends of months, an occurrence that is due now | no occurrence of an expression is passed over |
| Task creation and instantiation | `core/execution/task_creator.py` | rows it inserts | validate an array, link, copy, mix, archive, instantiate | originals read in one transaction and cloned in another | clones keep shape and dependencies; archives are whole |
| Run retry | `core/execution/run_retry.py` | rows it inserts | select what is executed again, reuse the rest | superseded results, uncertain effects | what is reused rests on what is reused |
| Submission receipts | `core/execution/submission.py` | receipt of an idempotency key | submit once | racing submissions of one key | one receipt and no stray row for each key |
| Circuit breaker | `durability/circuit_breaker.py` | state of each executor, in process | allow, success, failure, reset | late outcomes, test calls whose outcome is lost | few test calls; only they close it; it recovers |
| Retry, checkpoints | `durability/retry.py`, `durability/checkpoint.py` | attempt counters, saved progress | back off, save, resume, delete | cancellation between attempts, effects that must not be repeated | nothing undeclared is repeated; progress is kept |
| Idempotency cache | `core/distributed/idempotency.py` | result of each key | look up, store | a late worker's result after its successor's | tells how the root ended |
| Node registry, placement | `core/distributed/node_registry.py`, `placement.py` | a row for each node | register, deregister, judge, place | a node changes its role | a node that is up has a row |
| Cost policies, routing, reports | `governance/` | none | evaluate, downgrade, choose | a budget used up between two dispatches | the chain of models ends |
| Dependency validation | `core/validator/` | none | cycles, references | graph algorithms | only acyclic forests are created |
| Bridge, HTTP API, command line, extensions, configuration | `bridge/`, `api/`, `extensions/`, `core/config/` | none shared | validate, route, register | - | - |

How they interact: nothing but the database is shared between processes. A
submission makes a dispatch row and a run row in one transaction; a dispatcher or
a worker claims the root with a fresh token and calls the task executor, which
starts the run and lets the task manager walk the tree. Each node is claimed by a
conditional update fenced by the owner's lease, then its invocation is recorded,
its tokens reserved, its executor called, and its result recorded, in separate
transactions. Renewal loops cancel the execution when a lease is gone; recovery
loops of other processes close what an expired owner left. The elected leader
runs the scheduler, whose fires insert runs, and the janitor of expired leases.

## 2. Plan

Order: who owns a root first, since every other guarantee rests on it; then what
an invocation costs; then who schedules; then what happens inside one process;
then how trees come to be.

1. **RootExecution** with the abstract **SingleRun** it implements.
2. **UsageLedger**.
3. **LeaderElection**; **ScheduleDispatch** and **WorkerPool** both EXTEND it and
   compose its steps with the scheduler's and with the workers'.
4. **TaskGraph**, the walk of one tree, and **ExecutorCalls**, what happens to one
   node between claim and outcome.
5. **TaskTrees**, the algorithms on rows, and the two protocols that EXTEND it:
   **Submission** and **TaskReuse**.
6. **SchedulerLoop**, the scheduler as an object of one process, and
   **ScheduleCalendar**, the expressions behind the slots of ScheduleDispatch.

All of these are done. What is left to model: `schedule.complete` of an external
scheduler and a definition that is executed directly, as actions of
ScheduleDispatch; trees without a run, with their marks for re-execution; and the
refinement from TaskGraph's walk to RootExecution's "any pending node may be
claimed".

Of the properties only liveness is left without a proof (section 5).

## 3. The models

In all of them an action is one database transaction, or one step of a process
between two `await`s that only touches its own memory. What a process remembers
between two transactions is a variable, so that it can be stale when it is used.
Definitions commented "Faulty variant" are not part of the model: each is the
form a mapped definition would take with a plausible bug, and shows that the
property beside it in `PROJECT.json` notices.

### RootExecution

One root and its tree. `task`, `claimedBy`, `inv`, `run`, `dispatch` and `lease`
are rows; `proc` is where an executor is between two transactions and the token
and verdict it carries, `poll` what a dispatcher's recovery has read and not yet
written, `flight` what became of the executor call of a node. Times are replaced
by whether a lease is `live`: every guard in the code compares an expiry with now.

| Actions | Code |
|---|---|
| `Accept`, `RecoverRead`, `RecoverCommit`, `Claim`, `CheckRead`, `CheckWrite`, `ReportDispatch` | `TaskDispatcher`, `accept_task` |
| `Find`, `Acquire`, `AcquireFails`, `Finalize`, `RecoverLease` | `WorkerRuntime`, `LeaseManager` |
| `Request`, `Enter`, `Start`, `ReadOutcome`, `FinishWrite`, `ExecutorError` | `TaskExecutor` |
| `ClaimTask` ... `RecordOutcome`, `ConfirmStop`, `Interrupt` | `TaskManager`, `AttemptRecorder` |
| `Fence`, `Owns`, `BusinessOpen` | the fences of the repository and `runs.py` |
| `CleanupExpiredLeases`, `Expire*`, `Crash`, `Shutdown`, `LoseLease` | the janitor; time; the processes |
| `RequestCancel`, `CancelPending`, `CancelFinish` | `cancel_task`, `cancel_task_tree` |

`Enrolled` says whether the run row was created with the tree, as `run.retry` does,
or is created by the first request or submission (`ensure_run`, which commits it
before the run is started). A node is claimed at most once in its life and may be
any pending node: the order of the walk is TaskGraph's subject. **SingleRun** is what a run promises to the
person who submitted it: its nodes are begun once, by one executor, and end for
good, and it closes once with an outcome that its nodes justify, or as uncertain.
`Abstract` maps the rows to it (`ImplementsSingleRun`).

### UsageLedger

Invocations draw on one `account`; each has a `reservation`, a status, a set of
usage `events` and a `client`, its executor. `usage` is the counter of the task.
`Start`, `Reserve`, `RecordPartial`, `Finish` are the transactions of an
invocation in order, and `Crash` may follow any; `Recover` is what
RootExecution's recoveries do to the ledger; `OperatorReconcile` is
`budget.reconcile`. Tasks outside `Leased` run in process and are never
recovered. Token amounts are members of a small set, subtraction is on integers,
and a hold is chosen from `0 .. account.reserved` because the columns are
constrained to be non-negative: a negative one would stop the transaction.

### LeaderElection and ScheduleDispatch

`leader` is the row, `role`, `token` and `renewing` belong to a node: it is down,
a worker, a leader, demoting or stopping. `RenewFails` is a renewal that returns
false; `RenewRaises` one whose statement raises, which ends the renewal loop and
nothing else. `Dispatches(n)` says that the dispatch scheduler of the node runs.

ScheduleDispatch adds one schedule: `def` (the columns of the definition), `runs`
(what was inserted, with the dispatch key), `due` (read by a poll) and `fire` (the
fire in the memory of a node or a request). `PollRead`, `PollFire`,
`ReadDefinition`, `CreateRun`/`RejectDuplicate`/`CreateFails`, `AdvanceRead` and
`AdvanceWrite` are the separate readings and writings of one fire. `Elect` is a
step of the election with its effect on fires: a node that goes down loses them,
one that is demoted finishes them. Time is the number of occurrences that have
come due; the next slot is the first after now.

**ScheduleCalendar** is what a slot stands for: `Occurs` defines the instants that
an expression names, `NextDaily`, `NextWeekly` and `NextMonthly` are the
calculators. `SlotsAreOccurrences` says that from every instant of `Months` a
calculator answers the first occurrence after it, which is what ScheduleDispatch
assumes of the next slot. The calculators never get a time zone in this program.

### TaskGraph

One walk of a tree by one TaskManager. `status` and `attempt` are the columns as
its session shows them. A running `_execute_task_tree_recursive` is an entry of
`walk`, named by its call path: the tree flattens all descendants into the groups
of every ancestor, so that one task is walked on several paths. The one
`_execute_single_task` call that won the claim of a task is its entry of `exec`,
with the scan that follows its completion. `at` is the point where the coroutine
is suspended. `graph` is the tree submitted, one of the constant `Graph`.

| Actions | Code |
|---|---|
| `Enter`, `NextGroup`, `CheckSelf`, `CheckRaises` | `_execute_task_tree_recursive`, its grouping and its `except` |
| `CheckOne`, `Launch`, `Join` | `_execute_priority_group` |
| `Dispatch`, `DispatchRaises`, `Awaited`, `Finish` | `_execute_single_task`, `try_claim_for_execution`, `_handle_task_execution_result` |
| `ReadTree`, `ScanOne`, `Trigger`, `Triggered`, `EndScan` | `execute_after_task` |
| `ScanRaises`, `TriggerRaises` | its three tries |

Nodes of one group and of one scan are taken in any order, where the code has that
of the lists. A statement that fails after the claim, and a hook or a preflight
check that refuses, end like an executor that fails. Optional dependencies gate
nothing and are left out, as are trees without a run (their marks for
re-execution) and selected subsets, which no caller in the source passes.

### ExecutorCalls

The calls of one executor in one process. `call` is the coroutine of each task,
`breaker` the executor's circuit breaker, `admission` whether the admission of a
call belongs to the breaker's present generation, `task` the columns and the
latest checkpoint, `asked` the attempt that a request for cancellation found in
the executor.

| Actions | Code |
|---|---|
| `Dispatch`, `PrepareFails`, `StopsCancelled`, `Complete`, `Discard` | `_execute_single_task`, `_handle_task_execution_result` |
| `Admit`, `Reject`, `Look`, `Elapse`, `Reset` | `CircuitBreaker`, its registry and the clock |
| `Pass`, `Block` | `_apply_budget_policy`, `PolicyEngine.evaluate` |
| `Begin`, `NoExecutor`, `Answered`, `Enter`, `Invoke` | `_execute_task_with_schemas`, the checkpoint it loads |
| `Succeed`, `FailAttempt`, `Stopped`, `Retry`, `WakeUp`, `GiveUpRaised`, `GiveUpReturned` | `RetryManager.execute_with_retry`, `RetryPolicy` |

A failure is told apart by what the code asks of it: raised or returned, a
BusinessError or not, declared retryable or not, and the wait it asks for. An
executor that resumes from a checkpoint and fails in doing so crashes. Hooks,
which are only logged when they raise, are left out.

### WorkerPool

LeaderElection's nodes with a pool for those that work. `entry` is what a worker
keeps of a root in `_running_tasks`: queued (polled, the coroutine has not leased
it), held, running, or leaked, when nothing pops it any more. `root`, `lease` and
`cached` are the rows, `registered` the nodes with a row in the registry. A node
that is demoted becomes a worker (`BecomeWorker`), so that every order of leading
and working occurs. The statements of nodes in `Faulty` may raise.

| Actions | Code |
|---|---|
| `Poll`, `Executable`, `EligibleHere` | `_poll_loop`, `_find_executable_tasks`, `PlacementEngine` |
| `Leases`, `Loses`, `AcquireRaises` | `_execute_task`, `acquire_lease` |
| `Begin`, `Conclude`, `Report`, `Interrupts`, `InterruptRaises` | `_execute_and_report`, `_finalize_task`, `recover_lease`, `IdempotencyManager` |
| `BeginClose`, `Close`, `Die`, `StartNode`, `LeaderStep`, `LeaderGone` | `WorkerRuntime.shutdown`, `DistributedRuntime` |
| `CleanUp`, `ExpireRootLease`, `ExpireLeadership` | the leader's janitor, time |

### SchedulerLoop

One `InternalScheduler` object. `poller` is its loop with the batch it has read,
`stopper` the calls of stop that wait, `fires` the coroutines of `_execute_task`,
`due` the definitions whose row is due in the order of `next_run_at`. A manual
trigger works in any state. A stop waits 60 seconds for the fires and then leaves
them to themselves (`by` is "itself" from then on). Two callers may stop it at
once, as the signal handler and `run_scheduler` do. The state `error` is left
out: the reader of the due definitions swallows its failures, so that nothing
leads there.

### TaskTrees, Submission and TaskReuse

**TaskTrees** is the algorithms, as operators over rows: walks of parents and
dependencies, the validation of an array with its depth-first search for cycles,
resolution of effective results through links, the minimal subtree that a clone
takes along, remapping, and the part of a run that a retry executes again. A walk
is a turn of its loop, repeated as often as there are rows (`Iterated`); a turn of
the depth-first search is one call or return of `dfs`, with the open calls as a
stack (`Searched`). A payload is one `content`; a result is the identifier of the
task that produced it.

**Submission** is the protocol around creation and retry. A session asks
(`TaskCreate`, `TaskCreateTree`, `RunRetry`), reads the receipt (`ReadReceipt`),
validates an array and draws its identifiers (`Validate`), and in a later
transaction inserts rows and receipt together (`Insert`, `Derive`), where the unique
key decides who was first. `Execute` ends a root in any way, so that there are runs
to retry.

**TaskReuse** is linking, copying, mixing and archiving: read (`Check`,
`Gather`), clone in memory, save (`Save`); an archive authorizes, locks the root,
reads and freezes (`Authorize`, `LockRoot`, `Read`, `Freeze`). Between the steps
other sessions update, delete, accept and settle what was read, under the guards
of the repository and of `invariants.py`.

## 4. Runs

| Run | Instance | Distinct states | What it shows |
|---|---|---|---|
| `durable` | root + child, 1 dispatcher, 1 worker, 2 tokens | 702,719 | one durable owner, one executor and the inductive invariant behind it; requeued work is untouched, completion has evidence; the refinement of SingleRun |
| `local` | root + child + frozen node, enrolled, 1 dispatcher, 2 requests, 3 tokens, symmetric | 525,277 | the same for a retry run executed in process, with the inductive invariant behind it |
| `progress` | root, 1 dispatcher, 1 worker, 3 tokens, fair | 78,569 | a submission ends, leases return, invocations of open runs settle |
| `shared` | 2 invocations of 2 tasks, one leased | 1,503,900 | balances add up and tasks are charged what was reported; headroom, finality of receipts, order of reservations |
| `cluster` | 2 nodes, 2 leaderships, 2 roots, 1 slot, 2 leases, one node whose statements may raise, fair | 246,900 | leadership passes in order, pools are bounded, leases go back, the cache agrees with the rows, waiting roots are taken |
| `node` | 1 node, 3 slots, 3 leases, cap 2, fair; 8 expressions, half a year | 43,960 | no occurrence lost; none due for ever; slots are the occurrences of the expression |
| `handoff` | 2 nodes, 1 request, 1 slot, 2 leases, cap 2, symmetric | 3,205,792 | the count invariant; a disabled schedule stays so |
| `graph` | 6 trees of 4 tasks, 1 or 3 failing statements, fair | 731,384 | each task once, dependencies first, nothing left running or runnable, the walk ends |
| `calls` | 2 tasks, 3 attempts and checkpoints or 3 dispatches under a downgrade policy, threshold 2, 1 test call, fair | 397,439 | few test calls and only they close the breaker; nothing undeclared is repeated; checkpoints advance; breaker and calls are never stuck |
| `derive` | 7 libraries of 3 or 4 tasks, 16 requests, 2 sessions, 3 operations | 907,675 | clones are faithful and closed, archives whole, frozen and accepted rows stay |
| `submit` | 2 libraries, 4 arrays, 3 selections, 2 sessions, 2 keys, 4 operations, 12 identifiers, symmetric | 925,507 | one receipt for each key and no stray row; acyclic forests; retries reuse what they may |
| `loop` | 3 definitions, 1 slot, 2 starts, 2 callers of stop, fair | 399,172 | one fire of each definition, a stopped scheduler is quiet, calls take effect, what is due longest is fired |

**Bounds.** `MaxToken` caps the executions ever begun: two is one interrupted
owner and its successor, the case every recovery property is about; `local` has a
third, for a request that meets a dispatch and its requeue, which is where two
executors of a run that was not enrolled come from (section 6). Two dispatchers whose
recoveries overlap need a second dispatcher: `RootExecution_polls.cfg` checks the
properties of `local` for two dispatchers, one request and two tokens (1,102,705
states), and the theorems hold of any number. Two nodes are enough for one to be started and the
other not, one in flight and one done; a third, frozen, is what a retry adds. Two
invocations contend for the same headroom; amounts contain zero to cross every
comparison. `MaxLease` caps leaderships: with two, either
node leads, loses it and works beside its successor. Two roots and one slot make
a worker choose and wait; the second root may be taken by one node only; two
leases on roots are one that lapses and the one of its successor. `MaxTime` caps occurrences: one is enough for an
overlap of two fires of it, three for a schedule to reach its cap and go on. The
trees of `graph` are those in which two scans can overlook one dependent, a task
waits for a later group, for a deeper node or for its own parent, and a branch is
dispatched on two paths; `maxFaults` is one, and three in the tree where that
gives up a scan. In `calls` one task has three attempts, two retries with
different waits, and the other is dispatched three times, enough to open the
breaker of two failures and to test it; each task has the kinds of failure that
its half of the code tells apart. `MaxId` and `Calls` cap rows and operations of
the trees: three are a clone, the change of its source and the archive of either;
four, for receipts, are a creation, its execution, its retry and a racing retry.
The libraries hold the shapes in which a dependency leaves the subtree, a link
stands between a task and its result, and a run has been retried before. Three
definitions are one more than a poll reads with one slot; two starts make fires
that outlive a stop. `Months` and `Ticks` are long enough for dates that a month
lacks and for a time of day before, at and after now. The
systems may stop when a bound is used up or all is settled, so no run checks for
deadlock: the progress properties say what must not stop.

**Fairness.** *RootExecution*: a dispatcher that can read an expired row or claim
one does so (its poll loop, `WF`); not every recovery it begins is cut off by a
crash before it writes (`SF` of `RecoverCommit`); an executor that nothing stops
goes on (`WF` of `Progress`; an executor call is assumed to return); a lease
whose token no running process renews expires; the janitor keeps looking. Nobody
has to cancel, crash, submit or come as a worker. *WorkerPool*: a coroutine of a
running node goes on, a worker polls, a leader that lost its row learns it, a
lease that nobody renews runs out (`WF` each); nobody has to start, lead, die or
be shut down, and nothing keeps a worker's statements from raising except on nodes
outside `Faulty`. *ScheduleDispatch*: polls and fires go
on (`WF`), and reading and writing the definition does not fail for ever (`SF`).
*TaskGraph*: the event loop resumes what can go on, and executors
end (`WF`); no statement has to fail. *ExecutorCalls*: time passes, and executor
calls return (`WF`). *SchedulerLoop*: the loop and the calls of stop go on (`WF`)
and reading the due definitions does not fail for ever (`SF`); nothing is assumed
of the fires, which may last for good. Submission and TaskReuse have safety
properties only. Nothing makes an election step happen in
ScheduleDispatch, so that `ScheduleAdvances` claims
progress only while the node dispatches.

## 5. Proofs

TLAPS checks every theorem for all values of the constants that satisfy the ASSUMEs
of the module, which TLC evaluates on its instances. Every inductive invariant was
model-checked on the instance of its run before it was proved. The proofs of two
components that do not build on each other share a module, for which reason
SchedulerLoop and ExecutorCalls name their specifications `LoopSpec` and `CallsSpec`.

**RootExecution_proofs.** `LeaseInvariant` is `LeaseInv`: types, tokens are drawn and
not shared, a dispatch row has an owner exactly while it runs, and `OneDurableOwner`;
`DurableOwnership` follows, for any set of processes. `SingleExecutor` is not
inductive: that nobody else has claimed says nothing about who still can.
`OwnershipInv` adds what every executor can still do: whoever claimed a node is the
present owner unless the run or the dispatch is over (`ClaimantOwns`); a process that
has not begun to execute has claimed nothing (`NotYetClaiming`); started work without
a submission shows in the run row (`StartedShows`), hence a worker's claim can only
meet a run it started itself (`LeasedRunStarted`); and a poll that decided to requeue
is still right when it writes, because an expired lease is never renewed
(`PollIsCurrent`). `Ownership` assumes `Local = {}`: a request holds no row. Where
requests execute (`InProcess`: no worker, and the run was enrolled or no dispatcher is
around) `InProcessExecution` shows another invariant, `InProcessInv`: nothing is begun
while the run or a dispatch waits (`WaitingIsUntouched`), the owner of a running
dispatch is the one that claimed (`DispatchOwns`), and one request executes at most,
in a run it has started and no dispatcher can take up again (`RequestOwns`).
`OneExecutor` (`SingleExecutor`) follows where either invariant holds. Outside both it
is refuted: a janitor does not see a request, and a run row that a request commits
before it starts the run admits a submission in between (section 6).

`EvidenceInvariant` says where evidence comes from: a node has an outcome only beside
the invocation that recorded it, or is frozen, and whoever carries the verdict
"completed" from one transaction to the next has read it of every node, which no later
step takes back. From it `EvidencedCompletion`, and with the ownership invariant
`SafeRecovery` (`RecoveryIsSafe`). This one assumes that either there are no workers
or there are no requests in process: a janitor that recovers a worker's lease under a
request in process puts a started run back in the queue. `SingleRunImplemented`
(`ImplementsSingleRun`) maps every step to a step of SingleRun or to a stutter. The
executor of the abstract run is the token that claimed the started nodes, all the same
one by `OneExecutor`, hence the same hypotheses. That the run is closed with an
outcome its nodes justify needs `OutcomeStands`: the verdict an owner has read is
still what the tree says when the owner writes it.

**ExecutorUsage_proofs**, first of UsageLedger. `Accounting` is the type invariant
with `ConfirmedOnceOver`: only an invocation that is over has evidence, and a
reservation that has evidence is settled. From it `ReceiptsStand` (`ReceiptIsFinal`),
`LiabilitiesNeedEvidence` (`ReservationsAdvance`) and `Headroom`
(`HeadroomRespected`), each over the actions of `Next`. `BooksAddUp` (`AccountsAddUp`)
needs sums over sets of invocations. The library defines them by a fold; what is
proved of them first is that a sum is zero over the empty set, changes with one member
by that member's amount, and splits over disjoint sets. Induction over the set is
replaced by the smallest set that would be a counterexample, so invocations are
assumed finitely many (`IsFiniteSet(Invocation)`). Each action then changes the
amounts of one invocation, and the account by the same.

Of ExecutorCalls: the invariant has two halves. `CoroutinesInv` is about each call
alone: what its coroutine has read, counted and saved so far agrees with its row, with
the cancellation it has or has not seen, and with the tier it was given. `GateInv` is
about the breaker they share: those admitted by its present generation are no more
than the test calls it has counted, since each transition begins a new generation and
makes the admissions of the others old. `BreakerBoundsItsProbes` (`CallsInv`) and
`SafeRetries` (`RetriesAreSafe`) are read off the invariant, `OnlyProbesClose`
(`ClosedByItsProbe`) and `ProgressIsKept` (`CheckpointsAdvance`) off its steps. Calls
are assumed finitely many, for the cardinality of those admitted.

**Scheduling_proofs**, first of ScheduleDispatch and ScheduleCalendar. `HonestCount`
(`CountIsHonest`) is not inductive, since a fire writes a count it read earlier.
`CountInv` budgets: the runs exceed the definition's count by at least the number of
fires that made a run and have not counted it, and likewise the count each writing
fire has read. `CountBudget` proves it, with lemmas on the cardinality of a set of
fires that changes by one. `NothingReenables` (`DisabledStays`) goes over the steps
that write the definition. `NoOccurrenceIsLost` (`OccurrencesRun`) assumes one node
and no request (`Alone`), as the run does: of two fires that read the same definition
the second may write past an occurrence it never fired. Alone, nobody writes the
definition between the reading a fire takes its key from and its own write
(`FireIsOfNext`).

`SlotsFollow` (`SlotsAreOccurrences`) holds of any calendar of months of 28 to 31
days. The days before a month are a recursive function, which is shown to be defined
by induction over numbers in the form `Inductive`, for a set of them: a set of numbers
has a least one. Months then follow each other, so a day lies in one of them and
instants are ordered as their days (`MonthOfDay`, `ClockOrder`). Of each calculator it
is proved that it answers the first occurrence left (`DailyIsFirst`; `WeeklyIsFirst`,
by a day at most a week ahead with the weekday of any other; `MonthlyIsFirst`), and
the first one after a slot is the next slot (`SlotFollows`). `HorizonAssumption` says
that each expression has more occurrences in `Months` than the clock reaches: the
program's calendar does not end, and the model's last month must not be what is proved
about. It leaves out expressions that name no instant at all, which the program
refuses.

Of SchedulerLoop: `OneFireAtATime` (`LoopInv`). `StoppedIsQuiet` is not inductive
alone: two calls of stop may overlap, and the one that ends first must find the loop
over. `OverBeforeDraining` says so: fires are waited for only after the loop has
ended, and nobody starts the scheduler again before the calls of stop have returned.
The code does not enforce the latter: it is an assumption about callers
(`DistributedRuntime`, `run_scheduler` and the command line await them).

**WorkerPool_proofs.** First the election alone. `LeadershipLeases` (`LeadershipInv`):
leases are drawn afresh, so no two nodes hold one; a stale leader's release or renewal
names a token that is no longer in the row, from which `LeadershipKept`
(`LiveLeadershipIsKept`). `PoolElects`: every step of the cluster is a step of the
election or leaves its variables alone, so these theorems hold of it. `Pools`
(`PoolInv`) rests on `TokensAreOwn` (a token is drawn afresh and names one entry,
whence `OneHolder`), and on cardinalities for `PoolIsBounded`: a poll takes no more
than what is free, and nothing else adds an entry. `LeasesGoBack`
(`LeasesAreReturned`) goes over the steps that drop an entry in hand. `CacheIsTrue`
(`CacheAgrees`) rests on two facts: a root that has ended stays as it is, and a worker
that reports writes the cache from what its statement left in the row.

**TaskGraph_proofs.** `Dependencies` (`DependenciesFirst`) and `Once` (`ExecutedOnce`)
follow from `DispatchInv` (`Dispatching`): every coroutine on its way to a claim has
seen the dependencies of that task completed, and no step, of a walk that raises
either, takes a completion back (`MetStays`); a pending task has no attempt.
`OrderedDispatch` puts them together. The proof asks nothing of the tree: the
dependencies may even be cyclic. Steps that move one coroutine go through
`WalkMoveOrFault` and `ExecMove`.

`NothingLeftBehind` (`WalkLeavesNothing`) is about coroutines that await each other,
which seems to ask for induction over call paths. The invariant says it of sets
instead: of any set of walks below the root one is joined by a walk outside of the set
(`Nested`), and of any set of executions in flight one is awaited from outside of it
(`Rooted`). When the root's walk has ended it joins and awaits nobody; the set of all
the others must then be empty. That no runnable task is left is `NoneMissed`: a task
that is pending with its dependencies met is still to be visited by the walk of the
root (`Visits`) or by a scan (`Scans`), unless its claim raised or some scan was given
up. `ProgressRuns` and `TopLeads` carry it over the step in which the walk of the root
begins; `GraphAssumption` says that every other task lies below the root.

**TaskTrees_proofs** is what the other two modules know of the algorithms, for tables
and arrays of any finite size. Loops are reasoned about by induction over the set of
turns at which something holds (`Inductive`, from the least member of a set of
numbers, because the library's induction theorems cannot be instantiated): the turns
are defined (`TurnsExist`) and keep to every set that a single turn does not leave
(`IteratedStays`). A walk that has not ended has found a new node in every turn, so
that as many turns as there are nodes are enough: what is reached is the least set
that contains the start and is closed under the edges (`ReachedLeast`,
`ReachedClosed`). A finite graph is acyclic when every set of its nodes has one with
no edge into the set (`Founded`; `AcyclicIsFounded`, `FoundedIsAcyclic`), the form in
which acyclicity survives unions and renaming. What the search has finished leads to
nothing that is not finished and is founded (`Searching`, `SearchGoesOn`); each node
is pushed and popped once, so that a search that met no cycle has finished every node
(`CircularFounded`). Likewise a climb that ends at no parent for every task excludes a
circle of parents (`ParentsFounded`).

**TaskReuse_proofs.** `SoundReuseSteps` (`ReuseStepsAreSound`) and `WholeArchives`
(`ArchiveIsWhole`) hold for tables of any size and any number of sessions. That history
stays rests on one invariant: `ReuseInv` (`SoundRows`) says of every row what the code
must have written: a task that was executed has inputs and a result, and what is frozen
is whole (`Sound`); the nodes of a run carry a run, which is what protects their
definitions; identifiers are not used twice, so that no clone comes to hang below a
frozen row. It holds of the clones a session has in memory as well, whatever the rows
they were read from have become, since runs are never deleted. That a link stands for a
completed task and not for another link (`EffectiveRow`) is about a loop, as in
TaskTrees_proofs. `LibraryAssumption` says that the tasks at the beginning are sound,
that a run has all rows of its root's tree, as `ensure_run` leaves them, and that the
trees are `Placed` as below.

`FaithfulClones` is `ClonesAreFaithful`. What it says of a clone as a whole is not
inductive, since originals are deleted one by one: a clone all of whose originals are
there now had more of them when it was read. `FaithfulInv` speaks of pairs instead. Two
rows of one tree are `Alike` when they say the same of each other as the rows they were
made from, as long as these are there and belong to one tree; nothing that is deleted,
frozen or added can break that, since rows keep their place and identifiers are not
reused (`LeftPlaced`, `StaysCopied`). That makes `Placed`, of the table, and `Copied`,
of the clones that wait in memory, independent of everything that is committed between
`Gather` and `Save`. Gathered clones are `Copied` (`ClonesCopied`) because a link and
its original are never in one tree, so that of two nodes with originals in one tree
either both are links, whose rows are alike, or neither is, and each is its own
original (`MostOriginalRow`); all nodes are of one tree, since no walk leaves it
(`DescendantsInTree`, `RootInTree`, `AugmentedInTree`). Saved ones are `Placed`
(`SavedPlaced`) because fresh identifiers rename them one to one. The third part of
`ReuseStepsAreSound`, that dependencies come along (`AugmentedIsClosed`), is about the
step that reads them and needs no more than the apartness of trees: everything upstream
is below the root.

**Submission_proofs.** None of the three properties is inductive. `SubmissionInv`
(`SubmissionCorrect`) adds what they rest on. The table is a set of whole trees
(`Forest`): every creation and every retry adds one whose references stay inside and
whose identifiers are new (`ForestJoins`), so that no later row gets into the tree of
an earlier run, and acyclicity of the whole is that of the parts. An array that passed
`WellFormed` is a forest (`CreatedForest`); a retry is its source under a renaming of
identifiers, closed because `Selected` is. What is answered is the receipt that is
stored (`Recorded`), and every row outside the library is in exactly one receipt: from
these `Receipts` (`ReceiptsHold`); `Acyclicity` (`GraphsAreAcyclic`) is a part of
`Forest`. For `Retries` (`RetriesAreSound`) it has to be known that the rows and the
run that a retry was derived from still are what they were: `Derived` says that the
source has ended, and the rows of an ended run are not written again, since only an
accepted run is executed. A link goes on standing for the task that it stood for,
because completed rows stay. The assumptions are about the constants only:
`LibraryAssumption`, that the tables at the beginning are forests without runs whose
rows are numbered, and `DefinitionAssumption`, that an array is a sequence and that
the identifiers a caller may choose are none that `uuid4` draws. The arrays themselves
may be anything: what is wrong with them has to be refused.

**Model-checked only.** Liveness (`SubmissionSettles`, `LeaseReturned`,
`InvocationsSettle`, `StaleLeaderStops` in `LeadershipPasses`, `RootsAreTaken`,
`ScheduleAdvances`, `WalkEnds`, `NothingIsStuck`, `CallsTakeEffect`,
`LongestDueIsFired`), which the prover does not reach: it knows neither fairness nor
ENABLED. Every other property of a run is a theorem.

## 6. Where the code and its documentation disagree

Found while modelling. Each definition is stated in its module and refuted by
TLC on the instance named; the cfg files `*_v_*.cfg` hold the instances of the
first five, which show:

- `UncertainDispatchClosesRun`: a dispatcher whose lease expires before it
  reports leaves an uncertain dispatch over an open run; `run.retry`, which the
  guide prescribes then, refuses open runs.
- `HeldCanBeReconciled`: a process that dies outside a lease leaves its invocation
  running; `budget.reconcile`, prescribed for held reservations, refuses those.
- `SoleDispatcher`: a renewal that raises ends the renewal task, and no code
  observes it: the stale leader goes on dispatching.
- `UrgentFirst`: the priority groups are keyed by `priority or 999`, so that 0,
  "urgent, executes first", is executed last.
- `SlotsReturned`: an entry of the pool is not popped when `acquire_lease` raises
  (`worker.py:276`) or when a renewal had raised (`worker.py:308`): the slot is
  lost until the worker restarts.

The others:

| Definition | Instance | Code | Documentation |
|---|---|---|---|
| `SingleExecutor` | 1 worker, 1 request, no dispatcher, 3 tokens | `lease_manager.py:393` | `docs/architecture/task-orchestration.md:188` |
| `SingleExecutor` | 1 dispatcher, 1 request, run not enrolled, 3 tokens: a submission between the commit of the run row and the start of the run is requeued by recovery under the request | `runs.py:168` | `docs/architecture/task-orchestration.md:188` |
| `LiveOwnerIsNotReconciled` | 1 dispatcher, 1 worker, 2 tokens: the janitor does not look for a dispatch | `lease_manager.py:253` | `docs/architecture/task-orchestration.md:201` |
| `EveryInvocationSettles` | 1 worker, root only, 1 token, fair: an invocation recorded after its run closed | `attempts.py:35` | `docs/architecture/task-orchestration.md:207` |
| `NewLeader` | 2 nodes, 3 leases, fair: a demoted leader is a worker for good | `runtime.py:214` | `docs/features/scheduler.md:300` |
| `CapRespected` | 1 node, cap 1, 2 slots: a run made and not counted is made again | `internal.py:457` | `docs/features/scheduler.md:106` |
| `OnceRunsOnce` | 2 nodes, schedule of type once: a fire that re-reads the completed definition has no slot, hence no key | `internal.py:454` | `docs/features/scheduler.md:315` |
| `ParentLast` | `UrgentTree`, no faults: the scan after the first child executes a parent that names no dependencies | `task_manager.py:1627` | `docs/architecture/task-orchestration.md:264` |
| `KeyedWhenDue` | 1 node, 1 request, 2 slots: a manual fire takes the key of a future occurrence | `webhook.py:359` | `docs/features/scheduler.md:324` |

A retry whose reused results hang below each other and include a link may be
refused by the write guard: `run_retry._clone_nodes` looks up the link's original
while rows are pending, which sends frozen parents to the database before their
children, and `invariants.py:118` refuses those. `docs/features/durable-execution.md:19`
promises the retry. The model has the refusal (`TaskTrees!Flushes`).

Smaller observations, each part of the models unless it says otherwise:

- *Calls.* `docs/features/durable-execution.md:165` has every failure recorded by
  the breaker; `task_manager.py:1694` passes over every BusinessError, network
  errors among them, and an error that is returned instead of raised is not
  recorded either. A database fault before the call is. The budget is checked
  once for each dispatch, not for each retry. A failing `delete_checkpoints` is
  swallowed, so that a completed task may keep its checkpoint.
- *Cluster.* Leaders and observers never heartbeat; nothing reads the status that
  the node clean-up writes, and `get_healthy_nodes`, `release_lease`,
  `cleanup_stale_leader` and `get_current_leader` have no callers. The result cache
  is looked up only for roots that may still be leased, hence never hit.
- *Scheduler.* `start` would accept a paused or stopping scheduler and make a
  second loop; no caller does so, and the model leaves it out. It makes a new
  semaphore, so that fires of an earlier start are not counted.
- *Trees.* Ancestors that a clone takes along lose dependencies that were not
  cloned, where `docs/architecture/task-orchestration.md:89` says that all are
  remapped. After an inner task is deleted, its children hang below nothing: if the
  subtree that is cloned depends on one of them, no minimal subtree is found and the
  subtree is cloned without its outer dependencies, with a warning in the log
  (`task_creator.py:1214`), where the same page says that they are included.
  `DependenciesComeAlong` therefore asks for trees without such gaps, when they are
  read. An array with several roots may make one depend on another, which is
  never satisfied. The loser of two equal submissions with explicit identifiers
  gets an error instead of the receipt. `from_mixed` does not ask linked tasks to
  be completed, and `from_link` with dependents links unfinished ones.
  `delete_task` looks at neither references nor children nor dependents; its
  caller does. Reading whether a run is open precedes the archive's lock.
- *Dead code.* `validate_dependency_references`, `check_dependent_tasks_executing`,
  `reset_task_tree_for_reexecution`, `mark_scheduled_task_running`,
  `is_schedule_valid`, `task_has_references` and the executor's private tree
  builders have no callers and are not modelled.

## 7. Not modelled

What remains of TaskManager is hooks, streaming, trees without a run and
selected subsets; of TaskRepository, filters and statistics; of the schedules,
cron expressions, which a library evaluates, and `schedule.complete` of an external
scheduler; of the cluster, heartbeats and the loop that judges them, whose verdict
nothing reads. Of `governance/`, reports and routing are pure functions of the
rows. Transport, authentication, configuration, migrations, formatting and the
executors themselves (`api/`, `cli/`, `extensions/`, `core/config/`,
`core/storage/factory.py` and `migrations`) are left out: they keep no state that
these processes share. The protocol bridge is modelled down to the refusals that
depend on stored state; its schemas and authorization are request filters. The ORM
fallback of leader election, for SQLite, is outside because distributed mode
requires PostgreSQL. Streaming and the in-memory tracker only observe. Assumed
of the database: a transaction that locks the rows it writes is atomic, and a
unique index rejects the second insertion.
