------------------------------ MODULE TaskGraph ------------------------------
(* How TaskManager walks one tree of a persisted run: the coroutines of      *)
(* _execute_task_tree_recursive, which descend by priority and start what is *)
(* ready side by side, and those of _execute_single_task, which after a      *)
(* completion scan the tree and execute what has become ready. Both dispatch *)
(* the same tasks, some of them several times; the claim decides.            *)
(*                                                                           *)
(* Each database call is a step: with an AsyncSession every one of them      *)
(* yields to the other coroutines. Who owns the tree, cancellation and the   *)
(* death of the process are the subject of RootExecution.                    *)
EXTENDS Naturals, Sequences, FiniteSets

CONSTANTS
  Task,        \* the tasks of the tree
  Root,        \* the task with no parent
  Graph,       \* the trees submitted
  NoTask       \* no task

(* In a tree, above[t] is the set of t's ancestors by parent_id, needs[t] the *)
(* required dependencies, kept the tasks that are completed when the walk     *)
(* begins (a retry run reuses their results). Every other task is below the   *)
(* root. maxFaults is a bound: so many statements may fail in the run.        *)
ASSUME GraphAssumption ==
  /\ Root \in Task
  /\ NoTask \notin Task
  /\ Graph \subseteq [above : [Task -> SUBSET Task], priority : [Task -> 0 .. 3],
                      needs : [Task -> SUBSET Task], kept : SUBSET Task,
                      maxFaults : Nat]
  /\ \A g \in Graph : \A t \in Task \ {Root} : Root \in g.above[t]

Status == {"pending", "in_progress", "completed", "failed"}

\* execute_after_task is tried so often.
MaxTries == 3

VARIABLES
  graph,       \* the tree of this run: chosen at the start, then constant
  status,      \* tasks.status
  attempt,     \* tasks.attempt_id, 0 before the run
  exec,        \* the _execute_single_task call that won the claim of a task
  walk,        \* the running _execute_task_tree_recursive calls, by call path
  faults,      \* statements that failed
  unclaimed    \* tasks a claim of which raised

vars == <<graph, status, attempt, exec, walk, faults, unclaimed>>

-----------------------------------------------------------------------------
\* A call path names the task walked last; the paths below it are its branches.
Walked(f) == f[Len(f)]
Branches(f) == {Append(f, c) : c \in walk[f].ready}

\* The walk distribute_task_tree begins, the hooks of the tree around it: what it raises
\* goes on to the caller.
Top == <<Root>>

Below(t) == {u \in Task : t \in graph.above[u]}

\* Faulty variant: a dependency that failed is over as well.
SatisfiedOnceOver(t) == \A d \in graph.needs[t] : status[d] \in {"completed", "failed"}
Satisfied(t) == \A d \in graph.needs[t] : status[d] = "completed"

\* The key of the priority groups is "priority or 999": 0 counts as missing.
Rank(t) == IF graph.priority[t] = 0 THEN 999 ELSE graph.priority[t]

\* _add_children_to_priority_groups: the groups are of the whole subtree, whatever lies
\* between, and leave out what a run has completed.
Included(u) == status[u] # "completed"
ToDispatch(t) == {u \in Below(t) : Included(u)}
FirstGroup(S) == {t \in S : \A u \in S : Rank(t) <= Rank(u)}

\* Faulty variant: a failed task, which the walk still dispatches, is claimed again.
ClaimableAgain(t) == status[t] \in {"pending", "failed"}
\* The compare-and-swap of try_claim_for_execution, and what its winner starts.
Claimable(t) == status[t] = "pending"
NewExec(state) == [at |-> state, scan |-> {}, on |-> NoTask, tries |-> 0]
NewWalk(state) == [at |-> state, later |-> {}, unchecked |-> {}, ready |-> {}]

Init ==
  /\ graph \in Graph
  /\ status = [t \in Task |-> IF t \in graph.kept THEN "completed" ELSE "pending"]
  /\ attempt = [t \in Task |-> 0]
  /\ exec = [t \in Task |-> NewExec("idle")]
  /\ walk = [f \in {Top} |-> NewWalk("enter")]
  /\ faults = 0
  /\ unclaimed = {}

At(f, state) == f \in DOMAIN walk /\ walk[f].at = state
Go(f, state) == walk' = [walk EXCEPT ![f].at = state]
Fault == faults < graph.maxFaults /\ faults' = faults + 1

-----------------------------------------------------------------------------
(* The walk of a node.                                                       *)

\* A node that another coroutine is executing is not walked; a completed one
\* is, for its descendants.
Enter(f) ==
  /\ At(f, "enter")
  /\ IF status[Walked(f)] = "in_progress"
     THEN Go(f, "returned")
     ELSE walk' = [walk EXCEPT ![f].at = "next", ![f].later = ToDispatch(Walked(f))]
  /\ UNCHANGED <<graph, status, attempt, exec, faults, unclaimed>>

NextGroup(f) ==
  /\ At(f, "next")
  /\ walk[f].later # {}
  /\ LET group == FirstGroup(walk[f].later)
     IN  walk' = [walk EXCEPT ![f].at = "check", ![f].unchecked = group,
                              ![f].later = @ \ group, ![f].ready = {}]
  /\ UNCHANGED <<graph, status, attempt, exec, faults, unclaimed>>

\* A task that has to wait is left to the scan after the last of its dependencies.
CheckOne(f, t) ==
  /\ At(f, "check")
  /\ t \in walk[f].unchecked
  /\ walk' = [walk EXCEPT ![f].unchecked = @ \ {t},
                          ![f].ready = IF Satisfied(t) THEN @ \cup {t} ELSE @]
  /\ UNCHANGED <<graph, status, attempt, exec, faults, unclaimed>>

\* The ready tasks of a group are executed side by side, each before its own walk.
Launch(f) ==
  /\ At(f, "check")
  /\ walk[f].unchecked = {}
  /\ walk' = [g \in DOMAIN walk \cup Branches(f) |->
                IF g \in Branches(f) THEN NewWalk("branch")
                ELSE IF g = f THEN [walk[f] EXCEPT !.at = "join"] ELSE walk[g]]
  /\ UNCHANGED <<graph, status, attempt, exec, faults, unclaimed>>

\* An exception of the walk: the node is failed, even while another coroutine
\* executes it, and the exception goes on to the caller.
Raise(f, frames) ==
  /\ status' = IF status[Walked(f)] \in {"pending", "in_progress"}
               THEN [status EXCEPT ![Walked(f)] = "failed"] ELSE status
  /\ walk' = [g \in frames |-> IF g = f THEN [walk[f] EXCEPT !.at = "raised"] ELSE walk[g]]

\* Faulty variant: gather without return_exceptions, which raises at once.
JoinFirstRaise(f) ==
  /\ At(f, "join")
  /\ LET rest == DOMAIN walk \ Branches(f)
     IN  \/ /\ \E g \in Branches(f) : walk[g].at = "raised"
            /\ Raise(f, rest)
         \/ /\ \A g \in Branches(f) : walk[g].at = "returned"
            /\ walk' = [g \in rest |->
                          IF g = f THEN [walk[f] EXCEPT !.at = "next"] ELSE walk[g]]
            /\ UNCHANGED status
  /\ UNCHANGED <<graph, attempt, exec, faults, unclaimed>>

\* All branches settle before the first exception is raised again.
Join(f) ==
  /\ At(f, "join")
  /\ \A g \in Branches(f) : walk[g].at \in {"returned", "raised"}
  /\ LET rest == DOMAIN walk \ Branches(f)
     IN  IF \E g \in Branches(f) : walk[g].at = "raised"
         THEN Raise(f, rest)
         ELSE /\ walk' = [g \in rest |->
                            IF g = f THEN [walk[f] EXCEPT !.at = "next"] ELSE walk[g]]
              /\ UNCHANGED status
  /\ UNCHANGED <<graph, attempt, exec, faults, unclaimed>>

\* After the groups, the node itself.
CheckSelf(f) ==
  /\ At(f, "next")
  /\ walk[f].later = {}
  /\ Go(f, IF Satisfied(Walked(f)) /\ status[Walked(f)] # "completed"
           THEN "self" ELSE "returned")
  /\ UNCHANGED <<graph, status, attempt, exec, faults, unclaimed>>

\* The statement that reads the completed tasks fails.
CheckRaises(f) ==
  /\ \/ At(f, "check") /\ walk[f].unchecked # {}
     \/ At(f, "next") /\ walk[f].later = {}
  /\ Raise(f, DOMAIN walk)
  /\ Fault
  /\ UNCHANGED <<graph, attempt, exec, unclaimed>>

\* The call of _execute_single_task: in a branch the walk of the task follows,
\* at the end of a walk nothing does.
Calling == {"branch", "self"}
Waiting == {"branch_wait", "self_wait"}
AwaitOf(state) == IF state = "branch" THEN "branch_wait" ELSE "self_wait"
AfterCall(state) == IF state \in {"branch", "branch_wait"} THEN "enter" ELSE "returned"

Start(t) ==
  /\ Claimable(t)
  /\ status' = [status EXCEPT ![t] = "in_progress"]
  /\ attempt' = [attempt EXCEPT ![t] = @ + 1]

Dispatch(f) ==
  /\ f \in DOMAIN walk
  /\ walk[f].at \in Calling
  /\ IF Claimable(Walked(f))
     THEN /\ Start(Walked(f))
          /\ exec' = [exec EXCEPT ![Walked(f)] = NewExec("running")]
          /\ Go(f, AwaitOf(walk[f].at))
     ELSE Go(f, AfterCall(walk[f].at)) /\ UNCHANGED <<status, attempt, exec>>
  /\ UNCHANGED <<graph, faults, unclaimed>>

\* A claim that raises is logged by _execute_single_task, which returns as usual.
DispatchRaises(f) ==
  /\ f \in DOMAIN walk
  /\ walk[f].at \in Calling
  /\ Go(f, AfterCall(walk[f].at))
  /\ unclaimed' = unclaimed \cup {Walked(f)}
  /\ Fault
  /\ UNCHANGED <<graph, status, attempt, exec>>

Awaited(f) ==
  /\ f \in DOMAIN walk
  /\ walk[f].at \in Waiting
  /\ exec[Walked(f)].at = "done"
  /\ Go(f, AfterCall(walk[f].at))
  /\ UNCHANGED <<graph, status, attempt, exec, faults, unclaimed>>

-----------------------------------------------------------------------------
(* The execution of a claimed task, and the scan after it.                   *)

\* The outcome is written only over in_progress; only a completion is followed up.
Finish(t, outcome) ==
  /\ exec[t].at = "running"
  /\ status' = IF status[t] = "in_progress" THEN [status EXCEPT ![t] = outcome] ELSE status
  /\ exec' = [exec EXCEPT ![t].at =
                IF status[t] = "in_progress" /\ outcome = "completed" THEN "after" ELSE "done"]
  /\ UNCHANGED <<graph, attempt, walk, faults, unclaimed>>

\* Faulty variant: only what lies below the completed task is looked at.
ToScanBelow(t) == {u \in Below(t) : status[u] \in {"pending", "in_progress"}}

ToScan(t) == {u \in Task \ {t} : status[u] \in {"pending", "in_progress"}}

ReadTree(t) ==
  /\ exec[t].at = "after"
  /\ exec' = [exec EXCEPT ![t].at = "look", ![t].scan = ToScan(t)]
  /\ UNCHANGED <<graph, status, attempt, walk, faults, unclaimed>>

\* Faulty variant: a completion executes what waits without asking what else it needs.
ScanUnasked(t, u) ==
  /\ exec[t].at = "look"
  /\ u \in exec[t].scan
  /\ exec' = [exec EXCEPT ![t].scan = @ \ {u}, ![t].at = "call", ![t].on = u]
  /\ UNCHANGED <<graph, status, attempt, walk, faults, unclaimed>>

ScanOne(t, u) ==
  /\ exec[t].at = "look"
  /\ u \in exec[t].scan
  /\ exec' = [exec EXCEPT ![t].scan = @ \ {u},
                          ![t].at = IF Satisfied(u) THEN "call" ELSE "look",
                          ![t].on = IF Satisfied(u) THEN u ELSE @]
  /\ UNCHANGED <<graph, status, attempt, walk, faults, unclaimed>>

\* The scan is begun again, up to three times, and then given up.
ScanRaises(t) ==
  /\ exec[t].at \in {"after", "look"}
  /\ exec[t].at = "look" => exec[t].scan # {}
  /\ exec' = [exec EXCEPT ![t].tries = @ + 1, ![t].scan = {},
                          ![t].at = IF exec[t].tries + 1 < MaxTries THEN "after" ELSE "done"]
  /\ Fault
  /\ UNCHANGED <<graph, status, attempt, walk, unclaimed>>

\* The dependent is executed by, and awaited in, the coroutine of the scan.
Trigger(t) ==
  /\ exec[t].at = "call"
  /\ LET u == exec[t].on
     IN  IF Claimable(u)
         THEN /\ Start(u)
              /\ exec' = [exec EXCEPT ![t].at = "wait", ![u] = NewExec("running")]
         ELSE exec' = [exec EXCEPT ![t].at = "look"] /\ UNCHANGED <<status, attempt>>
  /\ UNCHANGED <<graph, walk, faults, unclaimed>>

TriggerRaises(t) ==
  /\ exec[t].at = "call"
  /\ exec' = [exec EXCEPT ![t].at = "look"]
  /\ unclaimed' = unclaimed \cup {exec[t].on}
  /\ Fault
  /\ UNCHANGED <<graph, status, attempt, walk>>

\* Faulty variant: the scan waits for a dependent that completes.
TriggeredByCompletion(t) ==
  /\ exec[t].at = "wait"
  /\ exec[exec[t].on].at = "done" /\ status[exec[t].on] = "completed"
  /\ exec' = [exec EXCEPT ![t].at = "look"]
  /\ UNCHANGED <<graph, status, attempt, walk, faults, unclaimed>>

Triggered(t) ==
  /\ exec[t].at = "wait"
  /\ exec[exec[t].on].at = "done"
  /\ exec' = [exec EXCEPT ![t].at = "look"]
  /\ UNCHANGED <<graph, status, attempt, walk, faults, unclaimed>>

EndScan(t) ==
  /\ exec[t].at = "look"
  /\ exec[t].scan = {}
  /\ exec' = [exec EXCEPT ![t].at = "done"]
  /\ UNCHANGED <<graph, status, attempt, walk, faults, unclaimed>>

-----------------------------------------------------------------------------
WalkStep(f) ==
  \/ Enter(f) \/ NextGroup(f) \/ Launch(f) \/ Join(f) \/ CheckSelf(f)
  \/ Dispatch(f) \/ Awaited(f)
  \/ \E t \in Task : CheckOne(f, t)

ExecStep(t) ==
  \/ ReadTree(t) \/ Trigger(t) \/ Triggered(t) \/ EndScan(t)
  \/ \E outcome \in {"completed", "failed"} : Finish(t, outcome)
  \/ \E u \in Task : ScanOne(t, u)

Failure ==
  \/ \E f \in DOMAIN walk : CheckRaises(f) \/ DispatchRaises(f)
  \/ \E t \in Task : ScanRaises(t) \/ TriggerRaises(t)

Next ==
  \/ \E f \in DOMAIN walk : WalkStep(f)
  \/ \E t \in Task : ExecStep(t)
  \/ Failure

Spec == Init /\ [][Next]_vars

\* The event loop resumes every coroutine that can go on, and executors end.
FairSpec ==
  /\ Spec
  /\ WF_vars(\E f \in DOMAIN walk : WalkStep(f))
  /\ \A t \in Task : WF_vars(ExecStep(t))

-----------------------------------------------------------------------------
WalkState == {"branch", "branch_wait", "enter", "next", "check", "join", "self",
              "self_wait", "returned", "raised"}
ExecState == {"idle", "running", "after", "look", "call", "wait", "done"}

\* The types of the variables.
TypeOK ==
  /\ graph \in Graph
  /\ status \in [Task -> Status]
  /\ attempt \in [Task -> Nat]
  /\ exec \in [Task -> [at : ExecState, scan : SUBSET Task, on : Task \cup {NoTask},
                        tries : 0 .. MaxTries]]
  /\ \A f \in DOMAIN walk :
       /\ f \in Seq(Task) /\ f # << >>
       /\ walk[f] \in [at : WalkState, later : SUBSET Task,
                       unchecked : SUBSET Task, ready : SUBSET Task]
  /\ faults \in 0 .. graph.maxFaults
  /\ unclaimed \subseteq Task

\* A task is executed only after all of its required dependencies completed:
\* between the check and the claim other coroutines run, and a dependency that
\* was read as completed stays so, also when a walk raises.
DependenciesFirst ==
  \A t \in Task, d \in Task :
    exec[t].at # "idle" /\ d \in graph.needs[t] => status[d] = "completed"

\* A task of a run is claimed at most once, however often it is dispatched: by
\* the groups of each of its ancestors, by its own walk and by every scan.
ExecutedOnce == \A t \in Task : attempt[t] <= 1

\* What the two rest on, step by step: whoever is about to claim a task has seen
\* its dependencies completed, and a pending task has not been started.
Met(t) == \A d \in graph.needs[t] : status[d] = "completed"
DispatchInv ==
  /\ \A t \in Task : status[t] = "pending" => attempt[t] = 0 /\ exec[t].at = "idle"
  /\ ExecutedOnce
  /\ \A t \in Task : exec[t].at # "idle" => Met(t)
  /\ \A t \in Task : exec[t].at \in {"call", "wait"} => exec[t].on \in Task
  /\ \A t \in Task : exec[t].at = "call" => Met(exec[t].on)
  /\ \A t \in Task : exec[t].at # "done" => exec[t].tries < MaxTries
  /\ \A f \in DOMAIN walk : \A t \in walk[f].ready : Met(t)
  /\ \A f \in DOMAIN walk : walk[f].at \in Calling => Met(Walked(f))

\* Together: who dispatches a task, how often and in which order the coroutines run
\* decides neither whether its dependencies are met nor how often it is executed.
DispatchedInOrder == TypeOK /\ DispatchInv /\ DependenciesFirst

Ended == Top \in DOMAIN walk /\ walk[Top].at \in {"returned", "raised"}

\* When the walk of the root is over no coroutine of the tree is left behind: an
\* exception in one branch does not leave another one running.
NothingRuns ==
  Ended => \A t \in Task : exec[t].at \in {"idle", "done"} /\ status[t] # "in_progress"

\* A walk that returns leaves no task pending that could run: of dependencies
\* that complete side by side one scan sees them all. Excepted are a task whose
\* claim itself failed, which nobody repeats, and a scan that failed three times.
NothingIsLeft ==
  At(Top, "returned") /\ (\A t \in Task : exec[t].tries < MaxTries) =>
    \A t \in Task \ unclaimed : status[t] = "pending" =>
      \E d \in graph.needs[t] : status[d] # "completed"

\* What a walk leaves behind when it is over: no coroutine, and no task that could
\* have been executed (task_manager.py, _execute_priority_group, execute_after_task).
WalkLeavesNothing == NothingRuns /\ NothingIsLeft

\* The walk of a tree ends: coroutines that await each other never form a cycle.
WalkEnds == <>Ended

-----------------------------------------------------------------------------
(* What the documentation says and the code does not do.                    *)

\* Priorities are 0 (urgent, executes first) to 3: no task of a later group of the
\* same walk is more urgent than one that is executed now. Refuted by Rank.
UrgentFirst ==
  \A f \in DOMAIN walk : walk[f].at = "join" =>
    \A t \in walk[f].ready, u \in walk[f].later : graph.priority[t] <= graph.priority[u]

\* A parent is executed after its children: none is running when it starts.
\* Refuted by the scan after the first child, which executes every ready task.
ParentLast ==
  [][\A t \in Task : status[t] = "pending" /\ status'[t] = "in_progress" =>
       \A u \in Below(t) : exec[u].at # "running"]_vars
=============================================================================
