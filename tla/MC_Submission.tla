---------------------------- MODULE MC_Submission ----------------------------
\* Small instances of Submission: arrays with and without mistakes, and trees
\* that failed before there were runs.
EXTENDS Submission

CONSTANTS a, b, c     \* names of tasks

Task(name, id, parent, deps) ==
  [name |-> name, id |-> id, parent |-> parent, deps |-> deps]

Definitions ==
  {<<Task(a, NoTask, NoTask, {}), Task(b, 102, a, {}), Task(c, NoTask, a, {102})>>,
   <<Task(a, NoTask, NoTask, {b}), Task(b, NoTask, a, {a})>>,
   <<Task(a, NoTask, NoTask, {}), Task(b, NoTask, c, {}), Task(c, NoTask, b, {})>>,
   <<Task(a, 101, NoTask, {})>>}

Row(parent, deps, status) ==
  [NewRow("create", "given") EXCEPT !.parent = parent, !.deps = deps, !.tree = 1,
                                    !.status = status]

Executed(R) == [i \in DOMAIN R |->
                  IF R[i].status = "completed" THEN [R[i] EXCEPT !.result = i] ELSE R[i]]

\* 3 and 4 after 2, all below the root; 4 failed.
Failed == Executed(<<Row(NoTask, {}, "completed"), Row(1, {}, "completed"),
                     Row(1, {2}, "completed"), Row(1, {2}, "failed")>>)

\* A tree whose process was lost while it executed 3. Below 2 hangs a link to 5,
\* a task that was executed in another tree.
Lost == [Executed(<<Row(NoTask, {}, "completed"), Row(1, {}, "completed"),
                    Row(1, {2}, "in_progress"), Row(2, {}, "completed"),
                    Row(NoTask, {}, "completed")>>)
           EXCEPT ![4].origin = "link", ![4].content = "none", ![4].result = NoTask,
                  ![4].original = 5, ![5].tree = 5]

Libraries == {Failed, Lost}

Selections == {{}, {2}, {4}}

\* Neither the sessions nor the keys are told apart.
Symmetry == Permutations(Session) \cup Permutations(Key)
=============================================================================
