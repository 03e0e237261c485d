---------------------------- MODULE MC_TaskReuse ----------------------------
\* Small libraries for TaskReuse: trees of three or four tasks, a tree that holds
\* a link to a task executed in another tree, and the trees of a run and its retry.
EXTENDS TaskReuse

Row(parent, deps, tree, status) ==
  [NewRow("create", "given") EXCEPT !.parent = parent, !.deps = deps, !.tree = tree,
                                    !.status = status]

Executed(R) == [i \in DOMAIN R |->
                  IF R[i].status = "completed" /\ R[i].origin # "link"
                  THEN [R[i] EXCEPT !.result = i] ELSE R[i]]

\* 2 and 3 below the root, 3 after 2.
Fan(status) == Executed(<<Row(NoTask, {}, 1, status), Row(1, {}, 1, "completed"),
                          Row(1, {2}, 1, "completed")>>)

\* The root waits for two leaves, one of which its third child waits for.
Wide == Executed(<<Row(NoTask, {3, 4}, 1, "completed"), Row(1, {3}, 1, "completed"),
                   Row(1, {}, 1, "completed"), Row(1, {}, 1, "completed")>>)

\* A leaf below 2 waits for a task outside of that branch.
Nested == Executed(<<Row(NoTask, {}, 1, "completed"), Row(1, {}, 1, "completed"),
                     Row(2, {4}, 1, "completed"), Row(1, {}, 1, "completed")>>)

\* 2 is a link to 3, made when that was completed.
Linked(status) ==
  Executed(<<Row(NoTask, {2}, 1, status),
             [Row(1, {}, 1, "completed") EXCEPT !.origin = "link", !.content = "none",
                                                !.original = 3],
             [Row(NoTask, {}, 3, "completed") EXCEPT !.referenced = TRUE]>>)

\* The failed run of 3 and 4, and its retry that reused the result of 4.
Retried ==
  <<[Row(NoTask, {2}, 1, "completed") EXCEPT !.origin = "copy", !.result = 1,
        !.original = 3, !.source = 3, !.run = 1],
    [Row(1, {}, 1, "completed") EXCEPT !.origin = "link", !.result = 4,
        !.original = 4, !.source = 4, !.run = 1, !.frozen = TRUE],
    [Row(NoTask, {4}, 3, "failed") EXCEPT !.run = 3],
    [Row(3, {}, 3, "completed") EXCEPT !.result = 4, !.run = 3]>>

Libraries == {Fan("pending"), Fan("completed"), Wide, Nested,
              Linked("pending"), Linked("completed"), Retried}

\* Clones and archives of roots and inner tasks, whole or single; some take what
\* depends on them along, or insist that they depend on nothing outside.
Usual(op, tasks, links, bridged) ==
  {[op |-> op, task |-> t, whole |-> w, links |-> links, auto |-> TRUE, dependents |-> FALSE,
    bridged |-> bridged] : t \in tasks, w \in BOOLEAN}

Closely(op, t, auto, dependents) ==
  [op |-> op, task |-> t, whole |-> TRUE, links |-> {}, auto |-> auto,
   dependents |-> dependents, bridged |-> FALSE]

Requests ==
  Usual("link", {1, 3, 4}, {}, TRUE) \cup Usual("copy", {2, 3, 4}, {}, TRUE)
    \cup Usual("mixed", {1, 2}, {2}, TRUE) \cup Usual("archive", {1, 2, 4}, {}, TRUE)
    \cup Usual("archive", {1}, {}, FALSE)
    \cup {Closely("copy", 2, FALSE, FALSE), Closely("archive", 2, FALSE, FALSE),
          Closely("link", 3, TRUE, TRUE)}
=============================================================================
