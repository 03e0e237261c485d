------------------------------ MODULE TaskTrees ------------------------------
(***************************************************************************)
(* The algorithms that task creation, cloning and run retry are built      *)
(* from, as operators over the rows of the task table: the walks of the    *)
(* parent and dependency edges, the validation of a submitted array, the   *)
(* subtree a clone takes along, the rows a clone consists of, and the part *)
(* of a run that a retry executes again.                                   *)
(*                                                                         *)
(* Sources: core/execution/task_creator.py, core/execution/run_retry.py,   *)
(* core/validator/dependency_validator.py, core/types.py and the readers   *)
(* of core/storage/sqlalchemy/task_repository.py.                          *)
(*                                                                         *)
(* Names, inputs, params, priorities and every other payload of a task are *)
(* one "content" that is given, edited or, for a link, absent; a result is *)
(* the identifier of the task whose execution produced it.                 *)
(***************************************************************************)
EXTENDS Integers, SequencesExt

CONSTANT
  NoTask      \* the null identifier, and the refusal of an operator

-----------------------------------------------------------------------------
(* Walks. *)

\* What n rounds of a loop make of x. The loops below end by themselves: the number
\* of rows is as many rounds as any of them takes.
Iterated(step, x, n) ==
  LET after[k \in Nat] == IF k = 0 THEN x ELSE step[after[k - 1]] IN after[n]

\* Everything that is reached from the set s by the edges of next.
Reached(next, s) ==
  Iterated([t \in SUBSET DOMAIN next |-> t \cup UNION {next[i] : i \in t}],
           s, Cardinality(DOMAIN next))

\* Nothing is reached from itself.
Acyclic(next) == \A i \in DOMAIN next : i \notin Reached(next, next[i])

\* f, and what g has besides: @@ of the module TLC, in a form to reason about.
Over(f, g) == [i \in DOMAIN f \cup DOMAIN g |-> IF i \in DOMAIN f THEN f[i] ELSE g[i]]

Children(R, t) == {i \in DOMAIN R : R[i].parent = t}

\* build_task_tree: the node and everything below it.
Descendants(R, t) == Reached([i \in DOMAIN R |-> Children(R, i)], {t})

\* get_root_task: up the parents, as far as they exist.
RootOf(R, t) ==
  Iterated([i \in DOMAIN R |-> IF R[i].parent \in DOMAIN R THEN R[i].parent ELSE i],
           t, Cardinality(DOMAIN R))

\* get_all_tasks_in_tree: by the tree identifier for a root, else downwards.
AllInTree(R, root) ==
  IF R[root].parent = NoTask
  THEN {i \in DOMAIN R : R[i].tree = R[root].tree}
  ELSE Descendants(R, root)

AllCompleted(R, nodes) == \A i \in nodes : R[i].status = "completed"

\* The rows of the set that depend on each row of it.
Dependents(R, nodes) == [i \in nodes |-> {j \in nodes : i \in R[j].deps}]

-----------------------------------------------------------------------------
(* Validation of a submitted array of tasks.                               *)
(* A definition is a sequence of records [name, id, parent, deps] whose    *)
(* references are names or identifiers.                                    *)

\* What a depth-first search keeps: the calls that are open, the innermost last, the
\* nodes that are finished, and whether a node was met inside its own call.
Search(g) == [stack : Seq(DOMAIN g), visited : SUBSET DOMAIN g, cyclic : BOOLEAN]

\* Faulty variant: a node is marked visited when it is entered.
EnteredMarked(s, node) == [s EXCEPT !.stack = Append(@, node), !.visited = @ \cup {node}]

\* dfs is called for a node that is not visited.
Entered(s, node) ==
  IF \E k \in DOMAIN s.stack : s.stack[k] = node
  THEN [s EXCEPT !.cyclic = TRUE] ELSE [s EXCEPT !.stack = Append(@, node)]

\* One call or return of dfs in _detect_circular_dependencies_fast: the innermost call
\* goes on with a neighbour that is not visited, or its node is finished; between the
\* calls the search goes on with any node that is left.
Searched(g, s) ==
  LET top == Last(s.stack)
      ahead == (IF s.stack = << >> THEN DOMAIN g ELSE g[top]) \ s.visited
  IN  IF s.cyclic THEN s
      ELSE IF ahead # {} THEN Entered(s, CHOOSE n \in ahead : TRUE)
      ELSE IF s.stack = << >> THEN s
      ELSE [s EXCEPT !.stack = Front(@), !.visited = @ \cup {top}]

\* Every node is entered and finished once, unless a cycle is met.
Circular(g) ==
  Iterated([s \in Search(g) |-> Searched(g, s)],
           [stack |-> << >>, visited |-> {}, cyclic |-> FALSE],
           2 * Cardinality(DOMAIN g) + 1).cyclic

\* _validate_parent_ids_acyclic: from every task up to one without a parent.
ClimbsToRoot(parentOf, node) ==
  Iterated([i \in DOMAIN parentOf \cup {NoTask} |-> IF i = NoTask THEN NoTask ELSE parentOf[i]],
           node, Cardinality(DOMAIN parentOf)) = NoTask

ParentsAcyclic(parentOf) == \A i \in DOMAIN parentOf : ClimbsToRoot(parentOf, i)

\* The identifiers of an array: those given, else fresh ones from n on.
Identifiers(def, n) ==
  [k \in DOMAIN def |-> IF def[k].id = NoTask THEN n + k - 1 ELSE def[k].id]

\* A reference is an identifier of the array, else a name of it.
Meant(def, ids, ref) ==
  IF \E k \in DOMAIN def : ids[k] = ref THEN ref
  ELSE IF \E k \in DOMAIN def : def[k].name = ref
       THEN ids[CHOOSE k \in DOMAIN def : def[k].name = ref]
       ELSE NoTask

\* task_dicts_to_task_models: the parents and dependencies by identifier.
Resolved(def, n) ==
  LET ids == Identifiers(def, n)
  IN  [i \in {ids[k] : k \in DOMAIN def} |->
         LET d == def[CHOOSE k \in DOMAIN def : ids[k] = i]
         IN  [parent |-> Meant(def, ids, d.parent),
              deps |-> {Meant(def, ids, r) : r \in d.deps}]]

\* _build_dependency_graph: what is no task of the array is left out.
DependencyGraph(tasks) == [i \in DOMAIN tasks |-> tasks[i].deps \cap DOMAIN tasks]

\* _find_transitive_dependents, of the array and of a stored tree.
Downstream(R, all, nodes) == Reached([i \in all |-> {j \in all : i \in R[j].deps}], nodes)

\* validate_dependent_task_inclusion. It cannot fail: the dependents are looked
\* for among the tasks of the array only.
IncludesDependents(tasks) == Downstream(tasks, DOMAIN tasks, DOMAIN tasks) \subseteq DOMAIN tasks

\* What task_dicts_to_task_models accepts.
WellFormed(def, n) ==
  LET ids == Identifiers(def, n)
      known(r) == Meant(def, ids, r) # NoTask
      tasks == Resolved(def, n)
  IN  /\ \A j, k \in DOMAIN def : j # k => def[j].name # def[k].name /\ ids[j] # ids[k]
      /\ \E k \in DOMAIN def : def[k].parent = NoTask
      /\ \A k \in DOMAIN def : /\ def[k].parent # NoTask => known(def[k].parent)
                               /\ \A r \in def[k].deps : known(r)
      /\ ParentsAcyclic([i \in DOMAIN tasks |-> tasks[i].parent])
      /\ ~Circular(DependencyGraph(tasks))
      /\ IncludesDependents(tasks)

-----------------------------------------------------------------------------
(* Rows. *)

\* The columns of a row, as far as they matter here.
Columns == {"origin", "status", "content", "result", "parent", "deps", "tree", "original",
            "source", "run", "frozen", "referenced"}

\* _fresh_execution_fields, with the defaults of a new row.
NewRow(origin, content) ==
  [origin |-> origin, status |-> "pending", content |-> content, result |-> NoTask,
   parent |-> NoTask, deps |-> {}, tree |-> NoTask, original |-> NoTask,
   source |-> NoTask, run |-> NoTask, frozen |-> FALSE, referenced |-> FALSE]

\* The rows of an accepted array; a tree is named after its root.
CreatedRows(def, n) ==
  LET tasks == Resolved(def, n)
  IN  [i \in DOMAIN tasks |->
         [NewRow("create", "given") EXCEPT
            !.parent = tasks[i].parent, !.deps = tasks[i].deps, !.tree = RootOf(tasks, i)]]

\* One fresh identifier, from n on, for every member of the set.
Fresh(ids, n) ==
  LET s == SetToSeq(ids)
  IN  [i \in ids |-> n + (CHOOSE k \in DOMAIN s : s[k] = i) - 1]

\* A link to follow: a frozen one is a result of its own.
Follows(row) == row.origin = "link" /\ ~row.frozen

\* The completed task that following the links from i ends at.
EndOfLinks(R, i) ==
  LET completed == {j \in DOMAIN R : R[j].status = "completed"}
  IN  Iterated([j \in completed |-> IF Follows(R[j]) /\ R[j].original \in completed
                                    THEN R[j].original ELSE j],
               i, Cardinality(completed))

\* resolve_effective_task: the completed task whose data a link stands for. What
\* follows no link is its own; links that end at no completed task, or lead in a
\* circle, stand for nothing.
Unresolved == NewRow("none", "none")
Effective(R, row) ==
  IF row.frozen /\ row.status # "completed" THEN Unresolved
  ELSE IF ~Follows(row) THEN row
  ELSE IF row.original \notin DOMAIN R \/ R[row.original].status # "completed" THEN Unresolved
  ELSE LET end == R[EndOfLinks(R, row.original)]
       IN  IF Follows(end) THEN Unresolved ELSE end

Resolves(R, row) == Effective(R, row).origin # "none"

\* Faulty variant: a link points at the link it was made from.
MostOriginalDirect(R, i) == IF i \in DOMAIN R THEN i ELSE NoTask

\* _get_original_task_for_link: links are followed, copies are not.
MostOriginal(R, i) ==
  Iterated([j \in DOMAIN R \cup {NoTask} |->
              IF j = NoTask \/ R[j].origin # "link" \/ R[j].original = NoTask THEN j
              ELSE IF R[j].original \in DOMAIN R THEN R[j].original ELSE NoTask],
           i, Cardinality(DOMAIN R))

-----------------------------------------------------------------------------
(* Cloning. *)

\* Faulty variant: the dependencies of the root of the subtree only.
UpstreamOfTop(R, nodes) ==
  UNION {R[i].deps : i \in {j \in nodes : R[j].parent \notin nodes}} \cap DOMAIN R

\* _find_dependency_tasks_for_identifiers.
Upstream(R, nodes) ==
  Reached([i \in DOMAIN R |-> R[i].deps \cap DOMAIN R], nodes) \ nodes

\* _find_minimal_subtree: the required nodes and what connects them.
MinimalSubtree(R, root, required) ==
  {i \in Descendants(R, root) : Descendants(R, i) \cap required # {}}

\* _validate_no_external_dependencies.
SelfContained(R, nodes) == \A i \in nodes : R[i].deps \subseteq nodes

\* _augment_subtree_with_dependencies: the dependencies of the subtree, but for
\* those of the excluded nodes, or what depends on it, join it, and the tree is
\* cut down to connect them; what lies in another tree cannot be connected, and
\* nothing is added.
Augmented(R, t, excluded, auto, dependents) ==
  LET nodes == Descendants(R, t)
      root == RootOf(R, t)
      all == AllInTree(R, root)
      identifiers == (nodes \cap all) \ excluded
      up == IF auto THEN Upstream(R, identifiers) ELSE {}
      down == IF dependents /\ R[t].parent # NoTask THEN Downstream(R, all, identifiers) ELSE {}
      required == nodes \cup up \cup down
  IN  IF required # nodes /\ required \subseteq Descendants(R, root)
      THEN MinimalSubtree(R, root, required)
      ELSE nodes

\* Faulty variant: one reference that cannot be rewritten drops them all.
RemapAllOrNothing(map, deps) == IF deps \subseteq DOMAIN map THEN {map[d] : d \in deps} ELSE {}

\* _clone_task_tree_dependency_fix: what was not cloned is dropped.
Remap(map, deps) == {map[d] : d \in deps \cap DOMAIN map}

\* _clone_task: one row, made from the row i of R in one of three ways, with
\* the references of its source. A link made by from_mixed does not pass the
\* reset of from_link: it keeps the run, the snapshot and the result.
ClonedRow(R, i, kind) ==
  LET old == R[i]
      row == CASE kind = "copy" -> NewRow("copy", Effective(R, old).content)
               [] kind = "link" -> [NewRow("link", "none") EXCEPT !.status = old.status]
               [] kind = "mixed" -> [old EXCEPT !.origin = "link", !.referenced = FALSE]
  IN  [row EXCEPT !.original = MostOriginal(R, i), !.parent = old.parent, !.deps = old.deps]

\* Whether every row can be cloned: originals exist, and a copied link resolves.
Clonable(R, kinds) ==
  \A i \in DOMAIN kinds : /\ MostOriginal(R, i) # NoTask
                          /\ kinds[i] = "copy" => Resolves(R, R[i])

Clones(R, kinds) == [i \in DOMAIN kinds |-> ClonedRow(R, i, kinds[i])]

\* Faulty variant: the clones keep the tree identifier of their sources.
PromotedUnstamped(clones, n) ==
  LET map == Fresh(DOMAIN clones, n)
      source == [new \in {map[i] : i \in DOMAIN clones} |->
                   CHOOSE i \in DOMAIN clones : map[i] = new]
  IN  [new \in DOMAIN source |->
         LET row == clones[source[new]]
         IN  [row EXCEPT !.parent = IF @ \in DOMAIN map THEN map[@] ELSE NoTask,
                         !.deps = Remap(map, @)]]

\* _clone_task_tree: fresh identifiers, the references rewritten, and a tree of
\* its own, named after the clone whose parent was left behind.
Promoted(clones, n) ==
  LET map == Fresh(DOMAIN clones, n)
      source == [new \in {map[i] : i \in DOMAIN clones} |->
                   CHOOSE i \in DOMAIN clones : map[i] = new]
      top == CHOOSE i \in DOMAIN clones : clones[i].parent \notin DOMAIN clones
  IN  [new \in DOMAIN source |->
         LET row == clones[source[new]]
         IN  [row EXCEPT !.parent = IF @ \in DOMAIN map THEN map[@] ELSE NoTask,
                         !.deps = Remap(map, @), !.tree = map[top]]]

-----------------------------------------------------------------------------
(* Retry of a run.                                                          *)

\* Faulty variant: a chosen task does not take its dependents along.
SelectedWithoutDependents(R, nodes, chosen) ==
  LET up == [i \in nodes |-> (R[i].deps \cup {R[i].parent}) \cap nodes]
  IN  IF chosen = {} THEN nodes ELSE Reached(up, chosen)

\* _select_nodes: all nodes, or the chosen ones with what depends on them, and
\* what those depend on and are children of.
Selected(R, nodes, chosen) ==
  LET up == [i \in nodes |-> (R[i].deps \cup {R[i].parent}) \cap nodes]
  IN  IF chosen = {} THEN nodes
      ELSE Reached(up, Reached(Dependents(R, nodes), chosen))

\* _select_nodes and _remap_dependencies refuse a snapshot that its tasks reach out of.
Enclosed(R, nodes) ==
  \A i \in nodes : R[i].deps \subseteq nodes /\ R[i].parent \in nodes \cup {NoTask}

\* Faulty variant: completed tasks are reused whatever is executed before them.
ExecutedAloneAgain(R, required, chosen) ==
  {i \in required : R[i].status # "completed"} \cup chosen

\* Faulty variant: what is required is executed, completed or not.
ExecutedAll(R, required, chosen) == required

\* _execution_nodes: a new result invalidates the completed ones downstream.
ExecutedAgain(R, required, chosen) ==
  Reached(Dependents(R, required),
          {i \in required : R[i].status # "completed"} \cup chosen)

\* Whether the rows of a retry pass protect_archived_tasks. They are added in
\* the order of the source rows; looking up the original of a reused link sends
\* what was added so far to the database, and a row that follows later is
\* refused when its parent is by then stored with a frozen result.
Flushes(R, required, execute) ==
  LET reused == required \ execute
      looked == {i \in reused : R[i].origin = "link" /\ ~R[i].frozen}
  IN  \A i \in required : R[i].parent \in reused =>
        \A k \in looked : ~(R[i].parent < k /\ k <= i)

\* _clone_nodes: reused results are frozen copies, the rest starts afresh.
RetryRows(R, required, execute, n) ==
  LET map == Fresh(required, n)
      top == CHOOSE i \in required : R[i].parent = NoTask
      base(i) == [NewRow("copy", R[i].content) EXCEPT
                    !.source = i, !.run = map[top], !.tree = map[top],
                    !.original = IF R[i].original = NoTask THEN i ELSE R[i].original,
                    !.parent = IF i = top THEN NoTask ELSE map[R[i].parent],
                    !.deps = {map[d] : d \in R[i].deps}]
  IN  [new \in {map[i] : i \in required} |->
         LET i == CHOOSE j \in required : map[j] = new
         IN  IF R[i].status = "completed" /\ i \notin execute
             THEN [base(i) EXCEPT !.origin = "link", !.status = "completed",
                                  !.result = Effective(R, R[i]).result, !.frozen = TRUE]
             ELSE base(i)]
=============================================================================
