------------------------------ MODULE TaskReuse ------------------------------
(***************************************************************************)
(* Linking, copying, mixing and archiving of task trees, beside the        *)
(* updates, deletions and acceptances that other sessions commit to the    *)
(* same rows. A clone is read, made in memory and saved in separate        *)
(* transactions; an archive is frozen in place under the locks of its rows.*)
(*                                                                         *)
(* Sources: core/execution/task_creator.py (from_link, from_copy,          *)
(* from_mixed, from_archive), core/storage/sqlalchemy/task_repository.py,  *)
(* core/storage/sqlalchemy/invariants.py, bridge/task_modules.py and       *)
(* bridge/access.py.                                                       *)
(***************************************************************************)
EXTENDS TaskTrees

CONSTANTS
  Session,    \* database sessions that clone or archive
  MaxId,      \* bound: the last identifier a clone can get
  Calls,      \* bound: how many operations are called
  Library,    \* the contents of the task table the operations start from
  Request     \* what may be asked for:
              \*   [op, task, whole, links, auto, dependents, bridged]

ASSUME ReuseAssumption ==
  /\ MaxId \in Nat /\ Calls \in Nat
  /\ NoTask \notin Nat
  /\ \A r \in Request : /\ r.op \in {"link", "copy", "mixed", "archive"}
                        /\ r.task \in 1..MaxId /\ r.links \subseteq 1..MaxId
                        /\ {r.whole, r.auto, r.dependents, r.bridged} \subseteq BOOLEAN
                        /\ DOMAIN r = {"op", "task", "whole", "links", "auto", "dependents",
                                       "bridged"}

\* What every row is, given that the code wrote it: an executed task had inputs and
\* left a result, a frozen result is one, and an archive consists of such rows.
Whole(row) == row.status = "completed" /\ row.result # NoTask /\ row.content # "none"
Sound(row) ==
  /\ row = [column \in DOMAIN NewRow("create", "given") |-> row[column]]
  /\ row.origin # "link" => /\ row.content # "none"
                            /\ row.status = "completed" => row.result # NoTask
  /\ row.frozen \/ row.origin = "archive" => Whole(row)

Origin == {"create", "copy", "link", "archive"}
Status == {"pending", "completed", "failed"}

\* Whether two rows of C say the same of each other as those of R that they were made
\* from, as long as these are there and belong to one tree.
Alike(C, R, i, j) ==
  LET o == C[i].original
      p == C[j].original
  IN  o \in DOMAIN R /\ p \in DOMAIN R /\ R[o].tree = R[p].tree =>
        /\ j \in C[i].deps <=> p \in R[o].deps
        /\ C[i].parent = j => R[o].parent = p

\* What the rows of a table say of each other: what they refer to has or had one of the
\* identifiers up to n; trees are apart and acyclic; a link and what is called a row's
\* original are never in one tree; and a tree of clones is shaped like its originals.
Placed(R, n) ==
  /\ \A i \in DOMAIN R :
       /\ R[i].origin \in Origin /\ R[i].status \in Status
       /\ R[i].tree \in 1..n /\ R[i].deps \subseteq 1..n \ {i}
       /\ {R[i].parent, R[i].original} \subseteq 1..n \cup {NoTask}
       /\ \A j \in (R[i].deps \cup {R[i].parent}) \cap DOMAIN R : R[j].tree = R[i].tree
       /\ R[i].origin = "link" => R[i].original # NoTask
       /\ R[i].original \in DOMAIN R =>
            R[R[i].original].origin # "link" /\ R[R[i].original].tree # R[i].tree
  /\ \A i, j \in DOMAIN R : R[i].tree = R[j].tree => Alike(R, R, i, j)
  /\ Acyclic([i \in DOMAIN R |-> {R[i].parent} \cap DOMAIN R])

\* The rows of a library are numbered, and a run has all rows of its root's tree.
ASSUME LibraryAssumption ==
  \A R \in Library :
    /\ \E n \in 0..MaxId : R = [i \in 1..n |-> R[i]] /\ Placed(R, n)
    /\ \A i \in DOMAIN R : Sound(R[i])
    /\ \A i \in DOMAIN R : R[i].run # NoTask =>
         /\ R[i].run \in DOMAIN R /\ R[R[i].run].parent = NoTask
         /\ \A j \in DOMAIN R : R[j].tree = R[R[i].run].tree => R[j].run # NoTask

VARIABLES
  rows,       \* the task table
  runs,       \* the workflow runs: root -> [status, nodes]
  nextId,     \* the next fresh identifier
  req,        \* what every session is doing
  lock,       \* the root row an archiving session has locked, or NoTask
  calls       \* how many operations may still be called

vars == <<rows, runs, nextId, req, lock, calls>>

Idle == [at |-> "idle"]

Init ==
  /\ rows \in Library
  /\ runs = [r \in {rows[i].run : i \in DOMAIN rows} \ {NoTask} |->
               [status |-> IF AllCompleted(rows, AllInTree(rows, r))
                           THEN "completed" ELSE "failed",
                nodes |-> AllInTree(rows, r)]]
  /\ nextId = 1 + Cardinality(DOMAIN rows)
  /\ req = [s \in Session |-> Idle]
  /\ lock = [s \in Session |-> NoTask]
  /\ calls = Calls

-----------------------------------------------------------------------------
\* Rows that nobody but the session itself has locked.
Unlocked(s, ids) == \A o \in Session \ {s} : lock[o] \notin ids
Free(ids) == \A o \in Session : lock[o] \notin ids

\* A root whose dispatch is accepted or running.
Dispatched(root) == root \in DOMAIN runs /\ runs[root].status = "accepted"

Terminal(run) == run \in DOMAIN runs /\ runs[run].status # "accepted"

Frozen(row) == row.origin = "archive" \/ row.frozen

\* Faulty variant: the session stays in its transaction after an error.
GiveUpUnreleased(s) ==
  /\ req' = [req EXCEPT ![s] = Idle]
  /\ UNCHANGED <<rows, runs, nextId, calls, lock>>

\* A refusal or an error ends a request: everything is rolled back.
GiveUp(s) ==
  /\ req' = [req EXCEPT ![s] = Idle]
  /\ lock' = [lock EXCEPT ![s] = NoTask]
  /\ UNCHANGED <<rows, runs, nextId, calls>>

\* A task module, or a caller of the library, finds the task and calls the
\* creator. The subtree or the single task is asked for, with or without the
\* dependencies that lie outside of it; only callers of the library ask for
\* what depends on it as well.
Ask(s, r, at) ==
  /\ req[s] = Idle /\ calls > 0
  /\ r.task \in DOMAIN rows
  /\ req' = [req EXCEPT ![s] = Over([at |-> at, clones |-> << >>, seen |-> {}, nodes |-> {}], r)]
  /\ calls' = calls - 1
  /\ UNCHANGED <<rows, runs, nextId, lock>>

TaskLink(s, r) == r.op = "link" /\ Ask(s, r, "check")

TaskCopy(s, r) == r.op = "copy" /\ Ask(s, r, "gather")

TaskCloneMixed(s, r) == r.op = "mixed" /\ Ask(s, r, "gather")

\* Only the task module protects the definitions of runs.
TaskArchive(s, r) == r.op = "archive" /\ Ask(s, r, IF r.bridged THEN "authorize" ELSE "read")

-----------------------------------------------------------------------------
(* Clones.                                                                 *)

\* from_link: only a completed tree can be linked.
Check(s) ==
  /\ req[s].at = "check"
  /\ IF req[s].task \in DOMAIN rows /\ AllCompleted(rows, Descendants(rows, req[s].task))
     THEN /\ req' = [req EXCEPT ![s].at = "gather"]
          /\ UNCHANGED <<rows, runs, nextId, lock, calls>>
     ELSE GiveUp(s)

\* Whether the dependencies outside of the subtree matter: a whole tree has none.
Opened(r) == r.whole /\ (rows[r.task].parent # NoTask \/ r.op = "mixed")

\* The nodes an operation takes along.
Nodes(r) ==
  IF ~r.whole THEN {r.task}
  ELSE IF ~Opened(r) THEN Descendants(rows, r.task)
  ELSE Augmented(rows, r.task, IF r.op = "mixed" THEN r.links ELSE {}, r.auto, r.dependents)

\* Without the dependencies, the subtree must not have any outside.
Allowed(r) == Opened(r) /\ ~r.auto => SelfContained(rows, Descendants(rows, r.task))

\* A single linked node passes the full reset also in mixed mode.
Kinds(s, nodes) ==
  [i \in nodes |->
     IF req[s].op # "mixed" THEN req[s].op
     ELSE IF i \notin req[s].links THEN "copy"
     ELSE IF req[s].whole THEN "mixed" ELSE "link"]

\* The nodes are read and cloned in memory.
Gather(s) ==
  /\ req[s].at = "gather"
  /\ IF /\ req[s].task \in DOMAIN rows /\ Allowed(req[s])
        /\ Clonable(rows, Kinds(s, Nodes(req[s])))
     THEN LET clones == Clones(rows, Kinds(s, Nodes(req[s])))
          IN  /\ req' = [req EXCEPT
                   ![s].at = "save",
                   ![s].clones = IF req[s].whole THEN clones
                                 ELSE [i \in DOMAIN clones |->
                                         [clones[i] EXCEPT !.parent = NoTask, !.deps = {}]]]
              /\ UNCHANGED <<rows, runs, nextId, lock, calls>>
     ELSE GiveUp(s)

\* The originals of a set of rows that are not marked as referenced yet.
Unreferenced(new) ==
  {i \in DOMAIN rows : ~rows[i].referenced /\ \E k \in DOMAIN new : new[k].original = i}

\* save_task_tree: the clones and the marks of their originals in one commit.
Save(s) ==
  /\ req[s].at = "save"
  /\ nextId + Cardinality(DOMAIN req[s].clones) - 1 <= MaxId
  /\ LET new == Promoted(req[s].clones, nextId)
     IN  /\ Unlocked(s, Unreferenced(new))
         /\ rows' = Over(new, [i \in DOMAIN rows |->
                                 IF i \in Unreferenced(new)
                                 THEN [rows[i] EXCEPT !.referenced = TRUE] ELSE rows[i]])
         /\ nextId' = nextId + Cardinality(DOMAIN new)
  /\ req' = [req EXCEPT ![s] = Idle]
  /\ UNCHANGED <<runs, lock, calls>>

\* save_task_tree catches an error of the database and rolls back.
SaveFails(s) == req[s].at = "save" /\ GiveUp(s)

-----------------------------------------------------------------------------
(* Archives.                                                               *)

\* _protect_dispatched_definition: the run is looked up first ...
Authorize(s) ==
  /\ req[s].at = "authorize"
  /\ IF /\ req[s].task \in DOMAIN rows
        /\ rows[RootOf(rows, req[s].task)].run \notin DOMAIN runs
     THEN /\ req' = [req EXCEPT ![s].at = "lock",
                                ![s].nodes = {RootOf(rows, req[s].task)}]
          /\ UNCHANGED <<rows, runs, nextId, lock, calls>>
     ELSE GiveUp(s)

\* ... then the root is locked, and its dispatch looked up.
LockRoot(s) ==
  /\ req[s].at = "lock"
  /\ Unlocked(s, req[s].nodes)
  /\ LET root == CHOOSE i \in req[s].nodes : TRUE
     IN  IF Dispatched(root) THEN GiveUp(s)
         ELSE /\ lock' = [lock EXCEPT ![s] = IF root \in DOMAIN rows THEN root ELSE NoTask]
              /\ req' = [req EXCEPT ![s].at = "read"]
              /\ UNCHANGED <<rows, runs, nextId, calls>>

\* _prepare_archive_tree, up to the locks.
Read(s) ==
  /\ req[s].at = "read"
  /\ IF /\ req[s].task \in DOMAIN rows /\ Allowed(req[s])
        /\ AllCompleted(rows, Descendants(rows, req[s].task))
     THEN /\ req' = [req EXCEPT ![s].at = "freeze", ![s].nodes = Nodes(req[s]),
                                ![s].seen = Descendants(rows, req[s].task)]
          /\ UNCHANGED <<rows, runs, nextId, lock, calls>>
     ELSE GiveUp(s)

\* Faulty variant: what was read before the locks is taken for granted.
UnchangedSinceRead(s) == req[s].nodes \subseteq DOMAIN rows

\* The checks that are repeated under the locks.
StillWhole(s) ==
  /\ req[s].nodes \cup req[s].seen \subseteq DOMAIN rows
  /\ Descendants(rows, req[s].task) = req[s].seen
  /\ AllCompleted(rows, req[s].nodes)

\* _materialize_archive_links: a link takes everything of its source but its
\* identity and its place in the tree.
Materialized(i) ==
  IF rows[i].origin # "link" THEN rows[i]
  ELSE LET source == Effective(rows, rows[i])
       IN  [rows[i] EXCEPT !.status = source.status, !.content = source.content,
                           !.result = source.result, !.run = source.run,
                           !.source = source.source, !.frozen = source.frozen]

\* Faulty variant: the listener of the session lets the archive pass.
WritableAlways(i) == TRUE

\* protect_archived_tasks, before the flush of a row that was materialized.
Writable(i) == Materialized(i) = rows[i] \/ rows[i].run \notin DOMAIN runs

\* The rest of from_archive: all rows or none, in one commit.
Freeze(s) ==
  /\ req[s].at = "freeze"
  /\ Unlocked(s, req[s].nodes)
  /\ IF /\ StillWhole(s)
        /\ \A i \in req[s].nodes : Resolves(rows, rows[i]) /\ Writable(i)
     THEN /\ rows' = [i \in DOMAIN rows |->
                        IF i \in req[s].nodes
                        THEN [Materialized(i) EXCEPT !.origin = "archive"] ELSE rows[i]]
          /\ req' = [req EXCEPT ![s] = Idle]
          /\ lock' = [lock EXCEPT ![s] = NoTask]
          /\ UNCHANGED <<runs, nextId, calls>>
     ELSE GiveUp(s)

-----------------------------------------------------------------------------
(* What other sessions commit in the meantime.                             *)

Called == calls > 0 /\ calls' = calls - 1

\* assert_mutable and _business_write_allowed.
Mutable(t, change) ==
  /\ ~Frozen(rows[t])
  /\ ~Terminal(rows[t].run)
  /\ rows[t].run \in DOMAIN runs => change # "edit"

\* _unowned_execution_fence: no dispatch of the root is active.
Unowned(t) == ~Dispatched(RootOf(rows, t))

\* What the fields that task.update may write amount to.
Change == {"edit", "complete", "reopen"}

\* update_task, under the lock of the root.
Update(t, change) ==
  /\ Called
  /\ t \in DOMAIN rows
  /\ Free({t, RootOf(rows, t)})
  /\ Unowned(t) /\ Mutable(t, change)
  /\ rows' = [rows EXCEPT ![t] =
       CASE change = "edit" -> [@ EXCEPT !.content = "edited"]
         [] change = "complete" -> [@ EXCEPT !.status = "completed", !.result = t]
         [] change = "reopen" -> [@ EXCEPT !.status = "pending"]]
  /\ UNCHANGED <<runs, nextId, req, lock>>

\* Faulty variant: the parent of the row is not looked at.
DeletableAlone(t) == ~Frozen(rows[t]) /\ rows[t].run \notin DOMAIN runs

\* assert_mutable and _validate_parent_mutation. Neither the children of the
\* row nor what depends on it or refers to it is looked at.
Deletable(t) ==
  LET p == rows[t].parent
  IN  /\ ~Frozen(rows[t]) /\ rows[t].run \notin DOMAIN runs
      /\ p \in DOMAIN rows => ~Frozen(rows[p]) /\ rows[p].run = NoTask

\* delete_task: an error is caught, and nothing is deleted.
Delete(t) ==
  /\ Free({t, rows[t].parent})
  /\ Deletable(t)
  /\ rows' = [i \in DOMAIN rows \ {t} |-> rows[i]]
  /\ UNCHANGED <<runs, nextId, req, lock>>

\* task.delete.
TaskDelete(t) == Called /\ t \in DOMAIN rows /\ Delete(t)

\* accept_task with ensure_run: a pending root that is neither an archive nor a
\* link becomes a run, and its rows without a run are enrolled.
Accept(r) ==
  /\ Called
  /\ r \in DOMAIN rows /\ r \notin DOMAIN runs
  /\ rows[r].parent = NoTask
  /\ rows[r].status = "pending" /\ rows[r].origin \notin {"archive", "link"}
  /\ \A i \in AllInTree(rows, r) : rows[i].status # "failed"
  /\ Free(AllInTree(rows, r))
  /\ runs' = [i \in DOMAIN runs \cup {r} |->
                IF i = r THEN [status |-> "accepted", nodes |-> AllInTree(rows, r)] ELSE runs[i]]
  /\ rows' = [i \in DOMAIN rows |->
                IF i \in AllInTree(rows, r) /\ rows[i].run = NoTask
                THEN [rows[i] EXCEPT !.run = r] ELSE rows[i]]
  /\ UNCHANGED <<nextId, req, lock>>

\* The end of a run, as RootExecution describes it: its pending rows were
\* executed, or the root failed.
Settle(r, outcome) ==
  /\ Dispatched(r)
  /\ LET open == {i \in runs[r].nodes : rows[i].run = r /\ rows[i].status = "pending"
                                          /\ rows[i].origin # "link"}
     IN  rows' = [i \in DOMAIN rows |->
                    IF i \notin open THEN rows[i]
                    ELSE IF outcome = "completed"
                         THEN [rows[i] EXCEPT !.status = "completed", !.result = i]
                         ELSE [rows[i] EXCEPT !.status = "failed"]]
  /\ runs' = [runs EXCEPT ![r].status =
                IF \A i \in runs[r].nodes : rows'[i].status = "completed"
                THEN "completed" ELSE "failed"]
  /\ UNCHANGED <<nextId, req, lock, calls>>

-----------------------------------------------------------------------------
Step(s) ==
  \/ Check(s) \/ Gather(s) \/ Save(s) \/ SaveFails(s)
  \/ Authorize(s) \/ LockRoot(s) \/ Read(s) \/ Freeze(s)

Asked(s) ==
  \E r \in Request : TaskLink(s, r) \/ TaskCopy(s, r) \/ TaskCloneMixed(s, r) \/ TaskArchive(s, r)

Next ==
  \/ \E s \in Session : Step(s) \/ Asked(s)
  \/ \E t \in DOMAIN rows : \E c \in Change : Update(t, c)
  \/ \E t \in DOMAIN rows : TaskDelete(t) \/ Accept(t)
  \/ \E t \in DOMAIN runs : \E o \in {"completed", "failed"} : Settle(t, o)

Spec == Init /\ [][Next]_vars

-----------------------------------------------------------------------------
(* Properties.                                                             *)

\* The types of the variables, and where every session can stand.
TypeOK ==
  /\ DOMAIN rows \subseteq 1..MaxId /\ DOMAIN runs \subseteq 1..MaxId
  /\ \A i \in DOMAIN rows :
       /\ rows[i].origin \in Origin /\ rows[i].status \in Status
       /\ rows[i].parent \in 1..MaxId \cup {NoTask} /\ rows[i].deps \subseteq 1..MaxId
  /\ nextId \in 1..MaxId + 1 /\ calls \in 0..Calls
  /\ \A s \in Session : req[s].at \in {"idle", "check", "gather", "save", "authorize",
                                       "lock", "read", "freeze"}

\* A root stays locked only while the archive that locked it is under way, and
\* two sessions never hold the same one: an error releases it like a commit.
LocksAreReleased ==
  \A s \in Session : lock[s] # NoTask =>
    req[s].at \in {"read", "freeze"} /\ Unlocked(s, {lock[s]})

\* An archive stands on its own: what is frozen is completed, with a result and
\* the inputs that led to it, whatever became of the sources of its links.
ArchiveIsWhole ==
  \A i \in DOMAIN rows : rows[i].origin = "archive" =>
    rows[i].status = "completed" /\ rows[i].result # NoTask /\ rows[i].content # "none"

\* What a row says of its task, apart from how it may be referred to later.
Business(row) == [row EXCEPT !.run = NoTask, !.referenced = FALSE, !.origin = "any"]

\* A frozen row, an archive or a result that a retry reuses, and what hangs
\* directly below it stay as they are, whatever is asked later: a reused result
\* may be archived, and an archive be enrolled in a run and marked as referenced.
FrozenIsKept ==
  \A i \in DOMAIN rows : Frozen(rows[i]) =>
    /\ i \in DOMAIN rows' /\ Business(rows'[i]) = Business(rows[i])
    /\ rows'[i].origin \in {rows[i].origin, "archive"}
    /\ Children(rows, i) = Children(rows', i)
FrozenStays == [][FrozenIsKept]_vars

\* The nodes of an accepted run, what they are to do and in which order, stay
\* as they were accepted, also when an archive of them was already under way.
DefinitionsAreKept ==
  \A r \in DOMAIN runs : \A i \in runs[r].nodes :
    /\ i \in DOMAIN rows'
    /\ rows'[i].content = rows[i].content
    /\ rows'[i].parent = rows[i].parent /\ rows'[i].deps = rows[i].deps
RunDefinitionsStay == [][DefinitionsAreKept]_vars

\* A tree never reaches into another one: parents and dependencies that exist
\* carry the same tree identifier.
TreesAreApart ==
  \A i \in DOMAIN rows : \A j \in (rows[i].deps \cup {rows[i].parent}) \cap DOMAIN rows :
    rows[i].tree = rows[j].tree

\* What a row was made from is never itself a link: a clone of a clone refers
\* to the task that was executed.
OriginalsAreNoLinks ==
  \A i \in DOMAIN rows :
    rows[i].original \in DOMAIN rows => rows[rows[i].original].origin # "link"

\* The rows of i's tree, and whether all of them were cloned from one tree.
Mates(i) == {j \in DOMAIN rows : rows[j].tree = rows[i].tree}
ClonesOneTree(i) ==
  /\ Cardinality(Mates(i)) > 1
  /\ \A j \in Mates(i) : rows[j].original \in DOMAIN rows
  /\ Cardinality({rows[rows[j].original].tree : j \in Mates(i)}) = 1

\* In a clone of one tree, a task depends on the clone of another exactly when
\* their originals depend on each other, and hangs below the clone of its
\* original's parent. A clone of a link has its original elsewhere.
CloneFollowsOriginal ==
  \A i \in DOMAIN rows : ClonesOneTree(i) =>
    LET o == rows[i].original
    IN  /\ rows[i].deps \cap Mates(i) = {j \in Mates(i) : rows[j].original \in rows[o].deps}
        /\ rows[i].parent \in Mates(i) => rows[rows[i].parent].original = rows[o].parent

\* Whatever the subtree that was asked for depends on within its tree is cloned
\* with it, as long as the whole tree can be reached from its root when it is read.
WholeSubtreesAreCloned ==
  \A s \in Session :
    LET r == req[s]
        root == RootOf(rows, r.task)
        clones == req'[s].clones
    IN  (/\ r.at = "gather" /\ req'[s].at = "save" /\ r.whole /\ r.op # "mixed"
         /\ rows[root].parent = NoTask /\ AllInTree(rows, root) = Descendants(rows, root)) =>
          \A i \in Descendants(rows, r.task) :
            i \in DOMAIN clones /\ clones[i].deps \cap DOMAIN rows \subseteq DOMAIN clones
DependenciesComeAlong == [][WholeSubtreesAreCloned]_vars

\* What sessions that instantiate, archive and lock at once may never leave behind:
\* an unfaithful clone, trees that reach into each other, a link to a link, a lock
\* nobody holds (task_creator.py; task_repository.py, archive_tasks).
ClonesAreFaithful ==
  TypeOK /\ LocksAreReleased /\ TreesAreApart /\ OriginalsAreNoLinks /\ CloneFollowsOriginal

\* What a session has in memory was made of sound rows.
ClonesAreSound(s) ==
  /\ req[s].clones = [i \in DOMAIN req[s].clones |-> req[s].clones[i]]
  /\ IsFiniteSet(DOMAIN req[s].clones)
  /\ \A i \in DOMAIN req[s].clones : /\ Sound(req[s].clones[i])
                                     /\ req[s].clones[i].origin # "archive"
                                     /\ req[s].clones[i].run \in DOMAIN runs \cup {NoTask}

\* What a session remembers between two of its transactions.
Remembers(s) ==
  /\ "at" \in DOMAIN req[s]
  /\ req[s].at # "idle" => {"op", "clones", "seen", "nodes"} \subseteq DOMAIN req[s]
  /\ req[s].at \in {"check", "gather"} => req[s].op \in {"link", "copy", "mixed"}
  /\ req[s].at = "save" => ClonesAreSound(s)

\* Why history stays: every row is sound, no new one gets the identifier of another, and
\* the nodes of a run say that they belong to one, which protects them.
ReuseInv ==
  /\ nextId \in Nat \ {0} /\ DOMAIN rows \subseteq 1..(nextId - 1)
  /\ rows = [i \in DOMAIN rows |-> rows[i]]
  /\ \A i \in DOMAIN rows : Sound(rows[i]) /\ rows[i].run \in DOMAIN runs \cup {NoTask}
  /\ \A r \in DOMAIN runs :
       /\ DOMAIN runs[r] = {"status", "nodes"} /\ runs[r].nodes \subseteq DOMAIN rows
       /\ \A i \in runs[r].nodes : rows[i].run \in DOMAIN runs
  /\ req = [s \in Session |-> req[s]] /\ \A s \in Session : Remembers(s)

\* What clones that wait in memory say of each other and of the rows R they were made from.
Copied(C, R, n) ==
  /\ DOMAIN C # {} /\ Acyclic([i \in DOMAIN C |-> {C[i].parent} \cap DOMAIN C])
  /\ \A i \in DOMAIN C :
       /\ C[i].origin \in Origin /\ C[i].status \in Status
       /\ C[i].original \in 1..n /\ i \notin C[i].deps
       /\ C[i].original \in DOMAIN R => R[C[i].original].origin # "link"
  /\ \A i, j \in DOMAIN C : Alike(C, R, i, j)

\* Why clones are faithful: originals may be deleted and archived, but what is left of
\* them keeps its place, and clones are shaped like what is left.
FaithfulInv ==
  /\ ReuseInv /\ TypeOK /\ LocksAreReleased
  /\ lock = [s \in Session |-> lock[s]]
  /\ \A s \in Session : req[s].at = "lock" => req[s].nodes # {}
  /\ \A s \in Session : req[s].at = "save" => Copied(req[s].clones, rows, nextId - 1)
  /\ Placed(rows, nextId - 1)

\* What a step of a session may never do to the others' tasks: rewrite what was accepted
\* or frozen (task_repository.py, update_task, delete_task, archive_tasks), or take a
\* subtree out of its tree without what it depends on (task_creator.py, from_copy).
ReuseStepsAreSound == FrozenStays /\ RunDefinitionsStay /\ DependenciesComeAlong
=============================================================================
