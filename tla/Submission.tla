----------------------------- MODULE Submission ------------------------------
(***************************************************************************)
(* Requests that create a tree of tasks, from an array or from a run that  *)
(* did not succeed, under a key that the caller chooses. The receipt of a  *)
(* request is committed with the rows it creates: whoever repeats the      *)
(* request with its key, in the same moment or later, gets that receipt.   *)
(*                                                                         *)
(* Sources: core/execution/submission.py, core/execution/run_retry.py,     *)
(* core/execution/task_creator.py (create_task_trees_from_array),          *)
(* core/execution/runs.py (ensure_run, summarize_run).                     *)
(***************************************************************************)
EXTENDS TaskTrees

CONSTANTS
  Session,     \* database sessions that serve requests
  Key,         \* idempotency keys
  Definition,  \* the arrays that are submitted
  Selection,   \* the sets of tasks a retry may be restricted to; {} is none
  GivenId,     \* identifiers a caller gives, which are no UUIDs
  MaxId,       \* bound: the last fresh identifier
  Calls,       \* bound: how many requests are made and roots executed
  Library      \* the contents of the task table before

ASSUME SubmissionAssumption ==
  /\ MaxId \in Nat /\ Calls \in Nat
  /\ NoTask \notin Nat
  /\ GivenId \subseteq Nat \ (1..MaxId)

\* What every table is: rows refer to rows, a root gives its tree its name, and no row
\* hangs below itself or depends on itself.
Forest(R) ==
  /\ IsFiniteSet(DOMAIN R) /\ R = [i \in DOMAIN R |-> R[i]]
  /\ \A i \in DOMAIN R :
       /\ R[i] = [column \in Columns |-> R[i][column]]
       /\ R[i].deps \subseteq DOMAIN R /\ R[i].tree \in DOMAIN R
       /\ R[i].parent \in DOMAIN R \cup {NoTask}
       /\ R[i].parent = NoTask => R[i].tree = i
  /\ Acyclic([i \in DOMAIN R |-> {R[i].parent} \cap DOMAIN R])
  /\ Acyclic([i \in DOMAIN R |-> R[i].deps])

Status == {"pending", "in_progress", "completed", "failed"}

\* The rows of a library are numbered, and belong to no run.
ASSUME LibraryAssumption ==
  \A R \in Library :
    /\ \E n \in 0..MaxId : DOMAIN R = 1..n
    /\ Forest(R)
    /\ \A i \in DOMAIN R : R[i].status \in Status /\ R[i].run = NoTask

\* An array is a sequence whose identifiers, as far as they are given, are no UUIDs.
ASSUME DefinitionAssumption ==
  \A def \in Definition :
    /\ Len(def) \in Nat /\ DOMAIN def = 1..Len(def)
    /\ \A k \in DOMAIN def : def[k].id \in GivenId \cup {NoTask}

VARIABLES
  rows,      \* the task table
  runs,      \* the workflow runs: root -> [status, retryOf, nodes]
  receipts,  \* <<kind, key>> -> [content, ids]
  nextId,    \* the next fresh identifier
  req,       \* what every session is doing
  answers,   \* what was answered: [kind, key, content, ids]
  calls      \* how many of them are left

vars == <<rows, runs, receipts, nextId, req, answers, calls>>

Idle == [at |-> "idle"]

Init ==
  /\ rows \in Library
  /\ runs = << >>
  /\ receipts = << >>
  /\ nextId = 1 + Cardinality(DOMAIN rows)
  /\ req = [s \in Session |-> Idle]
  /\ answers = {}
  /\ calls = Calls

-----------------------------------------------------------------------------
(* Receipts.                                                               *)

Slot(s) == <<req[s].kind, req[s].key>>

Done(s) == req' = [req EXCEPT ![s] = Idle]

\* The caller gets the stored receipt, or an error if its content differs.
AnswerStored(s) ==
  /\ answers' = IF receipts[Slot(s)].content = req[s].content
                THEN answers \cup {[slot |-> Slot(s), content |-> req[s].content,
                                    ids |-> receipts[Slot(s)].ids]}
                ELSE answers
  /\ Done(s)
  /\ UNCHANGED <<rows, runs, receipts, nextId, calls>>

\* A request with its key and its content, which its digest stands for. Keys are
\* told apart by the kind of the request.
Ask(s, kind, key, content) ==
  /\ req' = [req EXCEPT ![s] = [kind |-> kind, key |-> key, content |-> content,
                                at |-> "receipt", first |-> 0]]
  /\ calls' = calls - 1
  /\ UNCHANGED <<rows, runs, receipts, nextId, answers>>

\* task.create: an array of one task.
TaskCreate(s, key, def) == Len(def) = 1 /\ Ask(s, "task", key, [def |-> def])

\* task.create_tree.
TaskCreateTree(s, key, def) == Len(def) > 1 /\ Ask(s, "tree", key, [def |-> def])

\* run.retry.
RunRetry(s, key, run, chosen, safe) ==
  Ask(s, "retry", key, [run |-> run, chosen |-> chosen, safe |-> safe])

\* _read_receipt, before anything else.
ReadReceipt(s) ==
  /\ req[s].at = "receipt"
  /\ IF Slot(s) \in DOMAIN receipts
     THEN AnswerStored(s)
     ELSE /\ req' = [req EXCEPT ![s].at = IF req[s].kind = "retry" THEN "retry" ELSE "create"]
          /\ UNCHANGED <<rows, runs, receipts, nextId, answers, calls>>

Refuse(s) == Done(s) /\ UNCHANGED <<rows, runs, receipts, nextId, answers, calls>>

\* Faulty variant: the tree is committed before its receipt.
StoreTreeFirst(s, new, changed, newRuns, drawn) ==
  /\ rows' = Over(new, Over(changed, rows))
  /\ runs' = Over(newRuns, runs)
  /\ nextId' = nextId + drawn
  /\ receipts' = IF Slot(s) \in DOMAIN receipts THEN receipts
                 ELSE Over([k \in {Slot(s)} |-> [content |-> req[s].content, ids |-> DOMAIN new]],
                           receipts)
  /\ answers' = answers \cup {[slot |-> Slot(s), content |-> req[s].content,
                               ids |-> receipts'[Slot(s)].ids]}
  /\ Done(s)
  /\ UNCHANGED calls

\* Rows, runs and receipt in one commit, with the identifiers that were drawn for it. If
\* the key of a row or of the receipt is taken, all of it is rolled back and the receipt
\* read again.
Store(s, new, changed, newRuns, drawn) ==
  IF Slot(s) \notin DOMAIN receipts /\ DOMAIN new \cap DOMAIN rows = {}
  THEN /\ rows' = Over(new, Over(changed, rows))
       /\ runs' = Over(newRuns, runs)
       /\ nextId' = nextId + drawn
       /\ receipts' = Over([k \in {Slot(s)} |-> [content |-> req[s].content, ids |-> DOMAIN new]],
                           receipts)
       /\ answers' = answers \cup {[slot |-> Slot(s), content |-> req[s].content,
                                    ids |-> DOMAIN new]}
       /\ Done(s)
       /\ UNCHANGED calls
  ELSE IF Slot(s) \in DOMAIN receipts THEN AnswerStored(s) ELSE Refuse(s)

-----------------------------------------------------------------------------
(* Creation from an array.                                                 *)

\* task_dicts_to_task_models, which draws the identifiers, and _check_tasks_existence.
Validate(s) ==
  /\ req[s].at = "create"
  /\ nextId + Len(req[s].content.def) - 1 <= MaxId
  /\ LET def == req[s].content.def
     IN  IF WellFormed(def, nextId) /\ \A k \in DOMAIN def : def[k].id \notin DOMAIN rows
         THEN /\ req' = [req EXCEPT ![s].at = "insert", ![s].first = nextId]
              /\ nextId' = nextId + Len(def)
              /\ UNCHANGED <<rows, runs, receipts, answers, calls>>
         ELSE Refuse(s)

\* create_with_receipt, after the validation.
Insert(s) ==
  /\ req[s].at = "insert"
  /\ Store(s, CreatedRows(req[s].content.def, req[s].first), << >>, << >>, 0)

-----------------------------------------------------------------------------
(* Runs.                                                                   *)

\* summarize_run.
Summary(R, nodes) ==
  LET statuses == {R[i].status : i \in nodes}
  IN  CASE "in_progress" \in statuses -> "reconciliation_required"
        [] "in_progress" \notin statuses /\ "failed" \in statuses -> "failed"
        [] statuses = {"completed"} -> "completed"
        [] OTHER -> "accepted"

\* ensure_run: the run of a root, with its nodes at that moment.
NewRun(R, root, retryOf) ==
  [status |-> Summary(R, AllInTree(R, root)), retryOf |-> retryOf,
   nodes |-> AllInTree(R, root)]

\* What has to be executed in a tree.
Open(nodes) == {i \in nodes : rows[i].status # "completed" /\ rows[i].origin # "link"}

\* The execution of a root, as RootExecution describes it, up to its end: some
\* tasks complete in the order of their dependencies, and those that could be
\* next have failed or, when the process was lost, are found in progress.
Execute(r, done, outcome) ==
  /\ calls' = calls - 1
  /\ r \notin DOMAIN runs => \A i \in AllInTree(rows, r) : rows[i].status = "pending"
  /\ r \in DOMAIN runs => runs[r].status = "accepted"
  /\ LET nodes == AllInTree(rows, r)
         completed == done \cup {i \in nodes : rows[i].status = "completed"}
         next == {i \in Open(nodes) \ done : rows[i].deps \subseteq completed}
         after == [i \in DOMAIN rows |->
                     IF i \notin nodes THEN rows[i]
                     ELSE LET row == [rows[i] EXCEPT !.run = r]
                          IN  IF i \in done
                              THEN [row EXCEPT !.status = "completed", !.result = i]
                              ELSE IF i \in next THEN [row EXCEPT !.status = outcome]
                              ELSE row]
     IN  /\ \A i \in done : rows[i].deps \subseteq completed
         /\ rows' = after
         /\ runs' = Over([k \in {r} |-> NewRun(after, r, IF r \in DOMAIN runs
                                                         THEN runs[r].retryOf ELSE NoTask)],
                         runs)
  /\ UNCHANGED <<receipts, nextId, req, answers>>

-----------------------------------------------------------------------------
(* Retry of a run.                                                         *)

Unsuccessful == {"failed", "reconciliation_required"}

\* Faulty variant: only the tasks that are retried are looked at.
UncertainTasks(run, required) == \E i \in required : rows[i].status = "in_progress"

\* _validate_replay: what may already have had its effect.
Uncertain(run, required) ==
  \/ run.status = "reconciliation_required"
  \/ \E i \in required : rows[i].status = "in_progress"

\* _source_run: a tree from before there were runs becomes one.
SourceRun(r) == IF r \in DOMAIN runs THEN runs[r] ELSE NewRun(rows, r, NoTask)

Enrolled(r) ==
  IF r \in DOMAIN runs THEN << >>
  ELSE [i \in AllInTree(rows, r) |-> [rows[i] EXCEPT !.run = r]]

\* _restore_definition: the nodes are those that were accepted.
Restorable(run, r) == run.nodes = AllInTree(rows, r)

\* _derive_run with the receipt, all of it in one commit.
Derive(s) ==
  LET asked == req[s].content
      run == SourceRun(asked.run)
      required == Selected(rows, run.nodes, asked.chosen)
      execute == ExecutedAgain(rows, required, asked.chosen)
      new == RetryRows(rows, required, execute, nextId)
      root == CHOOSE i \in DOMAIN new : new[i].parent = NoTask
  IN  /\ req[s].at = "retry"
      /\ nextId + Cardinality(run.nodes) - 1 <= MaxId
      /\ IF /\ run.status \in Unsuccessful /\ Restorable(run, asked.run)
            /\ asked.chosen \subseteq run.nodes /\ Enclosed(rows, required)
            /\ Uncertain(run, required) => asked.safe
            /\ \A i \in required \ execute : Resolves(rows, rows[i])
            /\ Flushes(rows, required, execute)
         THEN Store(s, new, Enrolled(asked.run),
                    Over([k \in {root} |-> NewRun(new, root, asked.run)],
                         [k \in {asked.run} |-> run]),
                    Cardinality(required))
         ELSE Refuse(s)

-----------------------------------------------------------------------------
Roots == {i \in DOMAIN rows : rows[i].parent = NoTask}

\* A session that serves nothing takes a request.
Asked(s) ==
  /\ req[s] = Idle
  /\ \E k \in Key :
       \/ \E d \in Definition : TaskCreate(s, k, d) \/ TaskCreateTree(s, k, d)
       \/ \E r \in Roots, c \in Selection, safe \in BOOLEAN : RunRetry(s, k, r, c, safe)

RootsExecute ==
  \E r \in Roots : \E d \in SUBSET Open(AllInTree(rows, r)) : \E o \in {"failed", "in_progress"} :
    Execute(r, d, o)

Next ==
  \/ calls > 0 /\ (RootsExecute \/ \E s \in Session : Asked(s))
  \/ \E s \in Session : ReadReceipt(s) \/ Validate(s) \/ Insert(s) \/ Derive(s)

Spec == Init /\ [][Next]_vars
-----------------------------------------------------------------------------
(* Properties.                                                             *)

\* The types of the variables: runs and rows refer to what exists.
TypeOK ==
  /\ DOMAIN rows \subseteq 1..MaxId \cup GivenId
  /\ DOMAIN runs \subseteq DOMAIN rows
  /\ \A r \in DOMAIN runs :
       /\ runs[r].status \in {"accepted", "completed"} \cup Unsuccessful
       /\ runs[r].nodes \subseteq DOMAIN rows
       /\ runs[r].retryOf \in DOMAIN runs \cup {NoTask}
  /\ \A i \in DOMAIN rows :
       /\ rows[i].status \in Status
       /\ rows[i].run \in DOMAIN runs \cup {NoTask}
  /\ DOMAIN receipts \subseteq {"task", "tree", "retry"} \X Key
  /\ nextId \in 1..MaxId + 1 /\ calls \in 0..Calls

\* However often and from however many sessions a request is made with its key,
\* every answer names the same rows, and they are those of the receipt.
AnsweredAlike ==
  \A a, b \in answers : a.slot = b.slot => a = b

\* No row is left behind by a request that lost the race for its key: all rows
\* that were created belong to exactly one receipt.
NothingIsStray ==
  /\ \A i \in DOMAIN rows \ UNION {DOMAIN R : R \in Library} :
       \E k \in DOMAIN receipts : i \in receipts[k].ids
  /\ \A j, k \in DOMAIN receipts : j # k => receipts[j].ids \cap receipts[k].ids = {}

\* What a key promises to whoever repeats a request with it, also while the first one
\* is under way (submission.py, create_with_receipt; run_retry.py, retry_run).
ReceiptsHold == TypeOK /\ AnsweredAlike /\ NothingIsStray

\* What was created is a forest whose dependencies contain no cycle.
GraphsAreAcyclic ==
  /\ Acyclic([i \in DOMAIN rows |-> {rows[i].parent} \cap DOMAIN rows])
  /\ Acyclic([i \in DOMAIN rows |-> rows[i].deps])

RetryContent(r) ==
  LET k == CHOOSE k \in DOMAIN receipts : r \in receipts[k].ids IN receipts[k].content

IsRetry(r) == runs[r].retryOf # NoTask

\* A result is reused only with everything that led to it: what a frozen row of
\* a retry depends on is frozen too, its source is completed with that result,
\* and was not chosen to be executed again.
ReusedOnReused ==
  \A r \in DOMAIN runs : IsRetry(r) =>
    \A i \in runs[r].nodes : rows[i].frozen =>
      /\ \A d \in rows[i].deps : rows[d].frozen
      /\ rows[rows[i].source].status = "completed"
      /\ rows[i].result = Effective(rows, rows[rows[i].source]).result
      /\ rows[i].source \notin RetryContent(r).chosen

\* Nothing is executed again without a reason: a completed task that is not
\* reused was chosen, or depends on one that is executed again.
RetryIsMinimal ==
  \A r \in DOMAIN runs : IsRetry(r) =>
    \A i \in runs[r].nodes :
      ~rows[i].frozen /\ rows[rows[i].source].status = "completed" =>
        \/ rows[i].source \in RetryContent(r).chosen
        \/ \E d \in rows[i].deps : ~rows[d].frozen

\* A retry takes along what its tasks depend on and hang below, and what
\* depends on the chosen ones: nothing keeps a result that was superseded.
RetryIsClosed ==
  \A r \in DOMAIN runs : IsRetry(r) =>
    LET sources == {rows[i].source : i \in runs[r].nodes}
        all == runs[runs[r].retryOf].nodes
    IN  /\ \A i \in sources : (rows[i].deps \cup {rows[i].parent}) \cap all \subseteq sources
        /\ \A i \in all : rows[i].deps \cap RetryContent(r).chosen # {} => i \in sources

\* A run that may have had effects nobody recorded is only retried by a caller
\* who says that this is safe, whichever of its tasks are chosen.
UncertainIsAuthorized ==
  \A r \in DOMAIN runs :
    IsRetry(r) /\ runs[runs[r].retryOf].status = "reconciliation_required" =>
      RetryContent(r).safe

\* A retry executes what it must and nothing else, and reuses no result that was
\* superseded or is in doubt (run_retry.py, _derive_run).
RetriesAreSound == ReusedOnReused /\ RetryIsMinimal /\ RetryIsClosed /\ UncertainIsAuthorized

\* A run is the whole tree of a root, and what was answered is what the receipt says.
Recorded ==
  /\ runs = [r \in DOMAIN runs |-> runs[r]] /\ receipts = [k \in DOMAIN receipts |-> receipts[k]]
  /\ \A r \in DOMAIN runs : rows[r].parent = NoTask /\ runs[r].nodes = AllInTree(rows, r)
  /\ \A k \in DOMAIN receipts : receipts[k].ids \subseteq DOMAIN rows
  /\ NothingIsStray
  /\ \A a \in answers :
       /\ a.slot \in DOMAIN receipts
       /\ a = [slot |-> a.slot, content |-> receipts[a.slot].content,
               ids |-> receipts[a.slot].ids]

\* What a session that serves a request remembers.
Serves(s) ==
  /\ DOMAIN req[s] = {"kind", "key", "content", "at", "first"} /\ req[s].key \in Key
  /\ \/ /\ req[s].kind \in {"task", "tree"} /\ req[s].at \in {"receipt", "create", "insert"}
        /\ req[s].content.def \in Definition
        /\ req[s].at = "insert" =>
             /\ WellFormed(req[s].content.def, req[s].first)
             /\ req[s].first \in 1..MaxId
             /\ req[s].first + Len(req[s].content.def) - 1 <= MaxId
     \/ /\ req[s].kind = "retry" /\ req[s].at \in {"receipt", "retry"}
        /\ req[s].content.run \in DOMAIN rows /\ rows[req[s].content.run].parent = NoTask

\* A retry has its receipt, and its rows come from those of a run that has ended.
Derived(r) ==
  /\ runs[runs[r].retryOf].status \in Unsuccessful
  /\ \E k \in DOMAIN receipts : receipts[k].ids = runs[r].nodes
  /\ \A i \in runs[r].nodes :
       /\ rows[i].source \in runs[runs[r].retryOf].nodes
       /\ rows[i].frozen => rows[i].status = "completed" /\ Resolves(rows, rows[rows[i].source])

\* Why receipts hold and retries stay sound: the rows of a run that has ended are never
\* written again, and a row that was executed stands for itself.
SubmissionInv ==
  /\ TypeOK /\ Forest(rows) /\ Recorded
  /\ req = [s \in Session |-> req[s]] /\ \A s \in Session : req[s] = Idle \/ Serves(s)
  /\ \A r \in DOMAIN runs : IsRetry(r) => Derived(r)
  /\ RetriesAreSound
=============================================================================
