------------------------------ MODULE SingleRun ------------------------------
(***************************************************************************)
(* What a persisted run promises to whoever submitted it, without leases,  *)
(* processes or recovery: its nodes are begun at most once, all by one     *)
(* executor; a node that ended stays as it is; the run closes once, with   *)
(* an outcome its nodes justify, and nothing changes after that.  It may   *)
(* close with an open question, and then only as uncertain.                *)
(***************************************************************************)
EXTENDS Naturals

CONSTANTS Node, Reused, Executor, NoExecutor

VARIABLES
  status,     \* of each node
  executor,   \* who executes the run, NoExecutor until the first node begins
  outcome     \* "open", or how the run closed

vars == <<status, executor, outcome>>

Uncertain == "reconciliation_required"
Ended == {"completed", "failed", "cancelled"}

Init ==
  /\ status = [n \in Node |-> IF n \in Reused THEN "completed" ELSE "pending"]
  /\ executor = NoExecutor
  /\ outcome = IF Reused = Node THEN "completed" ELSE "open"

Begin(n, e) ==
  /\ outcome = "open"
  /\ status[n] = "pending"
  /\ executor \in {NoExecutor, e}
  /\ executor' = e
  /\ status' = [status EXCEPT ![n] = "in_progress"]
  /\ UNCHANGED outcome

\* Nodes end for good; only a begun one can complete.
End(nodes, as) ==
  /\ outcome = "open"
  /\ \A n \in nodes : status[n] \notin Ended
  /\ as = "completed" => \A n \in nodes : status[n] = "in_progress"
  /\ status' = [n \in Node |-> IF n \in nodes THEN as ELSE status[n]]
  /\ UNCHANGED <<executor, outcome>>

Justified(o) ==
  CASE o = "completed" -> \A n \in Node : status[n] = "completed"
    [] o \in {"failed", "cancelled"} -> /\ \E n \in Node : status[n] = o
                                        /\ \A n \in Node : status[n] # "in_progress"
    [] o = Uncertain -> TRUE

Close(o) ==
  /\ outcome = "open"
  /\ Justified(o)
  /\ outcome' = o
  /\ UNCHANGED <<status, executor>>

Next ==
  \/ \E n \in Node, e \in Executor : Begin(n, e)
  \/ \E nodes \in SUBSET Node, as \in Ended : End(nodes, as)
  \/ \E o \in Ended \cup {Uncertain} : Close(o)

Spec == Init /\ [][Next]_vars
=============================================================================
