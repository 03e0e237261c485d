----------------------------- MODULE MC_TaskGraph -----------------------------
(* Trees for TaskGraph, small enough for TLC.                                *)
EXTENDS TaskGraph, TLC

CONSTANTS root, a, b, c

Tree == {root, a, b, c}
TreeRoot == root

\* Siblings, and a task below a branch.
Flat == root :> {} @@ [t \in {a, b, c} |-> {root}]
Deep == root :> {} @@ a :> {root} @@ b :> {root} @@ c :> {root, a}

None == [t \in Tree |-> {}]
FanIn == [None EXCEPT ![c] = {a, b}]
Chain == [None EXCEPT ![a] = {b}, ![root] = {a}]
Aggregate == [None EXCEPT ![root] = {a, b, c}]
\* A dependency of a later group, and one on the root.
Upward == [None EXCEPT ![a] = {c}, ![b] = {root}]

Equal == [t \in Tree |-> 1]
Ranked == [Equal EXCEPT ![c] = 2]
Urgent == [Equal EXCEPT ![a] = 0]

Submitted(shape, deps, rank, done, failing) ==
  [above |-> shape, needs |-> deps, priority |-> rank, kept |-> done,
   maxFaults |-> failing]

\* Three faults are as many as give up a scan.
Trees ==
  {Submitted(Flat, FanIn, Ranked, {}, 1), Submitted(Deep, FanIn, Equal, {}, 1),
   Submitted(Deep, Chain, Ranked, {}, 3), Submitted(Deep, Aggregate, Equal, {b}, 1),
   Submitted(Deep, Upward, Ranked, {}, 1), Submitted(Deep, FanIn, Equal, {a}, 1)}
UrgentTree == {Submitted(Flat, None, Urgent, {}, 0)}
=============================================================================
