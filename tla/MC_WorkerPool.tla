---------------------------- MODULE MC_WorkerPool ----------------------------
(* Instances of WorkerPool for model checking. *)
EXTENDS WorkerPool

CONSTANTS n1, n2, r1, r2

TwoNodes == {n1, n2}
TwoRoots == {r1, r2}

\* Any node may take the first root; the second needs what only the first node has,
\* and is refused by the second.
Profiles == [n \in Node |-> IF n = n1 THEN {"http", "gpu"} ELSE {"http"}]
Anywhere == [requires |-> {}, listed |-> FALSE, allowed |-> {}, forbidden |-> {}]
Constraints ==
  [r \in Root |-> IF r = r1 THEN Anywhere
                  ELSE [requires |-> {"gpu"}, listed |-> TRUE, allowed |-> {n1, n2},
                        forbidden |-> {n2}]]

Second == {n2}
=============================================================================
