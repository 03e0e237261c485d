-------------------------- MODULE MC_RootExecution --------------------------
(* Instances of RootExecution for TLC.                                      *)
EXTENDS RootExecution, TLC

\* The tree: a root and a child, the smallest where siblings of a node can be
\* claimed by different executors.
CONSTANTS root, child, kept, d1, d2, w1, l1, l2

Tree == {root, child}
TreeRoot == root
RootOnly == {root}
NoFrozen == {}
\* A retry run that reuses the completed result of a third node.
RetriedTree == {root, child, kept}
KeptFrozen == {kept}
NoProc == {}
OneDispatcher == {d1}
TwoDispatchers == {d1, d2}
OneWorker == {w1}
OneLocal == {l1}
TwoLocals == {l1, l2}

DispatcherSymmetry == Permutations(TwoDispatchers)
LocalSymmetry == Permutations(TwoLocals)
=============================================================================
