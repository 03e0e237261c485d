--------------------------- MODULE MC_UsageLedger ---------------------------
(* Instances of UsageLedger for TLC.                                        *)
EXTENDS UsageLedger, TLC

CONSTANTS i1, i2, t1, t2

\* Two invocations, of two tasks, charged to one scope.
Two == {i1, i2}
One == {i1}
Tasks == {t1, t2}
TwoTasks == (i1 :> t1) @@ (i2 :> t2)
OneTask == (i1 :> t1)
FirstLeased == {t1}
NoLeased == {}
Amounts == 0 .. 2
Limits == {2, 3}
=============================================================================
