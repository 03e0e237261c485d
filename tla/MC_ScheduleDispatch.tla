------------------------- MODULE MC_ScheduleDispatch -------------------------
(* Instances of ScheduleDispatch for model checking. *)
EXTENDS ScheduleCalendar

CONSTANTS n1, n2, r1

OneNode == {n1}
TwoNodes == {n1, n2}
OneRequest == {r1}
NoRequest == {}
Symmetry == {[n \in TwoNodes |-> n], [n \in TwoNodes |-> IF n = n1 THEN n2 ELSE n1]}

\* The first half of a common year that begins on a Thursday.
HalfYear == <<31, 28, 31, 30, 31, 30, 31>>
On(type, days, at) == [type |-> type, on |-> days, at |-> at]
Expressions ==
  {On("daily", {}, 0), On("daily", {}, 1),
   On("weekly", {4}, 0), On("weekly", {1, 3, 7}, 1), On("weekly", {4, 5}, 2),
   On("monthly", {1, 15}, 0), On("monthly", {31}, 2), On("monthly", {29, 30}, 1)}
NoExpression == {}
=============================================================================
