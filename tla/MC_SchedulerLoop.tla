--------------------------- MODULE MC_SchedulerLoop ---------------------------
(* Instances of SchedulerLoop for model checking.                              *)
EXTENDS SchedulerLoop

CONSTANTS a, b, c

\* One more than a poll reads with one fire at a time.
Three == {a, b, c}
=============================================================================
