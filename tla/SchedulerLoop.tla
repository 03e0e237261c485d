---------------------------- MODULE SchedulerLoop ----------------------------
(* One InternalScheduler object: its poll loop, the fires the loop and manual  *)
(* triggers start, and the calls that start, pause, resume and stop it.        *)
(*                                                                             *)
(* All of them are coroutines of one event loop, so a step is what happens     *)
(* between two awaits. What a fire does to its schedule, and what the          *)
(* schedulers of other nodes do, is ScheduleDispatch's subject: here a fire    *)
(* lasts as long as it likes, and its schedule may be due again at any time.   *)
EXTENDS Naturals, FiniteSets, SequencesExt

CONSTANTS
  Task,          \* the scheduled definitions
  MaxConcurrent, \* SchedulerConfig.max_concurrent_tasks
  MaxStarts      \* bound: how often the object is started

ASSUME SchedulerAssumption == IsFiniteSet(Task) /\ {MaxConcurrent, MaxStarts} \subseteq Nat \ {0}

\* Who calls stop: a signal or the owner of the object, and the end of run_scheduler.
Stopper == {"owner", "main"}

VARIABLES
  state,     \* SchedulerStats.state
  paused,    \* _pause_event is clear
  stop,      \* _stop_event is set
  starts,    \* how often it was started
  poller,    \* the poll loop, and the due definitions it has read
  stopper,   \* the calls of stop
  active,    \* _active_task_ids
  fires,     \* the coroutines of _execute_task
  dueTasks   \* the definitions whose row is due, by next_run_at

loopVars == <<state, paused, stop, starts, poller, stopper, active, fires, dueTasks>>

LoopInit ==
  /\ state = "stopped" /\ paused = FALSE /\ stop = FALSE /\ starts = 0
  /\ poller = [at |-> "over", batch |-> <<>>]
  /\ stopper = [s \in Stopper |-> "idle"]
  /\ active = {} /\ fires = {}
  /\ dueTasks = <<>>

Poller(at, batch) == poller' = [at |-> at, batch |-> batch]
SameLoop == UNCHANGED <<state, paused, stop, starts, poller, stopper>>
SameTasks == UNCHANGED <<active, fires, dueTasks>>

-----------------------------------------------------------------------------
(* The fires.                                                                  *)

\* Faulty variant: a task that waits for the semaphore is not under way yet.
FreeUntilRunning(t) == ~ \E f \in fires : f.task = t /\ f.at = "running"
Free(t) == t \notin active

\* A fire of t, waiting for the semaphore; old says that it is the one of an earlier
\* start, and by what keeps the fire going when the scheduler is stopped.
FireOf(t, by) ==
  [task |-> t, at |-> "waiting", by |-> by, old |-> FALSE,
   n |-> Cardinality({f \in fires : f.task = t})]

\* trigger, whatever state the scheduler is in.
TriggerTask(t) ==
  /\ Free(t)
  /\ active' = active \cup {t}
  /\ fires' = fires \cup {FireOf(t, "itself")}
  /\ SameLoop /\ UNCHANGED dueTasks

\* async with self._semaphore, and _execute_task_via_db.
BeginFire(f) ==
  /\ f.at = "waiting"
  /\ Cardinality({g \in fires : g.at = "running" /\ g.old = f.old}) < MaxConcurrent
  /\ fires' = (fires \ {f}) \cup {[f EXCEPT !.at = "running"]}
  /\ SameLoop /\ UNCHANGED <<active, dueTasks>>

Position(t) == CHOOSE i \in DOMAIN dueTasks : dueTasks[i] = t

\* The schedule is advanced, or that fails and it stays due; the finally clause
\* forgets the task in either case.
EndFire(f, advanced) ==
  /\ f.at = "running"
  /\ dueTasks' = IF advanced /\ Contains(dueTasks, f.task)
                 THEN RemoveAt(dueTasks, Position(f.task)) ELSE dueTasks
  /\ active' = active \ {f.task}
  /\ fires' = fires \ {f}
  /\ SameLoop

BecomesDue(t) ==
  /\ ~ Contains(dueTasks, t)
  /\ dueTasks' = Append(dueTasks, t)
  /\ SameLoop /\ UNCHANGED <<active, fires>>

-----------------------------------------------------------------------------
(* The poll loop.                                                              *)

\* Faulty variant: nobody waits for the pause to end.
PollUnpaused ==
  /\ poller.at \in {"top", "woken"}
  /\ Poller(IF stop THEN "over" ELSE "reading", <<>>)
  /\ UNCHANGED <<state, paused, stop, starts, stopper>> /\ SameTasks
\* The stop event, the pause event and the stop event again; who waited for the end
\* of a pause does not look whether another has begun.
Poll ==
  /\ poller.at \in {"top", "woken"}
  /\ Poller(IF stop THEN "over"
            ELSE IF poller.at = "top" /\ paused THEN "held" ELSE "reading", <<>>)
  /\ UNCHANGED <<state, paused, stop, starts, stopper>> /\ SameTasks

\* Faulty variant: the latest are read first.
BatchLatest ==
  IF Len(dueTasks) <= 2 * MaxConcurrent THEN dueTasks
  ELSE SubSeq(Reverse(dueTasks), 1, 2 * MaxConcurrent)
\* get_due_scheduled_tasks, longest due first.
Batch ==
  IF Len(dueTasks) <= 2 * MaxConcurrent THEN dueTasks ELSE SubSeq(dueTasks, 1, 2 * MaxConcurrent)

\* _get_due_tasks; a failure is logged and finds nothing due.
Read ==
  /\ poller.at = "reading"
  /\ Poller("firing", Batch) \/ Poller("firing", <<>>)
  /\ UNCHANGED <<state, paused, stop, starts, stopper>> /\ SameTasks

\* What was read is started without a pause in between, unless it is active.
StartFires ==
  /\ poller.at = "firing"
  /\ LET started == {t \in Range(poller.batch) : ~ stop /\ Free(t)}
     IN  /\ active' = active \cup started
         /\ fires' = fires \cup {FireOf(t, "poll") : t \in started}
  /\ Poller("sleeping", <<>>)
  /\ UNCHANGED <<state, paused, stop, starts, stopper, dueTasks>>

\* The wait for the next poll, which a stop cuts short.
Sleep ==
  /\ poller.at = "sleeping"
  /\ Poller(IF stop THEN "over" ELSE "top", <<>>)
  /\ UNCHANGED <<state, paused, stop, starts, stopper>> /\ SameTasks

-----------------------------------------------------------------------------
(* The calls.                                                                  *)

\* start of a scheduler that is stopped: new events, a new semaphore, a new loop.  That
\* the calls of stop have returned is up to the caller, who awaits them.
Start ==
  /\ state = "stopped" /\ \A s \in Stopper : stopper[s] = "idle"
  /\ starts < MaxStarts
  /\ starts' = starts + 1
  /\ state' = "running" /\ paused' = FALSE /\ stop' = FALSE
  /\ Poller("top", <<>>)
  /\ fires' = {[f EXCEPT !.old = TRUE] : f \in fires}
  /\ UNCHANGED <<stopper, active, dueTasks>>

Pause ==
  /\ state = "running"
  /\ state' = "paused" /\ paused' = TRUE
  /\ UNCHANGED <<stop, starts, poller, stopper>> /\ SameTasks

Woken == [poller EXCEPT !.at = IF @ = "held" THEN "woken" ELSE @]
Resume ==
  /\ state = "paused"
  /\ state' = "running" /\ paused' = FALSE /\ poller' = Woken
  /\ UNCHANGED <<stop, starts, stopper>> /\ SameTasks

\* stop tells the loop, paused or not; a second call does the same again.
BeginStop(s) ==
  /\ stopper[s] = "idle" /\ state # "stopped"
  /\ state' = "stopping" /\ stop' = TRUE /\ paused' = FALSE /\ poller' = Woken
  /\ stopper' = [stopper EXCEPT ![s] = "polling"]
  /\ UNCHANGED starts /\ SameTasks

\* run_scheduler stops what is no longer running; its signal handler, and the lifespan
\* of a server or the runtime that owns the scheduler, stop it at any time.
MainStops == state \notin {"running", "paused"} /\ BeginStop("main")
OwnerStops == BeginStop("owner")

\* Faulty variant: the loop is told to stop, but not waited for.
PollerEndsAtOnce(s) ==
  /\ stopper[s] = "polling"
  /\ stopper' = [stopper EXCEPT ![s] = "draining"]
  /\ UNCHANGED <<state, paused, stop, starts, poller>> /\ SameTasks
\* The loop has ended, or is cancelled after 30 seconds; another call that waits for
\* it is then cancelled as well.
PollerEnds(s) ==
  /\ stopper[s] = "polling"
  /\ \/ /\ poller.at = "over"
        /\ stopper' = [stopper EXCEPT ![s] = "draining"]
     \/ /\ poller.at # "over"
        /\ stopper' = [r \in Stopper |-> IF r = s THEN "draining"
                         ELSE IF stopper[r] = "polling" THEN "idle" ELSE stopper[r]]
  /\ Poller("over", <<>>)
  /\ UNCHANGED <<state, paused, stop, starts>> /\ SameTasks

\* Faulty variant: no deadline for the fires.
DrainedEver(s) ==
  /\ stopper[s] = "draining" /\ active = {}
  /\ state' = "stopped"
  /\ stopper' = [stopper EXCEPT ![s] = "idle"]
  /\ UNCHANGED <<paused, stop, starts, poller>> /\ SameTasks

\* The fires have ended, or are left to themselves after 60 seconds.
Drained(s) ==
  /\ stopper[s] = "draining"
  /\ state' = "stopped"
  /\ stopper' = [stopper EXCEPT ![s] = "idle"]
  /\ fires' = {[f EXCEPT !.by = "itself"] : f \in fires}
  /\ UNCHANGED <<paused, stop, starts, poller, active, dueTasks>>

-----------------------------------------------------------------------------
Loop == Poll \/ Read \/ StartFires \/ Sleep
Stopping(s) == PollerEnds(s) \/ Drained(s)

LoopNext ==
  \/ Loop \/ Start \/ Pause \/ Resume \/ MainStops \/ OwnerStops
  \/ \E s \in Stopper : Stopping(s)
  \/ \E t \in Task : TriggerTask(t) \/ BecomesDue(t)
  \/ \E f \in fires : BeginFire(f) \/ \E advanced \in BOOLEAN : EndFire(f, advanced)

LoopSpec == LoopInit /\ [][LoopNext]_loopVars

\* The event loop goes on, and the read of the due definitions does not fail for ever.
\* Nothing is assumed of the fires: an execution may last for good.
FairLoopSpec ==
  /\ LoopSpec
  /\ WF_loopVars(Loop) /\ SF_loopVars(Read /\ poller'.batch = Batch)
  /\ \A s \in Stopper : WF_loopVars(Stopping(s))

-----------------------------------------------------------------------------
(* Properties                                                                  *)

\* Every variable has its type, and a poll never holds more than twice what may run.
LoopTypeOK ==
  /\ state \in {"stopped", "running", "paused", "stopping"}
  /\ paused \in BOOLEAN /\ stop \in BOOLEAN /\ starts \in 0 .. MaxStarts
  /\ poller \in [at : {"top", "held", "woken", "reading", "firing", "sleeping", "over"},
                 batch : Seq(Task)]
  /\ Len(poller.batch) <= 2 * MaxConcurrent
  /\ stopper \in [Stopper -> {"idle", "polling", "draining"}]
  /\ active \subseteq Task
  /\ fires \subseteq [task : Task, at : {"waiting", "running"}, by : {"poll", "itself"},
                     old : BOOLEAN, n : Nat]
  /\ dueTasks \in Seq(Task)

\* No definition is fired twice at the same time by one process: not by a poll while
\* its fire waits for the semaphore, not by a trigger, and not after a restart by
\* fires the stop before had left. And none stays marked as active without a fire,
\* which would keep it from ever being fired again (internal.py, _poll_loop, trigger
\* and the finally clause of _execute_task).
OneFire ==
  /\ \A f, g \in fires : f.task = g.task => f = g
  /\ active = {f.task : f \in fires}

\* A stopped scheduler starts nothing by itself: its loop is over, and what still runs
\* was triggered by hand or is what the stop said it gave up (internal.py, stop),
\* also when the signal handler and run_scheduler stop it at once.
StoppedIsQuiet ==
  state = "stopped" =>
    poller.at = "over" /\ \A f \in fires : f.by = "itself"

\* Why: fires are given up only after the loop is over, and it begins again only when
\* no call of stop is left.
OverBeforeDraining ==
  (\E s \in Stopper : stopper[s] = "draining") => poller.at = "over"

\* Together, and inductive.
LoopInv == LoopTypeOK /\ OneFire /\ StoppedIsQuiet /\ OverBeforeDraining

\* A pause that lasts ends the polls, though one may be under way or begin when a
\* resume is taken back at once (internal.py, pause).
PauseTakesEffect == state = "paused" ~> state # "paused" \/ poller.at = "held"

\* A stop comes to an end, whether or not the loop and the fires do (internal.py, stop).
StopEnds == state = "stopping" ~> state = "stopped"

\* A pause and a stop take effect, however they and the loop's awaits interleave.
CallsTakeEffect == PauseTakesEffect /\ StopEnds

\* The definition that has been due longest is fired, whatever became of the fires
\* before and however many are due with it, unless the scheduler is paused or stopped
\* (internal.py, _poll_loop; get_due_scheduled_tasks).
LongestDueIsFired ==
  []<>(state # "running" \/ dueTasks = <<>> \/ Head(dueTasks) \in active)
=============================================================================
