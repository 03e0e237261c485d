--------------------------- MODULE ScheduleDispatch ---------------------------
(***************************************************************************)
(* One schedule, the cluster that dispatches it and the requests that      *)
(* trigger it.                                                             *)
(*                                                                         *)
(* A fire clones the definition into a run stamped with the key of its     *)
(* occurrence and then advances the definition.  The schedulers of the     *)
(* nodes that lead, or believe they do, and the requests of                *)
(* schedule.trigger share only the rows; the definition is read three      *)
(* times in a fire, and nothing ties the readings together.                *)
(*                                                                         *)
(* Time is counted in occurrences: slot s is due when the clock shows s,   *)
(* and the next slot is the first one after now, as for a cron expression. *)
(***************************************************************************)
EXTENDS LeaderElection, Sequences, FiniteSets

CONSTANTS
  Request,      \* requests of schedule.trigger or of the webhook, one fire each
  Once,         \* the schedule is of type "once"
  Cap,          \* max_runs, or NoCap
  NoCap,
  MaxTime       \* bound: the last slot the clock reaches

ASSUME ScheduleAssumption ==
  /\ Request \cap Node = {} /\ IsFiniteSet(Request \cup Node)
  /\ Once \in BOOLEAN
  /\ Cap \in Nat \cup {NoCap} /\ NoCap \notin Nat
  /\ MaxTime \in Nat

VARIABLES
  clock,
  def,          \* schedule columns of the definition: enabled, next_run_at, run_count
  runs,         \* the run instances created, each with its key and when it was
  due,          \* the scheduler's poll has read the definition as due
  fire          \* the fire under way: in _active_task_ids of a scheduler, or a request

scheduleVars == <<clock, def, runs, due, fire>>
vars == <<electionVars, scheduleVars>>

NoSlot == 0
Slot == 0 .. MaxTime + 1
Firer == Node \cup Request
Definition == [enabled: BOOLEAN, next: Slot, count: Nat]
FireState == [at: {"idle", "selected", "cloning", "advancing", "writing", "done"},
              key: Slot, outcome: {"none", "created", "duplicate", "failed"},
              read: Definition, now: 0 .. MaxTime]
Idle == [at |-> "idle", key |-> NoSlot, outcome |-> "none",
         read |-> [enabled |-> TRUE, next |-> NoSlot, count |-> 0], now |-> 0]

TypeOK ==
  /\ ElectionTypeOK
  /\ clock \in 0 .. MaxTime
  /\ def \in Definition
  /\ runs \in Seq([key: Slot, at: 0 .. MaxTime])
  /\ due \in [Node -> BOOLEAN]
  /\ fire \in [Firer -> FireState]

Init ==
  /\ ElectionInit
  /\ clock = 0
  /\ def = [enabled |-> TRUE, next |-> 1, count |-> 0]
  /\ runs = <<>>
  /\ due = [n \in Node |-> FALSE]
  /\ fire = [p \in Firer |-> Idle]

\* max_runs is set and the count has reached it.
Capped(count) == Cap # NoCap /\ count >= Cap
Taken(key) == \E i \in DOMAIN runs : runs[i].key = key
Ended(p) == [Idle EXCEPT !.at = IF p \in Node THEN "idle" ELSE "done"]
Goto(p, step) == fire' = [fire EXCEPT ![p] = step]

-----------------------------------------------------------------------------
(* The poll loop and the requests.                                          *)

\* get_due_scheduled_tasks.
IsDue ==
  /\ def.enabled
  /\ def.next # NoSlot /\ def.next <= clock
  /\ ~Capped(def.count)

PollRead(n) ==
  /\ Dispatches(n) /\ ~due[n] /\ IsDue
  /\ due' = [due EXCEPT ![n] = TRUE]
  /\ UNCHANGED <<electionVars, clock, def, runs, fire>>

\* What the poll read is fired unless the process is firing it already.
PollFire(n) ==
  /\ Dispatches(n) /\ due[n]
  /\ due' = [due EXCEPT ![n] = FALSE]
  /\ IF fire[n].at = "idle" THEN Goto(n, [Idle EXCEPT !.at = "selected"])
     ELSE UNCHANGED fire
  /\ UNCHANGED <<electionVars, clock, def, runs>>

\* A request fires the schedule whether it is due or not.
Trigger(r) ==
  /\ fire[r].at = "idle"
  /\ Goto(r, [Idle EXCEPT !.at = "selected"])
  /\ UNCHANGED <<electionVars, clock, def, runs, due>>

-----------------------------------------------------------------------------
(* A fire.                                                                  *)

\* Faulty variant: the key names the definition and not its slot.
DefinitionKey(d) == IF d.next = NoSlot THEN NoSlot ELSE 1

\* scheduled_dispatch_key: one key for each slot of the definition, none without one.
DispatchKey(d) == d.next

\* The definition is read and the key is taken from the slot it shows now.
ReadDefinition(p) ==
  /\ fire[p].at = "selected"
  /\ Goto(p, [fire[p] EXCEPT !.at = "cloning", !.key = DispatchKey(def)])
  /\ UNCHANGED <<electionVars, clock, def, runs, due>>

\* Faulty variant: an occurrence that was dispatched is left as it is.
LeaveDuplicate(p) ==
  /\ fire[p].at = "cloning" /\ fire[p].key # NoSlot /\ Taken(fire[p].key)
  /\ Goto(p, Ended(p))
  /\ UNCHANGED <<electionVars, clock, def, runs, due>>

\* The unique index rejects the second run of an occurrence; a request stops here,
\* a scheduler advances the schedule.
RejectDuplicate(p) ==
  /\ fire[p].at = "cloning" /\ fire[p].key # NoSlot /\ Taken(fire[p].key)
  /\ IF p \in Node THEN Goto(p, [fire[p] EXCEPT !.at = "advancing", !.outcome = "duplicate"])
     ELSE Goto(p, Ended(p))
  /\ UNCHANGED <<electionVars, clock, def, runs, due>>

\* The run is saved.  Its execution, if it is in process, lasts until Advance.
CreateRun(p) ==
  /\ fire[p].at = "cloning"
  /\ fire[p].key = NoSlot \/ ~Taken(fire[p].key)
  /\ runs' = Append(runs, [key |-> fire[p].key, at |-> clock])
  /\ Goto(p, [fire[p] EXCEPT !.at = "advancing", !.outcome = "created"])
  /\ UNCHANGED <<electionVars, clock, def, due>>

\* The clone cannot be made or saved, be it because the definition was submitted as a
\* run of its own: the schedule is advanced all the same.
CreateFails(p) ==
  /\ fire[p].at = "cloning"
  /\ Goto(p, [fire[p] EXCEPT !.at = "advancing", !.outcome = "failed"])
  /\ UNCHANGED <<electionVars, clock, def, runs, due>>

\* complete_scheduled_run reads the definition ...
AdvanceRead(p) ==
  /\ fire[p].at = "advancing"
  /\ Goto(p, [fire[p] EXCEPT !.at = "writing", !.read = def, !.now = clock])
  /\ UNCHANGED <<electionVars, clock, def, runs, due>>

\* Faulty variant: every fire counts.
CountedAlways(read, outcome) == read.count + 1

\* count_run: only the fire that created a run counts it.
Counted(read, outcome) == IF outcome = "created" THEN read.count + 1 ELSE read.count

\* The definition as computed from what was read.
Advanced(read, now, outcome) ==
  LET count == Counted(read, outcome)
      ended == Once \/ Capped(count)
  IN [enabled |-> read.enabled /\ ~ended,
      next    |-> IF ended THEN NoSlot ELSE now + 1,
      count   |-> count]

\* Faulty variant: the whole row is written back.
WrittenWhole(read, new) == new

\* The session writes the columns that differ from what it read, and no others.
Written(read, new) == [f \in DOMAIN def |-> IF new[f] # read[f] THEN new[f] ELSE def[f]]

\* ... and writes it, locking nothing in between.
AdvanceWrite(p) ==
  /\ fire[p].at = "writing"
  /\ LET f == fire[p] IN def' = Written(f.read, Advanced(f.read, f.now, f.outcome))
  /\ Goto(p, Ended(p))
  /\ UNCHANGED <<electionVars, clock, runs, due>>

\* An error while advancing is logged, and the fire is over.
AdvanceFails(p) ==
  /\ fire[p].at \in {"advancing", "writing"}
  /\ Goto(p, Ended(p))
  /\ UNCHANGED <<electionVars, clock, def, runs, due>>

RequestDies(r) ==
  /\ fire[r].at \notin {"idle", "done"}
  /\ Goto(r, Ended(r))
  /\ UNCHANGED <<electionVars, clock, def, runs, due>>

Fire(p) ==
  \/ ReadDefinition(p) \/ RejectDuplicate(p) \/ CreateRun(p) \/ CreateFails(p)
  \/ AdvanceRead(p) \/ AdvanceWrite(p) \/ AdvanceFails(p)

-----------------------------------------------------------------------------
\* A step of the election: what a node that goes down was firing is lost, and a node
\* that stops dispatching forgets what its poll read but finishes its fire.
Elect ==
  /\ ElectionNext
  /\ due' = [n \in Node |-> due[n] /\ role'[n] = "leader"]
  /\ fire' = [p \in Firer |-> IF p \in Node /\ role'[p] = "down" THEN Idle ELSE fire[p]]
  /\ UNCHANGED <<clock, def, runs>>

Tick ==
  /\ clock < MaxTime
  /\ clock' = clock + 1
  /\ UNCHANGED <<electionVars, def, runs, due, fire>>

ScheduleStep ==
  \/ Tick
  \/ \E n \in Node : PollRead(n) \/ PollFire(n)
  \/ \E r \in Request : Trigger(r) \/ RequestDies(r)
  \/ \E p \in Firer : Fire(p)

Next == Elect \/ ScheduleStep

Spec == Init /\ [][Next]_vars

\* The poll loop of a node that dispatches goes on, and so does a fire; reading and
\* writing the schedule fails sometimes, and not for ever.
Cloning(p) == ReadDefinition(p) \/ RejectDuplicate(p) \/ CreateRun(p)
Fairness ==
  \A n \in Node :
    /\ WF_vars(PollRead(n)) /\ WF_vars(PollFire(n)) /\ WF_vars(Cloning(n))
    /\ SF_vars(AdvanceRead(n)) /\ SF_vars(AdvanceWrite(n))
FairSpec == Spec /\ Fairness

-----------------------------------------------------------------------------
(* Properties.                                                              *)

\* run_count never counts a fire that made no run, or a run twice, however the fires
\* of several nodes overlap and whichever of them die.
CountIsHonest == def.count <= Len(runs)

\* Why: every fire that made a run and has not counted it has a run of its own beyond
\* those the definition counts, and beyond those it counted when the fire read it.
Uncounted == Cardinality({p \in Firer : fire[p].outcome = "created"})
CountInv ==
  /\ TypeOK
  /\ def.count + Uncounted <= Len(runs)
  /\ \A p \in Firer : fire[p].at = "writing" => fire[p].read.count + Uncounted <= Len(runs)

\* A schedule that was disabled stays so: a fire that read it before and writes it
\* after does not bring it back.
DisabledStays == [][~def.enabled => ~def'.enabled]_vars

\* The schedule leaves an occurrence only when it has its run, or when creating one
\* failed: neither a crash, nor a handoff, nor a duplicate loses it.
Given(slot) ==
  \/ Taken(slot)
  \/ \E p \in Firer : fire[p].outcome = "failed"
OccurrencesRun == [][def.next # NoSlot /\ def'.next # def.next => Given(def.next)]_vars

\* A due occurrence does not stay due: a duplicate left by a crash, or a run that
\* could not be saved, does not stop the schedule while its node dispatches.
ScheduleAdvances ==
  \A n \in Node : \A s \in 1 .. MaxTime :
    Dispatches(n) /\ IsDue /\ def.next = s ~> def.next # s \/ ~Dispatches(n)

-----------------------------------------------------------------------------
(* What the documentation says and the code does not do.                    *)

\* Effectively-once dispatch: a schedule of type "once" makes one run.
OnceRunsOnce == Once => Len(runs) <= 1

\* max_runs caps the runs.
CapRespected == Cap = NoCap \/ Len(runs) <= Cap

\* Manual triggers pass no key: a run with the key of an occurrence was made when
\* the occurrence was due.
KeyedWhenDue == \A i \in DOMAIN runs : runs[i].key <= runs[i].at
=============================================================================
