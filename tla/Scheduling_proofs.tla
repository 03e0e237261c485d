-------------------------- MODULE Scheduling_proofs --------------------------
(***************************************************************************)
(* Proofs about ScheduleDispatch, for any set of nodes and of requests,    *)
(* about the calendar that ScheduleCalendar puts behind its slots, and     *)
(* about SchedulerLoop, for any set of definitions, any number of fires at *)
(* once and any number of starts.                                          *)
(*                                                                         *)
(* Several fires may read run_count before any of them writes it, and a    *)
(* late writer may even put a smaller count back.  What holds nevertheless *)
(* is a budget: a fire that made a run owns one of the runs until it ends, *)
(* in excess of the count it may write.                                    *)
(*                                                                         *)
(* Of the calendar: months are laid end to end, so an instant has one day, *)
(* a day one month, and their order is that of the instants; then each     *)
(* calculator's search ends at the first occurrence that is left.          *)
(***************************************************************************)
EXTENDS ScheduleCalendar, SchedulerLoop, FiniteSetTheorems, WellFoundedInduction, TLAPS

Uncounting == {p \in Firer : fire[p].outcome = "created"}

\* A fire that is only moved to another place keeps its data.
LEMMA PlaceForms ==
  ASSUME NEW f \in FireState, NEW at \in {"idle", "selected", "done"}
  PROVE  /\ [f EXCEPT !.at = at] \in FireState
         /\ [f EXCEPT !.at = at].outcome = f.outcome
         /\ [f EXCEPT !.at = at].at = at
  BY DEF FireState

\* The records the model builds are in their types.
LEMMA IdleIsState == ScheduleAssumption => Idle \in FireState /\ Idle.outcome = "none"
  BY DEF ScheduleAssumption, Idle, FireState, Slot, Definition, NoSlot

LEMMA EndedIsState ==
  ASSUME ScheduleAssumption, NEW p
  PROVE  Ended(p) \in FireState /\ Ended(p).outcome = "none" /\ Ended(p).at # "writing"
  BY IdleIsState, PlaceForms DEF Ended

\* There are finitely many fires to count.
LEMMA UncountedIsNat ==
  /\ IsFiniteSet(Uncounting)
  /\ Uncounted \in Nat
<1>1. IsFiniteSet(Firer)
  BY ScheduleAssumption DEF ScheduleAssumption, Firer
<1>2. IsFiniteSet(Uncounting)
  BY <1>1, FS_Subset DEF Uncounting
<1>3. QED
  BY <1>2, FS_CardinalityType DEF Uncounting, Uncounted

\* A step that makes no fire a creator of a run leaves no more of them.
LEMMA UncountedShrinks ==
  ASSUME \A q \in Firer : fire'[q].outcome = "created" => fire[q].outcome = "created"
  PROVE  Uncounted' \in Nat /\ Uncounted' <= Uncounted
<1>1. Uncounting' \subseteq Uncounting
  BY DEF Uncounting
<1>2. IsFiniteSet(Uncounting') /\ Cardinality(Uncounting') <= Cardinality(Uncounting)
  BY <1>1, UncountedIsNat, FS_Subset
<1>3. Cardinality(Uncounting') \in Nat
  BY <1>2, FS_CardinalityType
<1>4. QED
  BY <1>2, <1>3 DEF Uncounting, Uncounted

\* A step that ends the fire of a creator leaves one less.
LEMMA UncountedDrops ==
  ASSUME NEW p \in Firer, fire[p].outcome = "created", fire'[p].outcome # "created",
         \A q \in Firer : q # p => fire'[q] = fire[q]
  PROVE  Uncounted' = Uncounted - 1
<1>1. Uncounting' = Uncounting \ {p} /\ p \in Uncounting
  BY DEF Uncounting
<1>2. Cardinality(Uncounting') = Cardinality(Uncounting) - 1
  BY <1>1, UncountedIsNat, FS_RemoveElement
<1>3. QED
  BY <1>2 DEF Uncounting, Uncounted

\* A step of one fire makes at most one more.
LEMMA UncountedGrows ==
  ASSUME NEW p \in Firer, \A q \in Firer : q # p => fire'[q] = fire[q]
  PROVE  Uncounted' \in Nat /\ Uncounted' <= Uncounted + 1
<1>1. Uncounting' \subseteq Uncounting \cup {p}
  BY DEF Uncounting
<1>2. IsFiniteSet(Uncounting \cup {p}) /\ Cardinality(Uncounting \cup {p}) <= Uncounted + 1
  BY UncountedIsNat, FS_AddElement, UncountedIsNat DEF Uncounting, Uncounted
<1>3. IsFiniteSet(Uncounting') /\ Cardinality(Uncounting') <= Cardinality(Uncounting \cup {p})
  BY <1>1, <1>2, FS_Subset
<1>4. Cardinality(Uncounting') \in Nat /\ Cardinality(Uncounting \cup {p}) \in Nat
  BY <1>2, <1>3, FS_CardinalityType
<1>5. QED
  BY <1>2, <1>3, <1>4, UncountedIsNat DEF Uncounting, Uncounted

-----------------------------------------------------------------------------
\* The definition counts no run, and there is none.
LEMMA CountInit == Init => CountInv
<1> SUFFICES ASSUME Init PROVE CountInv
  OBVIOUS
<1> USE ScheduleAssumption DEF Init
<1>1. TypeOK
  <2>1. ElectionTypeOK
    BY ElectionAssumption DEF ElectionInit, ElectionTypeOK, NoLeader, NoLease, Role
  <2>2. fire \in [Firer -> FireState]
    BY IdleIsState
  <2>3. QED
    BY <2>1, <2>2 DEF TypeOK, ScheduleAssumption, Definition, Slot
<1>2. Uncounting = {}
  BY IdleIsState DEF Uncounting
<1>3. Uncounted = 0
  BY <1>2, FS_EmptySet DEF Uncounting, Uncounted
<1>4. QED
  BY <1>1, <1>3 DEF CountInv, Idle

\* The election keeps the types of its own rows: its invariant is not assumed here.
LEMMA ElectionTypes ==
  ASSUME ElectionTypeOK, [ElectionNext]_electionVars
  PROVE  ElectionTypeOK'
<1> USE ElectionAssumption DEF ElectionTypeOK, NoLease, Role
<1>1. CASE UNCHANGED electionVars
  BY <1>1 DEF electionVars
<1>2. CASE Expire
  BY <1>2 DEF Expire
<1>3. ASSUME NEW n \in Node, ElectionStep(n)
      PROVE  ElectionTypeOK'
  <2>1. CASE Acquire(n)
    BY <2>1 DEF Acquire
  <2>2. CASE FallBack(n) \/ RenewFails(n) \/ RenewRaises(n)
    BY <2>2 DEF FallBack, RenewFails, RenewRaises
  <2>3. CASE Demote(n)
    BY <2>3 DEF Demote
  <2>4. CASE BeginShutdown(n)
    BY <2>4 DEF BeginShutdown
  <2>5. CASE Release(n)
    BY <2>5 DEF Release, Released, NoLeader
  <2>6. CASE Leave(n)
    BY <2>6 DEF Leave
  <2>7. QED
    BY <1>3, <2>1, <2>2, <2>3, <2>4, <2>5, <2>6 DEF ElectionStep
<1>4. QED
  BY <1>1, <1>2, <1>3 DEF ElectionNext

\* A fire that takes a step becomes that step, and no other fire changes.
LEMMA GotoStep ==
  ASSUME fire \in [Firer -> FireState], NEW p \in Firer, NEW step \in FireState, Goto(p, step)
  PROVE  /\ fire' \in [Firer -> FireState]
         /\ fire'[p] = step
         /\ \A q \in Firer : q # p => fire'[q] = fire[q]
  BY DEF Goto

\* The forms a step takes.
LEMMA StateForms ==
  ASSUME NEW f \in FireState, NEW at \in {"cloning", "advancing", "writing"},
         NEW key \in Slot, NEW outcome \in {"created", "duplicate", "failed"},
         NEW read \in Definition, NEW now \in 0 .. MaxTime
  PROVE  /\ [f EXCEPT !.at = at, !.key = key] \in FireState
         /\ [f EXCEPT !.at = at, !.outcome = outcome] \in FireState
         /\ [f EXCEPT !.at = at, !.read = read, !.now = now] \in FireState
  BY DEF FireState

\* What is written: the count of a fire that made a run, and the count that is there
\* for one that made none.
LEMMA WrittenCount ==
  ASSUME def \in Definition, NEW f \in FireState
  PROVE  LET w == Written(f.read, Advanced(f.read, f.now, f.outcome))
         IN /\ w \in Definition
            /\ f.outcome = "created" => w.count = f.read.count + 1
            /\ f.outcome # "created" => w.count = def.count
<1> DEFINE new == Advanced(f.read, f.now, f.outcome)
           w == Written(f.read, new)
<1> USE ScheduleAssumption DEF ScheduleAssumption, FireState, Definition, Slot, NoSlot
<1>1. /\ new \in Definition
      /\ new.count = IF f.outcome = "created" THEN f.read.count + 1 ELSE f.read.count
  <2>1. \A c \in Nat : Capped(c) \in BOOLEAN
    BY DEF Capped
  <2>2. Counted(f.read, f.outcome) \in Nat
    BY DEF Counted
  <2>3. f.now + 1 \in Slot
    OBVIOUS
  <2>4. QED
    BY <2>1, <2>2, <2>3 DEF Advanced, Counted
<1>2. DOMAIN def = {"enabled", "next", "count"}
  OBVIOUS
<1>3. w = [x \in {"enabled", "next", "count"} |->
             IF new[x] # f.read[x] THEN new[x] ELSE def[x]]
  BY <1>2 DEF Written
<1>4. w \in Definition
  BY <1>1, <1>3
<1>5. w.count = IF new.count # f.read.count THEN new.count ELSE def.count
  BY <1>3
<1>6. QED
  BY <1>1, <1>4, <1>5

-----------------------------------------------------------------------------
\* A step of a fire that makes no run and writes nothing keeps the budget.
LEMMA QuietStep ==
  ASSUME CountInv, NEW p \in Firer, NEW step \in FireState, Goto(p, step),
         step.outcome = "created" => fire[p].outcome = "created",
         step.at = "writing" => step.read = def,
         UNCHANGED <<electionVars, clock, def, runs>>, due' \in [Node -> BOOLEAN]
  PROVE  CountInv'
<1> USE DEF CountInv, TypeOK
<1>1. /\ fire' \in [Firer -> FireState]
      /\ fire'[p] = step
      /\ \A q \in Firer : q # p => fire'[q] = fire[q]
  BY GotoStep
<1>2. Uncounted \in Nat /\ Uncounted' \in Nat /\ Uncounted' <= Uncounted
  BY <1>1, UncountedShrinks, UncountedIsNat
<1>3. TypeOK'
  BY <1>1 DEF electionVars, ElectionTypeOK
<1>4. def.count \in Nat /\ Len(runs) \in Nat
  BY DEF Definition
<1>5. def'.count + Uncounted' <= Len(runs')
  BY <1>2, <1>4
<1>6. ASSUME NEW q \in Firer, fire'[q].at = "writing"
      PROVE  fire'[q].read.count + Uncounted' <= Len(runs')
  <2>1. fire'[q].read.count \in Nat
    BY <1>1, <1>6 DEF FireState, Definition
  <2>2. CASE q = p
    BY <1>1, <1>2, <1>4, <1>6, <2>2
  <2>3. CASE q # p
    BY <1>1, <1>2, <1>4, <1>6, <2>1, <2>3
  <2>4. QED
    BY <2>2, <2>3
<1>7. QED
  BY <1>3, <1>5, <1>6

\* Every step of a fire keeps it.
LEMMA FireStep ==
  ASSUME CountInv, NEW p \in Firer, Fire(p)
  PROVE  CountInv'
<1>0. fire[p] \in FireState /\ def \in Definition /\ clock \in 0 .. MaxTime /\ MaxTime \in Nat
      /\ due \in [Node -> BOOLEAN] /\ def.count \in Nat /\ Len(runs) \in Nat /\ def.next \in Slot
  BY ScheduleAssumption DEF CountInv, TypeOK, Definition, ScheduleAssumption
<1>1. CASE ReadDefinition(p)
  <2> DEFINE step == [fire[p] EXCEPT !.at = "cloning", !.key = DispatchKey(def)]
  <2>1. step \in FireState
    BY <1>0, StateForms DEF DispatchKey
  <2>2. step.outcome = fire[p].outcome /\ step.at = "cloning"
    BY <1>0 DEF FireState
  <2>3. QED
    BY <1>0, <1>1, <2>1, <2>2, QuietStep DEF ReadDefinition
<1>2. CASE RejectDuplicate(p)
  <2>1. CASE p \in Node
    <3> DEFINE step == [fire[p] EXCEPT !.at = "advancing", !.outcome = "duplicate"]
    <3>1. step \in FireState
      BY <1>0, StateForms
    <3>2. step.outcome = "duplicate" /\ step.at = "advancing"
      BY <1>0 DEF FireState
    <3>3. QED
      BY <1>0, <1>2, <2>1, <3>1, <3>2, QuietStep DEF RejectDuplicate
  <2>2. CASE p \notin Node
    BY <1>0, <1>2, <2>2, EndedIsState, ScheduleAssumption, QuietStep DEF RejectDuplicate
  <2>3. QED
    BY <2>1, <2>2
<1>3. CASE CreateRun(p)
  <2> DEFINE step == [fire[p] EXCEPT !.at = "advancing", !.outcome = "created"]
             one == [key |-> fire[p].key, at |-> clock]
  <2>0. step \in FireState
    BY <1>0, StateForms
  <2>1. step \in FireState /\ step.at = "advancing"
    BY <1>0, <2>0 DEF FireState
  <2>2. /\ fire' \in [Firer -> FireState]
        /\ fire'[p] = step
        /\ \A q \in Firer : q # p => fire'[q] = fire[q]
    BY <1>3, <2>1, GotoStep DEF CreateRun, CountInv, TypeOK
  <2>3. Uncounted \in Nat /\ Uncounted' \in Nat /\ Uncounted' <= Uncounted + 1
    BY <2>2, UncountedGrows, UncountedIsNat
  <2>4. one \in [key: Slot, at: 0 .. MaxTime]
    BY <1>0 DEF FireState
  <2>5. runs' \in Seq([key: Slot, at: 0 .. MaxTime]) /\ Len(runs') = Len(runs) + 1
    BY <1>3, <2>4 DEF CreateRun, CountInv, TypeOK
  <2>6. TypeOK'
    BY <1>3, <2>2, <2>5 DEF CreateRun, CountInv, TypeOK, electionVars, ElectionTypeOK
  <2>7. def'.count + Uncounted' <= Len(runs')
    BY <1>0, <1>3, <2>3, <2>5 DEF CreateRun, CountInv
  <2>8. ASSUME NEW q \in Firer, fire'[q].at = "writing"
        PROVE  fire'[q].read.count + Uncounted' <= Len(runs')
    <3>1. q # p
      BY <2>1, <2>2, <2>8
    <3>2. fire[q].read.count + Uncounted <= Len(runs)
      BY <2>2, <2>8, <3>1 DEF CountInv
    <3>3. fire[q].read.count \in Nat /\ fire'[q] = fire[q]
      BY <2>2, <3>1 DEF CountInv, TypeOK, FireState, Definition
    <3>4. QED
      BY <1>0, <2>3, <2>5, <3>2, <3>3, SMTT(30)
  <2>9. QED
    BY <2>6, <2>7, <2>8 DEF CountInv
<1>4. CASE CreateFails(p)
  <2> DEFINE step == [fire[p] EXCEPT !.at = "advancing", !.outcome = "failed"]
  <2>1. step \in FireState
    BY <1>0, StateForms
  <2>2. step.outcome = "failed" /\ step.at = "advancing"
    BY <1>0 DEF FireState
  <2>3. QED
    BY <1>0, <1>4, <2>1, <2>2, QuietStep DEF CreateFails
<1>5. CASE AdvanceRead(p)
  <2> DEFINE step == [fire[p] EXCEPT !.at = "writing", !.read = def, !.now = clock]
  <2>1. step \in FireState
    BY <1>0, StateForms
  <2>2. step.outcome = fire[p].outcome /\ step.read = def
    BY <1>0 DEF FireState
  <2>3. QED
    BY <1>0, <1>5, <2>1, <2>2, QuietStep DEF AdvanceRead
<1>6. CASE AdvanceWrite(p)
  <2> DEFINE f == fire[p]
             w == Written(f.read, Advanced(f.read, f.now, f.outcome))
  <2>1. /\ w \in Definition
        /\ f.outcome = "created" => w.count = f.read.count + 1
        /\ f.outcome # "created" => w.count = def.count
    BY <1>0, WrittenCount
  <2>2. def' = w /\ Goto(p, Ended(p)) /\ f.at = "writing"
    BY <1>6 DEF AdvanceWrite
  <2>3. Ended(p) \in FireState /\ Ended(p).outcome = "none" /\ Ended(p).at # "writing"
    BY EndedIsState, ScheduleAssumption
  <2>4. /\ fire' \in [Firer -> FireState]
        /\ fire'[p] = Ended(p)
        /\ \A q \in Firer : q # p => fire'[q] = fire[q]
    BY <2>2, <2>3, GotoStep DEF CountInv, TypeOK
  <2>5. Uncounted \in Nat /\ Uncounted' \in Nat /\ Uncounted' <= Uncounted
    BY <2>3, <2>4, UncountedShrinks, UncountedIsNat
  <2>6. f.outcome = "created" => Uncounted' = Uncounted - 1
    BY <2>3, <2>4, UncountedDrops
  <2>7. TypeOK'
    BY <1>6, <2>1, <2>2, <2>4 DEF AdvanceWrite, CountInv, TypeOK, electionVars, ElectionTypeOK
  <2>8. runs' = runs /\ f.read.count \in Nat /\ f.read.count + Uncounted <= Len(runs)
        /\ def.count + Uncounted <= Len(runs)
    BY <1>0, <1>6, <2>2 DEF AdvanceWrite, CountInv, FireState, Definition
  <2>9. def'.count + Uncounted' <= Len(runs')
    <3>1. CASE f.outcome = "created"
      BY <1>0, <2>1, <2>2, <2>5, <2>6, <2>8, <3>1
    <3>2. CASE f.outcome # "created"
      BY <1>0, <2>1, <2>2, <2>5, <2>8, <3>2
    <3>3. QED
      BY <3>1, <3>2
  <2>10. ASSUME NEW q \in Firer, fire'[q].at = "writing"
         PROVE  fire'[q].read.count + Uncounted' <= Len(runs')
    <3>1. q # p
      BY <2>3, <2>4, <2>10
    <3>2. fire'[q] = fire[q] /\ fire[q].read.count \in Nat
      BY <2>4, <3>1 DEF CountInv, TypeOK, FireState, Definition
    <3>3. fire[q].read.count + Uncounted <= Len(runs)
      BY <2>10, <3>2 DEF CountInv
    <3>4. QED
      BY <1>0, <2>5, <2>8, <3>2, <3>3
  <2>11. QED
    BY <2>7, <2>9, <2>10 DEF CountInv
<1>7. CASE AdvanceFails(p)
  BY <1>0, <1>7, EndedIsState, ScheduleAssumption, QuietStep DEF AdvanceFails
<1>8. QED
  BY <1>1, <1>2, <1>3, <1>4, <1>5, <1>6, <1>7 DEF Fire

\* So does everything that leaves the fires alone, or ends some of them.
LEMMA OtherStep ==
  ASSUME CountInv, UNCHANGED <<def, runs>>, TypeOK',
         \A q \in Firer : fire'[q] = fire[q] \/ fire'[q] = Idle
  PROVE  CountInv'
<1>1. Idle.outcome = "none" /\ Idle.at = "idle"
  BY DEF Idle
<1>2. Uncounted \in Nat /\ Uncounted' \in Nat /\ Uncounted' <= Uncounted
  BY <1>1, UncountedShrinks, UncountedIsNat
<1>3. def.count \in Nat /\ Len(runs) \in Nat
  BY DEF CountInv, TypeOK, Definition
<1>4. def'.count + Uncounted' <= Len(runs')
  BY <1>2, <1>3 DEF CountInv
<1>5. ASSUME NEW q \in Firer, fire'[q].at = "writing"
      PROVE  fire'[q].read.count + Uncounted' <= Len(runs')
  <2>1. fire'[q] = fire[q] /\ fire[q].read.count \in Nat
    BY <1>1, <1>5 DEF CountInv, TypeOK, FireState, Definition
  <2>2. QED
    BY <1>2, <1>3, <1>5, <2>1 DEF CountInv
<1>6. QED
  BY <1>4, <1>5 DEF CountInv

\* Every step of the system keeps the budget.
LEMMA CountStep ==
  ASSUME CountInv, [Next]_vars
  PROVE  CountInv'
<1>1. CASE UNCHANGED vars
  <2>1. TypeOK'
    BY <1>1 DEF vars, scheduleVars, electionVars, CountInv, TypeOK, ElectionTypeOK
  <2>2. QED
    BY <1>1, <2>1, OtherStep DEF vars, scheduleVars
<1>2. CASE Elect
  <2>1. ElectionTypeOK'
    BY <1>2, ElectionTypes DEF Elect, CountInv, TypeOK
  <2>2. fire' \in [Firer -> FireState]
    BY <1>2, IdleIsState, ScheduleAssumption DEF Elect, CountInv, TypeOK
  <2>3. due' \in [Node -> BOOLEAN]
    BY <1>2 DEF Elect, CountInv, TypeOK
  <2>4. TypeOK'
    BY <1>2, <2>1, <2>2, <2>3 DEF Elect, CountInv, TypeOK
  <2>5. \A q \in Firer : fire'[q] = fire[q] \/ fire'[q] = Idle
    BY <1>2 DEF Elect
  <2>6. QED
    BY <1>2, <2>4, <2>5, OtherStep DEF Elect
<1>3. CASE Tick
  <2>1. TypeOK'
    BY <1>3, ScheduleAssumption
    DEF Tick, CountInv, TypeOK, ElectionTypeOK, electionVars, ScheduleAssumption
  <2>2. QED
    BY <1>3, <2>1, OtherStep DEF Tick
<1>4. ASSUME NEW n \in Node, PollRead(n)
      PROVE  CountInv'
  <2>1. TypeOK'
    BY <1>4 DEF PollRead, CountInv, TypeOK, ElectionTypeOK, electionVars
  <2>2. QED
    BY <1>4, <2>1, OtherStep DEF PollRead
<1>5. /\ [Idle EXCEPT !.at = "selected"] \in FireState
      /\ [Idle EXCEPT !.at = "selected"].outcome = "none"
      /\ [Idle EXCEPT !.at = "selected"].at = "selected"
  BY ScheduleAssumption, IdleIsState, PlaceForms
<1>6. ASSUME NEW n \in Node, PollFire(n)
      PROVE  CountInv'
  <2>1. due' \in [Node -> BOOLEAN] /\ n \in Firer
    BY <1>6 DEF PollFire, CountInv, TypeOK, Firer
  <2>2. CASE fire[n].at = "idle"
    BY <1>5, <1>6, <2>1, <2>2, QuietStep DEF PollFire
  <2>3. CASE fire[n].at # "idle"
    <3>1. TypeOK'
      BY <1>6, <2>1, <2>3 DEF PollFire, CountInv, TypeOK, ElectionTypeOK, electionVars
    <3>2. QED
      BY <1>6, <2>3, <3>1, OtherStep DEF PollFire
  <2>4. QED
    BY <2>2, <2>3
<1>7. ASSUME NEW r \in Request, Trigger(r)
      PROVE  CountInv'
  <2>1. r \in Firer /\ due' \in [Node -> BOOLEAN]
    BY <1>7 DEF Trigger, Firer, CountInv, TypeOK
  <2>2. QED
    BY <1>5, <1>7, <2>1, QuietStep DEF Trigger
<1>8. ASSUME NEW r \in Request, RequestDies(r)
      PROVE  CountInv'
  <2>1. r \in Firer /\ due' \in [Node -> BOOLEAN]
    BY <1>8 DEF RequestDies, Firer, CountInv, TypeOK
  <2>2. QED
    BY <1>8, <2>1, EndedIsState, ScheduleAssumption, QuietStep DEF RequestDies
<1>9. QED
  BY <1>1, <1>2, <1>3, <1>4, <1>6, <1>7, <1>8, FireStep DEF Next, ScheduleStep

\* The budget of runs holds of every behaviour.
THEOREM CountBudget == Spec => []CountInv
  BY CountInit, CountStep, PTL DEF Spec

\* run_count never exceeds the runs there are, for any number of nodes that believe
\* they lead, of requests that overlap with them and of fires that die between
\* making a run and counting it (complete_scheduled_run, count_run).
THEOREM HonestCount == Spec => []CountIsHonest
<1>1. CountInv => CountIsHonest
  BY UncountedIsNat DEF CountInv, CountIsHonest, TypeOK, Definition
<1>2. QED
  BY <1>1, CountBudget, PTL

-----------------------------------------------------------------------------
(* What a write does to the schedule.                                         *)

\* Written can take the schedule out of service and cannot bring it back.
LEMMA WriteKeepsDisabled ==
  ASSUME def \in Definition, NEW f \in FireState, ~def.enabled
  PROVE  ~Written(f.read, Advanced(f.read, f.now, f.outcome)).enabled
<1> DEFINE new == Advanced(f.read, f.now, f.outcome)
<1>1. f.read.enabled \in BOOLEAN /\ DOMAIN def = {"enabled", "next", "count"}
  BY DEF FireState, Definition
<1>2. Written(f.read, new).enabled =
        IF new.enabled # f.read.enabled THEN new.enabled ELSE def.enabled
  BY <1>1 DEF Written
<1>3. new.enabled # f.read.enabled => ~new.enabled
  BY <1>1 DEF Advanced
<1>4. QED
  BY <1>2, <1>3

\* The definition is only written where a fire ends.
LEMMA OnlyWritesChange ==
  ASSUME [Next]_vars, ~ \E p \in Firer : AdvanceWrite(p)
  PROVE  UNCHANGED def
BY DEF vars, scheduleVars, Next, Elect, ScheduleStep, Tick, PollRead, PollFire, Trigger,
       RequestDies, Fire, ReadDefinition, RejectDuplicate, CreateRun, CreateFails,
       AdvanceRead, AdvanceFails

\* However many nodes and requests overlap, none of their late writes enables a
\* schedule that another has ended or somebody disabled (complete_scheduled_run).
THEOREM NothingReenables == Spec => DisabledStays
<1>1. ASSUME CountInv, [Next]_vars, ~def.enabled
      PROVE  ~def'.enabled
  <2>1. CASE UNCHANGED def
    BY <1>1, <2>1
  <2>2. ASSUME NEW p \in Firer, AdvanceWrite(p)
        PROVE  ~def'.enabled
    <3>1. def \in Definition /\ fire[p] \in FireState
      BY <1>1 DEF CountInv, TypeOK
    <3>2. def' = Written(fire[p].read, Advanced(fire[p].read, fire[p].now, fire[p].outcome))
      BY <2>2 DEF AdvanceWrite
    <3>3. QED
      BY <1>1, <3>1, <3>2, WriteKeepsDisabled
  <2>3. QED
    BY <1>1, <2>1, <2>2, OnlyWritesChange
<1>2. CountInv /\ [Next]_vars => [~def.enabled => ~def'.enabled]_vars
  BY <1>1
<1>3. QED
  BY <1>2, CountBudget, PTL DEF Spec, DisabledStays

-----------------------------------------------------------------------------
(* One dispatcher.                                                            *)

\* Nobody writes the schedule between the reading a fire takes its key from and its
\* own write: the key it was given is the occurrence the schedule still shows.
FireIsOfNext(p) ==
  LET f == fire[p] IN
  /\ f.at \in {"cloning", "advancing", "writing"} => f.key = def.next
  /\ f.at \in {"advancing", "writing"} => f.outcome = "failed" \/ Taken(f.key)
SoleInv == CountInv /\ \A p \in Firer : FireIsOfNext(p)

Alone == Request = {} /\ \E n \in Node : Node = {n}

LEMMA SoleFireStep ==
  ASSUME SoleInv, NEW p \in Firer, Fire(p)
  PROVE  FireIsOfNext(p)' /\ (def.next # NoSlot /\ def'.next # def.next => Given(def.next))
<1>0. /\ fire \in [Firer -> FireState] /\ fire[p] \in FireState /\ FireIsOfNext(p)
      /\ runs \in Seq([key: Slot, at: 0 .. MaxTime])
  BY DEF SoleInv, CountInv, TypeOK
<1>1. Ended(p).at \in {"idle", "done"}
  BY DEF Ended, Idle
<1>2. CASE ReadDefinition(p)
  BY <1>0, <1>2 DEF ReadDefinition, Goto, FireIsOfNext, DispatchKey, FireState
<1>3. CASE RejectDuplicate(p)
  <2>1. def' = def /\ runs' = runs /\ Taken(fire[p].key) /\ fire[p].at = "cloning"
    BY <1>3 DEF RejectDuplicate
  <2>2. /\ fire'[p] \in {[fire[p] EXCEPT !.at = "advancing", !.outcome = "duplicate"], Ended(p)}
    BY <1>0, <1>3 DEF RejectDuplicate, Goto
  <2>3. QED
    BY <1>0, <1>1, <2>1, <2>2 DEF FireIsOfNext, Taken, FireState
<1>4. CASE CreateRun(p)
  <2>1. /\ def' = def /\ fire[p].at = "cloning"
        /\ runs' = Append(runs, [key |-> fire[p].key, at |-> clock])
        /\ fire'[p] = [fire[p] EXCEPT !.at = "advancing", !.outcome = "created"]
    BY <1>0, <1>4 DEF CreateRun, Goto
  <2>2. fire'[p].key = fire[p].key
    BY <1>0, <2>1 DEF FireState
  <2>3. Len(runs) + 1 \in DOMAIN runs' /\ runs'[Len(runs) + 1].key = fire[p].key
    BY <1>0, <2>1
  <2>4. QED
    BY <1>0, <2>1, <2>2, <2>3 DEF FireIsOfNext, Taken
<1>5. CASE CreateFails(p)
  BY <1>0, <1>5 DEF CreateFails, Goto, FireIsOfNext, FireState
<1>6. CASE AdvanceRead(p)
  <2>1. /\ def' = def /\ runs' = runs /\ fire[p].at = "advancing"
        /\ fire'[p] = [fire[p] EXCEPT !.at = "writing", !.read = def, !.now = clock]
    BY <1>0, <1>6 DEF AdvanceRead, Goto
  <2>2. QED
    BY <1>0, <2>1 DEF FireIsOfNext, FireState, Taken
<1>7. CASE AdvanceWrite(p)
  <2>1. fire'[p] = Ended(p) /\ fire[p].at = "writing"
    BY <1>0, <1>7 DEF AdvanceWrite, Goto
  <2>2. fire[p].outcome = "failed" \/ Taken(def.next)
    BY <1>0, <2>1 DEF FireIsOfNext
  <2>3. QED
    BY <1>1, <2>1, <2>2 DEF FireIsOfNext, Given
<1>8. CASE AdvanceFails(p)
  <2>1. fire'[p] = Ended(p) /\ def' = def
    BY <1>0, <1>8 DEF AdvanceFails, Goto
  <2>2. QED
    BY <1>1, <2>1 DEF FireIsOfNext
<1>9. QED
  BY <1>2, <1>3, <1>4, <1>5, <1>6, <1>7, <1>8 DEF Fire

LEMMA SoleStep ==
  ASSUME Alone, SoleInv, [Next]_vars
  PROVE  SoleInv' /\ (def.next # NoSlot /\ def'.next # def.next => Given(def.next))
<1>0. CountInv'
  BY CountStep DEF SoleInv
<1>1. Idle.at = "idle" /\ [Idle EXCEPT !.at = "selected"].at = "selected"
  BY DEF Idle
<1>2. ASSUME NEW p \in Firer, Fire(p)
      PROVE  SoleInv' /\ (def.next # NoSlot /\ def'.next # def.next => Given(def.next))
  <2>1. \A q \in Firer : q = p
    BY DEF Alone, Firer
  <2>2. QED
    BY <1>0, <1>2, <2>1, SoleFireStep DEF SoleInv
<1>3. CASE /\ UNCHANGED <<def, runs>>
           /\ \A q \in Firer : fire'[q] = fire[q] \/ fire'[q].at \in {"idle", "selected"}
  BY <1>0, <1>3 DEF SoleInv, FireIsOfNext, Taken
<1>4. CASE UNCHANGED vars \/ Elect \/ Tick \/ \E n \in Node : PollRead(n)
  BY <1>1, <1>3, <1>4 DEF vars, scheduleVars, Elect, Tick, PollRead
<1>5. CASE \E n \in Node : PollFire(n)
  <2>1. fire \in [Firer -> FireState]
    BY DEF SoleInv, CountInv, TypeOK
  <2>2. QED
    BY <1>1, <1>3, <1>5, <2>1 DEF PollFire, Goto
<1>6. QED
  BY <1>2, <1>4, <1>5 DEF Next, ScheduleStep, Alone

\* While one node dispatches and nobody triggers by hand, the schedule leaves an
\* occurrence only with its run or with a failure to create one, however often the
\* node crashes between the two (dispatch_due, complete_scheduled_run).
THEOREM NoOccurrenceIsLost == Alone /\ Spec => OccurrencesRun
<1> SUFFICES ASSUME Alone PROVE Spec => OccurrencesRun
  OBVIOUS
<1>1. SoleInv /\ [Next]_vars =>
        SoleInv' /\ [def.next # NoSlot /\ def'.next # def.next => Given(def.next)]_vars
  BY SoleStep
<1>2. Init => SoleInv
  BY CountInit DEF Init, SoleInv, FireIsOfNext, Idle
<1>3. QED
  BY <1>1, <1>2, PTL DEF Spec, OccurrencesRun

-----------------------------------------------------------------------------
(* Numbers.  The library's induction takes an operator, so both forms are   *)
(* proved for sets.                                                         *)

\* A set of numbers has a least one: induction by contradiction. The initial segments
\* of a member are finitely many, and a smallest of them belongs to the least member.
LEMMA Least ==
  ASSUME NEW T, T \subseteq Nat, T # {}
  PROVE  \E n \in T : \A m \in T : n <= m
<1>1. PICK t \in T : TRUE OBVIOUS
<1>. DEFINE D == 1..t
            Q == {1..n : n \in {m \in T : m <= t}}
<1>2. IsFiniteSet(D) BY <1>1, FS_Interval
<1>3. IsWellFoundedOn(StrictSubsetOrdering(D), SUBSET D)
  BY <1>2, FS_StrictSubsetOrderingWellFounded, FS_FiniteSubsetsOfFinite
<1>4. Q \subseteq SUBSET D /\ Q # {} BY <1>1
<1>5. PICK s \in Q : \A u \in Q : ~(<<u, s>> \in StrictSubsetOrdering(D))
  <2>. HIDE DEF Q, D
  <2>. QED BY <1>3, <1>4, WFMin
<1>6. PICK n \in T : n <= t /\ s = 1..n BY <1>5
<1>7. ASSUME NEW m \in T, m < n PROVE FALSE
  <2>1. 1..m \in Q BY <1>1, <1>6, <1>7
  <2>2. 1..m \subseteq s /\ 1..m # s /\ s \subseteq D
    <3>1. n \in 1..n /\ n \notin 1..m BY <1>7
    <3>. QED BY <1>1, <1>6, <1>7, <3>1
  <2>. HIDE DEF Q, D
  <2>3. <<1..m, s>> \in StrictSubsetOrdering(D) BY <2>2 DEF StrictSubsetOrdering
  <2>. QED BY <1>5, <2>1, <2>3
<1>. QED
  <2>1. \A m \in T : ~(m < n) BY <1>7
  <2>. QED BY <2>1

\* Induction in the form the provers can use.
LEMMA Inductive ==
  ASSUME NEW T, 0 \in T, \A n \in Nat : n \in T => n + 1 \in T
  PROVE  Nat \subseteq T
<1>. SUFFICES ASSUME Nat \ T # {} PROVE FALSE OBVIOUS
<1>1. PICK n \in Nat \ T : \A m \in Nat \ T : n <= m
  <2>. DEFINE C == Nat \ T
  <2>1. C \subseteq Nat /\ C # {} OBVIOUS
  <2>. HIDE DEF C
  <2>2. \E n \in C : \A m \in C : n <= m BY <2>1, Least
  <2>. QED BY <2>2 DEF C
<1>2. n # 0 /\ n - 1 \in Nat OBVIOUS
<1>3. n - 1 \in T BY <1>1, <1>2
<1>4. (n - 1) + 1 \in T BY <1>2, <1>3
<1>. QED BY <1>2, <1>4

-----------------------------------------------------------------------------
(* The calendar.                                                           *)

\* Min chooses that least number.
LEMMA LeastIsMin ==
  ASSUME NEW S, S \subseteq Nat, S # {}
  PROVE  Min(S) \in S /\ \A y \in S : Min(S) <= y
<1>1. \E x \in S : \A y \in S : x <= y BY Least
<1>. QED BY <1>1 DEF Min

\* The days before a month are defined.
LEMMA DaysBeforeDefined ==
  DaysBefore = [m \in 1 .. Len(Months) + 1 |->
                  IF m = 1 THEN 0 ELSE DaysBefore[m - 1] + Months[m - 1]]
<1>. DEFINE Upto(k, g) == g = [m \in 1 .. k + 1 |-> IF m = 1 THEN 0 ELSE g[m - 1] + Months[m - 1]]
            T == {k \in Nat : \E g : Upto(k, g)}
<1>1. 0 \in T
  <2>1. Upto(0, [m \in 1 .. 1 |-> 0]) OBVIOUS
  <2>. QED BY <2>1
<1>2. ASSUME NEW k \in Nat, k \in T PROVE k + 1 \in T
  <2>1. PICK g : Upto(k, g) BY <1>2
  <2>. DEFINE next == g[k + 1] + Months[k + 1]
              h == [m \in 1 .. (k + 1) + 1 |-> IF m = k + 2 THEN next ELSE g[m]]
  <2>2. \A m \in 1 .. k + 1 : g[m] = IF m = 1 THEN 0 ELSE g[m - 1] + Months[m - 1]
    BY <2>1
  <2>3. ASSUME NEW m \in 1 .. (k + 1) + 1
        PROVE  h[m] = IF m = 1 THEN 0 ELSE h[m - 1] + Months[m - 1]
    <3>. HIDE DEF Upto, next
    <3>1. CASE m = k + 2
      <4>1. h[m] = next /\ m - 1 = k + 1 /\ m # 1 BY <3>1
      <4>2. h[m - 1] = g[k + 1] BY <3>1
      <4>. QED BY <4>1, <4>2 DEF next
    <3>2. CASE m \in 1 .. k + 1
      <4>1. h[m] = g[m] /\ (m # 1 => h[m - 1] = g[m - 1]) BY <3>2
      <4>. QED BY <2>2, <3>2, <4>1
    <3>. QED BY <3>1, <3>2
  <2>4. h = [m \in 1 .. (k + 1) + 1 |-> h[m]] OBVIOUS
  <2>. HIDE DEF h
  <2>5. Upto(k + 1, h) BY <2>3, <2>4
  <2>. HIDE DEF Upto
  <2>. QED BY <2>5
<1>3. Nat \subseteq T
  <2>. HIDE DEF T
  <2>. QED BY <1>1, <1>2, Inductive
<1>4. Len(Months) \in Nat BY CalendarAssumption
<1>5. \E g : Upto(Len(Months), g) BY <1>3, <1>4
<1>. QED BY <1>5 DEF DaysBefore

\* Months follow each other.
LEMMA MonthsFollow ==
  /\ Len(Months) \in Nat \ {0}
  /\ \A m \in 1 .. Len(Months) : Months[m] \in 28 .. 31
  /\ \A m \in 1 .. Len(Months) + 1 : DaysBefore[m] \in Nat
  /\ DaysBefore[1] = 0
  /\ \A m \in 1 .. Len(Months) : DaysBefore[m + 1] = DaysBefore[m] + Months[m]
  /\ \A m, n \in 1 .. Len(Months) + 1 : m <= n => DaysBefore[m] <= DaysBefore[n]
<1>. DEFINE L == Len(Months)
<1>1. L \in Nat \ {0} /\ \A m \in 1 .. L : Months[m] \in 28 .. 31 BY CalendarAssumption
<1>. HIDE DEF L
<1>2. \A m \in 1 .. L + 1 : DaysBefore[m] = IF m = 1 THEN 0 ELSE DaysBefore[m - 1] + Months[m - 1]
  BY DaysBeforeDefined DEF L
<1>3. DaysBefore[1] = 0 BY <1>1, <1>2
<1>4. ASSUME NEW m \in 1 .. L PROVE DaysBefore[m + 1] = DaysBefore[m] + Months[m]
  <2>1. m + 1 \in 1 .. L + 1 /\ m + 1 # 1 /\ (m + 1) - 1 = m BY <1>1
  <2>. QED BY <1>2, <2>1
<1>. DEFINE T == {n \in Nat : n <= L =>
                   \A m \in 1 .. n + 1 : /\ DaysBefore[m] \in Nat
                                         /\ DaysBefore[m] <= DaysBefore[n + 1]}
<1>5. 0 \in T BY <1>3
<1>6. ASSUME NEW n \in Nat, n \in T PROVE n + 1 \in T
  <2>. SUFFICES ASSUME n + 1 <= L, NEW m \in 1 .. (n + 1) + 1
                PROVE  /\ DaysBefore[m] \in Nat
                       /\ DaysBefore[m] <= DaysBefore[(n + 1) + 1]
    OBVIOUS
  <2>1. /\ \A k \in 1 .. n + 1 : DaysBefore[k] \in Nat /\ DaysBefore[k] <= DaysBefore[n + 1]
        /\ n + 1 \in 1 .. L
    BY <1>1, <1>6
  <2>2. DaysBefore[(n + 1) + 1] = DaysBefore[n + 1] + Months[n + 1] /\ Months[n + 1] \in 28 .. 31
    BY <1>1, <1>4, <2>1
  <2>3. DaysBefore[n + 1] \in Nat /\ DaysBefore[(n + 1) + 1] \in Nat
        /\ DaysBefore[n + 1] <= DaysBefore[(n + 1) + 1]
    BY <2>1, <2>2
  <2>4. m = (n + 1) + 1 \/ m \in 1 .. n + 1 OBVIOUS
  <2>. QED BY <2>1, <2>3, <2>4
<1>7. Nat \subseteq T
  <2>. HIDE DEF T
  <2>. QED BY <1>5, <1>6, Inductive
<1>8. ASSUME NEW n \in 1 .. L + 1
      PROVE  DaysBefore[n] \in Nat /\ \A m \in 1 .. L + 1 : m <= n => DaysBefore[m] <= DaysBefore[n]
  <2>1. n - 1 \in T /\ n - 1 <= L /\ (n - 1) + 1 = n BY <1>1, <1>7
  <2>2. DaysBefore[n] \in Nat /\ \A m \in 1 .. n : DaysBefore[m] <= DaysBefore[n] BY <2>1
  <2>. QED BY <1>1, <2>2
<1>. QED BY <1>1, <1>3, <1>4, <1>8 DEF L

\* Every day lies in exactly one month.
LEMMA MonthOfDay ==
  /\ \A day \in Day : /\ MonthOf(day) \in 1 .. Len(Months)
                      /\ day \in DaysBefore[MonthOf(day)] .. DaysBefore[MonthOf(day) + 1] - 1
  /\ \A m \in 1 .. Len(Months) : \A day \in DaysBefore[m] .. DaysBefore[m + 1] - 1 :
       day \in Day /\ MonthOf(day) = m
  /\ \A c, d \in Day : c <= d => MonthOf(c) <= MonthOf(d)
<1>. DEFINE L == Len(Months)
            In(day, m) == day \in DaysBefore[m] .. DaysBefore[m + 1] - 1
<1>1. /\ L \in Nat \ {0} /\ DaysBefore[1] = 0
      /\ \A m \in 1 .. L + 1 : DaysBefore[m] \in Nat
      /\ \A m, n \in 1 .. L + 1 : m <= n => DaysBefore[m] <= DaysBefore[n]
  BY MonthsFollow
<1>2. DOMAIN Months = 1 .. L BY CalendarAssumption
<1>. HIDE DEF L
<1>3. ASSUME NEW day \in Day PROVE \E m \in 1 .. L : In(day, m)
  <2>. DEFINE Late == {m \in 1 .. L + 1 : day < DaysBefore[m]}
  <2>1. day \in Nat /\ L + 1 \in Late BY <1>1 DEF Day, L
  <2>2. Late \subseteq Nat OBVIOUS
  <2>3. PICK n \in Late : \A m \in Late : n <= m
    <3>. HIDE DEF Late
    <3>. QED BY <2>1, <2>2, Least
  <2>4. n # 1 /\ n - 1 \in 1 .. L /\ n - 1 \notin Late BY <1>1, <2>1, <2>3
  <2>5. In(day, n - 1) BY <1>1, <2>1, <2>3, <2>4
  <2>. QED BY <2>4, <2>5
<1>4. ASSUME NEW c \in Nat, NEW d \in Nat, c <= d, NEW m \in 1 .. L, NEW n \in 1 .. L,
             In(c, m), In(d, n)
      PROVE  m <= n
  <2>1. SUFFICES ASSUME n < m PROVE FALSE BY <1>1
  <2>2. n + 1 \in 1 .. L + 1 /\ m \in 1 .. L + 1 /\ n + 1 <= m BY <1>1, <2>1
  <2>3. DaysBefore[n + 1] <= DaysBefore[m] /\ DaysBefore[n + 1] \in Nat /\ DaysBefore[m] \in Nat
    BY <1>1, <2>2
  <2>. QED BY <1>4, <2>3
<1>5. ASSUME NEW day \in Day PROVE MonthOf(day) \in 1 .. L /\ In(day, MonthOf(day))
  <2>. HIDE DEF In
  <2>1. MonthOf(day) = CHOOSE m \in 1 .. L : In(day, m) BY <1>2 DEF MonthOf, In
  <2>. QED BY <1>3, <2>1
<1>6. ASSUME NEW m \in 1 .. L, NEW day \in DaysBefore[m] .. DaysBefore[m + 1] - 1
      PROVE  day \in Day /\ MonthOf(day) = m
  <2>1. m \in 1 .. L + 1 /\ m + 1 \in 1 .. L + 1 /\ L + 1 \in 1 .. L + 1 BY <1>1
  <2>2. /\ DaysBefore[m] \in Nat /\ DaysBefore[m + 1] \in Nat /\ DaysBefore[L + 1] \in Nat
        /\ DaysBefore[m + 1] <= DaysBefore[L + 1]
    BY <1>1, <2>1
  <2>3. day \in Day /\ day \in Nat BY <2>2 DEF Day, L
  <2>4. MonthOf(day) \in 1 .. L /\ In(day, MonthOf(day)) BY <1>5, <2>3
  <2>5. MonthOf(day) <= m /\ m <= MonthOf(day) BY <1>4, <1>6, <2>3, <2>4
  <2>. QED BY <1>1, <2>3, <2>4, <2>5
<1>7. Day \subseteq Nat BY DEF Day
<1>8. \A c, d \in Day : c <= d => MonthOf(c) <= MonthOf(d)
  <2>. HIDE DEF In
  <2>. QED BY <1>4, <1>5, <1>7
<1>. QED BY <1>5, <1>6, <1>8 DEF L

\* Days follow each other, whatever the time.
LEMMA ClockOrder ==
  ASSUME NEW c \in Nat, NEW d \in Nat, c < d, NEW at \in 0 .. Ticks - 1,
         NEW other \in 0 .. Ticks - 1
  PROVE  Clock(c, at) < Clock(d, other)
<1>1. Ticks \in Nat \ {0} BY CalendarAssumption
<1>. QED BY <1>1 DEF Clock

\* An instant built from a day and a time has that day and that time.
LEMMA ClockParts ==
  ASSUME NEW day \in Nat, NEW at \in 0 .. Ticks - 1
  PROVE  Clock(day, at) \in Nat /\ DayOf(Clock(day, at)) = day /\ Clock(day, at) % Ticks = at
<1>1. Ticks \in Nat \ {0} BY CalendarAssumption
<1>. QED BY <1>1 DEF Clock, DayOf

\* Adding a day to an instant is naming the next day.
LEMMA NextDay ==
  ASSUME NEW day \in Nat, NEW at \in 0 .. Ticks - 1
  PROVE  Clock(day + 1, at) = Clock(day, at) + Ticks
<1>1. Ticks \in Nat \ {0} BY CalendarAssumption
<1>. QED BY <1>1 DEF Clock

\* A fact about products that the solver does not find in context.
LEMMA Multiples == \A a, b, c \in Nat : a <= b => a * c <= b * c
  OBVIOUS

\* An instant is a day and a time of that day.
LEMMA MomentParts ==
  ASSUME NEW x \in Moment
  PROVE  /\ x \in Nat /\ DayOf(x) \in Day /\ DayOf(x) \in Nat
         /\ x % Ticks \in 0 .. Ticks - 1 /\ x = Clock(DayOf(x), x % Ticks)
         /\ \A w \in Nat : w <= x => w \in Moment
         /\ IsFiniteSet(Moment)
<1>1. Ticks \in Nat \ {0} BY CalendarAssumption
<1>2. DaysBefore[Len(Months) + 1] \in Nat \ {0}
  <2>1. Len(Months) \in 1 .. Len(Months) BY MonthsFollow
  <2>. QED BY <2>1, MonthsFollow
<1>. DEFINE D == DaysBefore[Len(Months) + 1]
<1>3. Max(Day) = D - 1
  <2>1. D - 1 \in Day /\ \A y \in Day : D - 1 >= y BY <1>2 DEF Day
  <2>2. \A y \in Day : y >= D - 1 => y = D - 1 BY <1>2 DEF Day
  <2>. HIDE DEF D
  <2>3. Max(Day) \in Day /\ Max(Day) >= D - 1 BY <2>1 DEF Max
  <2>. QED BY <2>2, <2>3
<1>4. Moment = 0 .. Ticks * D - 1 /\ Day = 0 .. D - 1 BY <1>2, <1>3 DEF Moment, Day
<1>5. D \in Nat \ {0} BY <1>2
<1>. HIDE DEF D
<1>6. Ticks * D - 1 \in Int BY <1>1, <1>5
<1>7. x \in Nat /\ x < Ticks * D /\ \A w \in Nat : w <= x => w \in Moment
  <2>. DEFINE last == Ticks * D - 1
  <2>1. Moment = 0 .. last /\ last \in Int BY <1>4, <1>6
  <2>. HIDE DEF last
  <2>2. x \in Nat /\ x <= last /\ \A w \in Nat : w <= x => w \in Moment BY <2>1
  <2>3. Ticks * D \in Int BY <1>1, <1>5
  <2>. QED BY <2>1, <2>2, <2>3 DEF last
<1>8. /\ x \div Ticks \in Nat /\ x % Ticks \in 0 .. Ticks - 1
      /\ x = (x \div Ticks) * Ticks + (x % Ticks)
  BY <1>1, <1>7
<1>9. x \div Ticks < D
  <2>1. SUFFICES ASSUME D <= x \div Ticks PROVE FALSE BY <1>5, <1>8
  <2>2. D * Ticks <= (x \div Ticks) * Ticks BY <1>1, <1>5, <1>8, <2>1, Multiples
  <2>3. D * Ticks = Ticks * D /\ D * Ticks \in Nat /\ (x \div Ticks) * Ticks \in Nat
    BY <1>1, <1>5, <1>8
  <2>. QED BY <1>7, <1>8, <2>2, <2>3
<1>10. IsFiniteSet(Moment)
  <2>. DEFINE last == Ticks * D - 1
  <2>1. Moment = 0 .. last /\ last \in Int BY <1>4, <1>6
  <2>. HIDE DEF last
  <2>. QED BY <2>1, FS_Interval
<1>. QED BY <1>4, <1>5, <1>7, <1>8, <1>9, <1>10 DEF DayOf, Clock

\* What an expression names are instants at its time of day.
LEMMA ExpressionType ==
  ASSUME NEW e \in Expression
  PROVE  /\ e.type \in {"daily", "weekly", "monthly"} /\ e.on \subseteq 1 .. 31
         /\ e.at \in 0 .. Ticks - 1
         /\ \A y \in Occurrences[e] : y \in Moment /\ y % Ticks = e.at
  BY CalendarAssumption DEF Occurrences, Occurs

\* Of two instants the earlier one is not on a later day.
LEMMA DaysInOrder ==
  ASSUME NEW x \in Moment, NEW y \in Moment, y > x
  PROVE  DayOf(x) <= DayOf(y)
<1>1. /\ x \in Nat /\ y \in Nat /\ DayOf(x) \in Nat /\ DayOf(y) \in Nat
      /\ x = Clock(DayOf(x), x % Ticks) /\ y = Clock(DayOf(y), y % Ticks)
      /\ x % Ticks \in 0 .. Ticks - 1 /\ y % Ticks \in 0 .. Ticks - 1
  BY MomentParts
<1>2. DayOf(y) < DayOf(x) => Clock(DayOf(y), y % Ticks) < Clock(DayOf(x), x % Ticks)
  BY <1>1, ClockOrder
<1>. QED BY <1>1, <1>2

\* What the calculators answer is the first occurrence after the instant they are given.
First(e, x, next) ==
  next \in Occurrences[e] /\ next > x /\ \A y \in Occurrences[e] : y > x => next <= y

LEMMA DailyIsFirst ==
  ASSUME NEW e \in Expression, e.type = "daily", NEW x \in Moment,
         NEW z \in Occurrences[e], z > x
  PROVE  First(e, x, NextDaily(e, x))
<1>. DEFINE today == Clock(DayOf(x), e.at)
            tomorrow == Clock(DayOf(x) + 1, e.at)
            next == NextDaily(e, x)
<1>1. e.at \in 0 .. Ticks - 1 /\ \A y \in Occurrences[e] : y \in Moment /\ y % Ticks = e.at
  BY ExpressionType
<1>2. /\ x \in Nat /\ DayOf(x) \in Nat /\ x = Clock(DayOf(x), x % Ticks)
      /\ x % Ticks \in 0 .. Ticks - 1 /\ DayOf(x) + 1 \in Nat
  BY MomentParts
<1>3. today \in Nat /\ tomorrow \in Nat /\ today % Ticks = e.at /\ tomorrow % Ticks = e.at
  BY <1>1, <1>2, ClockParts
<1>4. Clock(DayOf(x), x % Ticks) < tomorrow
  BY <1>1, <1>2, ClockOrder
<1>5. next = IF today <= x THEN tomorrow ELSE today BY <1>1, <1>2, NextDay DEF NextDaily
<1>. HIDE DEF today, tomorrow, next
<1>6. next > x /\ next % Ticks = e.at /\ next \in Nat BY <1>2, <1>3, <1>4, <1>5
<1>7. ASSUME NEW y \in Occurrences[e], y > x PROVE next <= y
  <2>1. /\ y \in Moment /\ y \in Nat /\ DayOf(y) \in Nat /\ y = Clock(DayOf(y), e.at)
        /\ DayOf(x) <= DayOf(y)
    BY <1>1, <1>7, MomentParts, DaysInOrder
  <2>2. CASE DayOf(y) = DayOf(x)
    <3>1. y = today BY <2>1, <2>2 DEF today
    <3>. QED BY <1>2, <1>3, <1>5, <1>7, <3>1
  <2>3. CASE DayOf(y) = DayOf(x) + 1
    <3>1. y = tomorrow BY <2>1, <2>3 DEF tomorrow
    <3>2. today < tomorrow BY <1>1, <1>2, ClockOrder DEF today, tomorrow
    <3>. QED BY <1>3, <1>5, <3>1, <3>2
  <2>4. CASE DayOf(y) > DayOf(x) + 1
    <3>1. tomorrow < Clock(DayOf(y), e.at) BY <1>1, <1>2, <2>1, <2>4, ClockOrder DEF tomorrow
    <3>2. today < tomorrow BY <1>1, <1>2, ClockOrder DEF today, tomorrow
    <3>. QED BY <1>3, <1>5, <2>1, <3>1, <3>2
  <2>. QED BY <1>2, <2>1, <2>2, <2>3, <2>4
<1>8. next \in Moment BY <1>1, <1>6, <1>7, MomentParts
<1>9. next \in Occurrences[e] BY <1>6, <1>8 DEF Occurrences, Occurs
<1>. QED BY <1>6, <1>7, <1>9 DEF First, next

\* The eight days from an instant on contain the first day of the week that is named.
LEMMA WeeklyIsFirst ==
  ASSUME NEW e \in Expression, e.type = "weekly", NEW x \in Moment,
         NEW z \in Occurrences[e], z > x
  PROVE  First(e, x, NextWeekly(e, x))
<1>. DEFINE start == DayOf(x)
            target(ahead) == Clock(start + ahead, e.at)
            fits(ahead) == /\ Weekday(start + ahead) \in e.on
                           /\ ahead > 0 \/ target(ahead) > x
            S == {ahead \in 0 .. 7 : fits(ahead)}
            next == NextWeekly(e, x)
<1>1. e.at \in 0 .. Ticks - 1 /\ \A y \in Occurrences[e] : y \in Moment /\ y % Ticks = e.at
  BY ExpressionType
<1>2. /\ x \in Nat /\ start \in Nat /\ x = Clock(start, x % Ticks)
      /\ x % Ticks \in 0 .. Ticks - 1
  BY MomentParts
<1>3. FirstWeekday \in 1 .. 7 BY CalendarAssumption
<1>4. \A y \in Occurrences[e] : Weekday(DayOf(y)) \in e.on BY DEF Occurrences, Occurs
<1>. HIDE DEF start, S
<1>5. next = target(Min(S)) BY DEF NextWeekly, start, S
<1>6. ASSUME NEW y \in Occurrences[e], y > x
      PROVE  \E ahead \in S : start + ahead <= DayOf(y)
  <2>1. /\ y \in Nat /\ DayOf(y) \in Nat /\ y = Clock(DayOf(y), e.at) /\ start <= DayOf(y)
    BY <1>1, <1>6, MomentParts, DaysInOrder DEF start
  <2>. DEFINE far == DayOf(y) - start
              ahead == IF far <= 7 THEN far ELSE ((far - 1) % 7) + 1
  <2>2. far \in Nat /\ start + far = DayOf(y) BY <1>2, <2>1
  <2>3. CASE far <= 7
    <3>1. far \in 0 .. 7 BY <2>2, <2>3
    <3>2. target(far) = y BY <2>1, <2>2
    <3>3. Weekday(start + far) \in e.on BY <1>4, <2>2
    <3>4. far \in S BY <1>6, <3>1, <3>2, <3>3 DEF S
    <3>. QED BY <2>1, <2>2, <3>4
  <2>4. CASE far > 7
    <3>. DEFINE a == ((far - 1) % 7) + 1
    <3>1. a \in 1 .. 7 /\ a <= far BY <2>2, <2>4
    <3>2. Weekday(start + a) = Weekday(start + far)
      <4>1. (FirstWeekday - 1 + (start + a)) % 7 = (FirstWeekday - 1 + (start + far)) % 7
        BY <1>2, <1>3, <2>2, <2>4
      <4>. QED BY <4>1 DEF Weekday
    <3>3. Weekday(start + far) \in e.on BY <1>4, <2>2
    <3>. HIDE DEF a
    <3>4. a \in S BY <3>1, <3>2, <3>3 DEF S
    <3>. QED BY <1>2, <2>1, <2>2, <3>1, <3>4
  <2>. QED BY <2>2, <2>3, <2>4
<1>7. Min(S) \in S /\ \A a \in S : Min(S) <= a
  <2>1. S # {} BY <1>6
  <2>2. S \subseteq Nat BY DEF S
  <2>. QED BY <2>1, <2>2, LeastIsMin
<1>. DEFINE least == Min(S)
<1>. HIDE DEF least
<1>8. /\ least \in 0 .. 7 /\ fits(least) /\ (\A a \in S : least <= a) /\ next = target(least)
  BY <1>5, <1>7 DEF least, S
<1>. HIDE DEF next
<1>9. /\ start + least \in Nat /\ next \in Nat /\ DayOf(next) = start + least
      /\ next % Ticks = e.at
  <2>1. start + least \in Nat BY <1>2, <1>8
  <2>. QED BY <1>1, <1>8, <2>1, ClockParts
<1>10. next > x
  <2>1. CASE least > 0
    <3>1. start < start + least BY <1>2, <1>8, <2>1
    <3>2. Clock(start, x % Ticks) < Clock(start + least, e.at)
      BY <1>1, <1>2, <1>9, <3>1, ClockOrder
    <3>. QED BY <1>2, <1>8, <1>9, <3>2
  <2>2. CASE ~ (least > 0) BY <1>8, <2>2
  <2>. QED BY <2>1, <2>2
<1>11. ASSUME NEW y \in Occurrences[e], y > x PROVE next <= y
  <2>1. PICK ahead \in S : start + ahead <= DayOf(y) BY <1>6, <1>11
  <2>2. y \in Moment /\ y \in Nat /\ DayOf(y) \in Nat /\ y = Clock(DayOf(y), e.at)
    BY <1>1, MomentParts
  <2>3. ahead \in 0 .. 7 /\ least <= ahead BY <1>8, <2>1 DEF S
  <2>4. start + least <= DayOf(y) BY <1>2, <1>8, <2>1, <2>2, <2>3
  <2>5. CASE start + least = DayOf(y) BY <1>8, <1>9, <2>2, <2>5
  <2>6. CASE start + least < DayOf(y)
    <3>1. Clock(start + least, e.at) < Clock(DayOf(y), e.at) BY <1>1, <1>9, <2>2, <2>6, ClockOrder
    <3>. QED BY <1>8, <1>9, <2>2, <3>1
  <2>. QED BY <1>9, <2>2, <2>4, <2>5, <2>6
<1>12. next \in Moment BY <1>1, <1>9, <1>11, MomentParts
<1>13. Weekday(DayOf(next)) \in e.on BY <1>8, <1>9
<1>14. next \in Occurrences[e] BY <1>9, <1>12, <1>13 DEF Occurrences, Occurs
<1>. QED BY <1>10, <1>11, <1>14 DEF First, next

\* A month that has no such date, or none that is still to come, is passed over.
LEMMA MonthlyIsFirst ==
  ASSUME NEW e \in Expression, e.type = "monthly", NEW x \in Moment,
         NEW z \in Occurrences[e], z > x
  PROVE  First(e, x, NextMonthly(e, x))
<1>. DEFINE targets(m) == {Clock(DaysBefore[m] + date - 1, e.at) : date \in e.on \cap (1 .. Months[m])}
            later(m) == {target \in targets(m) : target > x}
            S == {m \in MonthOf(DayOf(x)) .. Len(Months) : later(m) # {}}
            month == Min(S)
            next == NextMonthly(e, x)
<1>1. /\ e.at \in 0 .. Ticks - 1 /\ e.on \subseteq 1 .. 31
      /\ \A y \in Occurrences[e] : y \in Moment /\ y % Ticks = e.at
  BY ExpressionType
<1>2. x \in Nat /\ DayOf(x) \in Day /\ DayOf(x) \in Nat BY MomentParts
<1>3. \A y \in Occurrences[e] : DateOf(DayOf(y)) \in e.on BY DEF Occurrences, Occurs
<1>4. MonthOf(DayOf(x)) \in 1 .. Len(Months) /\ Len(Months) \in Nat
  BY <1>2, MonthOfDay, MonthsFollow
<1>5. next = Min(later(month)) BY DEF NextMonthly
<1>. HIDE DEF next
<1>6. ASSUME NEW m \in 1 .. Len(Months), NEW t \in targets(m)
      PROVE  /\ t \in Nat /\ t % Ticks = e.at /\ DayOf(t) \in Nat
             /\ DayOf(t) \in DaysBefore[m] .. DaysBefore[m + 1] - 1 /\ DateOf(DayOf(t)) \in e.on
  <2>1. PICK date \in e.on \cap (1 .. Months[m]) : t = Clock(DaysBefore[m] + date - 1, e.at)
    OBVIOUS
  <2>2. /\ DaysBefore[m] \in Nat /\ Months[m] \in 28 .. 31
        /\ DaysBefore[m + 1] = DaysBefore[m] + Months[m]
    BY MonthsFollow
  <2>. DEFINE day == DaysBefore[m] + date - 1
  <2>. HIDE DEF targets
  <2>3. day \in Nat /\ day \in DaysBefore[m] .. DaysBefore[m + 1] - 1
    <3>1. date \in Int /\ 1 <= date /\ date <= Months[m] BY <2>1
    <3>2. DaysBefore[m] \in Int /\ Months[m] \in Int /\ 0 <= DaysBefore[m] BY <2>2
    <3>3. day \in Int /\ DaysBefore[m] <= day /\ day < DaysBefore[m] + Months[m] BY <3>1, <3>2
    <3>. HIDE DEF day
    <3>. QED BY <2>2, <3>2, <3>3
  <2>4. t \in Nat /\ DayOf(t) = day /\ t % Ticks = e.at BY <1>1, <2>1, <2>3, ClockParts
  <2>5. MonthOf(day) = m BY <2>3, MonthOfDay
  <2>6. DateOf(day) = date BY <2>2, <2>5 DEF DateOf
  <2>. QED BY <2>3, <2>4, <2>6
<1>7. ASSUME NEW y \in Occurrences[e], y > x
      PROVE  /\ MonthOf(DayOf(y)) \in S /\ y \in later(MonthOf(DayOf(y)))
  <2>1. /\ y \in Nat /\ DayOf(y) \in Nat /\ DayOf(y) \in Day /\ y = Clock(DayOf(y), e.at)
        /\ DayOf(x) <= DayOf(y)
    BY <1>1, <1>7, MomentParts, DaysInOrder
  <2>. DEFINE m == MonthOf(DayOf(y))
              date == DateOf(DayOf(y))
  <2>2. m \in 1 .. Len(Months) /\ DayOf(y) \in DaysBefore[m] .. DaysBefore[m + 1] - 1
        /\ MonthOf(DayOf(x)) <= m
    BY <1>2, <2>1, MonthOfDay
  <2>. HIDE DEF m
  <2>3. /\ DaysBefore[m] \in Nat /\ Months[m] \in 28 .. 31
        /\ DaysBefore[m + 1] = DaysBefore[m] + Months[m]
    BY <2>2, MonthsFollow
  <2>4. date = DayOf(y) - DaysBefore[m] + 1 BY DEF DateOf, m
  <2>5. date \in e.on BY <1>3
  <2>. HIDE DEF date
  <2>6. date \in 1 .. Months[m] /\ DaysBefore[m] + date - 1 = DayOf(y)
    <3>. DEFINE day == DayOf(y)
    <3>1. day \in Nat /\ DaysBefore[m] <= day /\ day < DaysBefore[m] + Months[m] /\ Months[m] \in Nat
      BY <2>1, <2>2, <2>3
    <3>2. date = day - DaysBefore[m] + 1 BY <2>4
    <3>. HIDE DEF day
    <3>3. date \in 1 .. Months[m] /\ DaysBefore[m] + date - 1 = day BY <2>3, <3>1, <3>2
    <3>. QED BY <3>3 DEF day
  <2>7. y \in targets(m) BY <2>1, <2>5, <2>6
  <2>8. y \in later(m) BY <1>7, <2>7
  <2>9. m \in MonthOf(DayOf(x)) .. Len(Months) BY <1>4, <2>2
  <2>10. m \in S
    <3>. HIDE DEF later
    <3>. QED BY <2>8, <2>9
  <2>. QED BY <2>8, <2>10 DEF m
<1>. HIDE DEF targets
<1>8. month \in S /\ \A m \in S : month <= m
  <2>1. S # {} BY <1>7
  <2>2. S \subseteq Nat BY <1>4
  <2>. HIDE DEF S
  <2>. QED BY <2>1, <2>2, LeastIsMin
<1>9. S \subseteq 1 .. Len(Months) BY <1>4
<1>10. later(month) # {} BY <1>8
<1>. HIDE DEF S, month
<1>11. next \in later(month) /\ \A t \in later(month) : next <= t
  <2>1. later(month) \subseteq Nat BY <1>6, <1>8, <1>9
  <2>. HIDE DEF later
  <2>. QED BY <1>5, <1>10, <2>1, LeastIsMin
<1>12. /\ next > x /\ next \in Nat /\ next % Ticks = e.at /\ DayOf(next) \in Nat
       /\ DayOf(next) \in DaysBefore[month] .. DaysBefore[month + 1] - 1
       /\ DateOf(DayOf(next)) \in e.on
  BY <1>6, <1>8, <1>9, <1>11
<1>13. ASSUME NEW y \in Occurrences[e], y > x PROVE next <= y
  <2>1. y \in Moment /\ y \in Nat /\ DayOf(y) \in Day /\ DayOf(y) \in Nat /\ y = Clock(DayOf(y), e.at)
    BY <1>1, MomentParts
  <2>. DEFINE m == MonthOf(DayOf(y))
  <2>2. /\ m \in S /\ y \in later(m) /\ m \in 1 .. Len(Months) /\ month \in 1 .. Len(Months)
        /\ DayOf(y) \in DaysBefore[m] .. DaysBefore[m + 1] - 1
    BY <1>7, <1>8, <1>9, <1>13, <2>1, MonthOfDay
  <2>. HIDE DEF m, later
  <2>3. CASE m = month BY <1>11, <2>2, <2>3
  <2>4. CASE m # month
    <3>1. month + 1 <= m /\ month + 1 \in 1 .. Len(Months) + 1 /\ m \in 1 .. Len(Months) + 1
      BY <1>4, <1>8, <2>2, <2>4
    <3>2. /\ DaysBefore[month + 1] <= DaysBefore[m]
          /\ DaysBefore[month + 1] \in Nat /\ DaysBefore[m] \in Nat
      BY <3>1, MonthsFollow
    <3>3. DayOf(next) < DayOf(y) BY <1>12, <2>1, <2>2, <3>2
    <3>4. Clock(DayOf(next), e.at) < Clock(DayOf(y), e.at)
      BY <1>1, <1>12, <2>1, <3>3, ClockOrder
    <3>5. next = Clock(DayOf(next), e.at)
      <4>1. Ticks \in Nat \ {0} BY CalendarAssumption
      <4>. QED BY <1>12, <4>1 DEF Clock, DayOf
    <3>. QED BY <1>12, <2>1, <3>4, <3>5
  <2>. QED BY <2>3, <2>4
<1>14. next \in Moment BY <1>1, <1>12, <1>13, MomentParts
<1>15. next \in Occurrences[e] BY <1>12, <1>14 DEF Occurrences, Occurs
<1>. QED BY <1>12, <1>13, <1>15 DEF First, next

\* The first occurrence after an instant is the next slot.
LEMMA SlotFollows ==
  ASSUME NEW k \in 0 .. MaxTime, NEW e \in Expression, NEW x \in Moment, SlotOf[e][x] = k
  PROVE  LET next == NextRun(e, x) IN next \in Occurrences[e] /\ SlotOf[e][next] = k + 1
<1>. DEFINE upto(y) == {w \in Occurrences[e] : w <= y}
            next == NextRun(e, x)
<1>1. /\ Occurrences[e] \subseteq Moment /\ x \in Nat
      /\ \A y \in Occurrences[e] : y \in Nat
      /\ \A y \in Moment : SlotOf[e][y] = Cardinality(upto(y))
  BY MomentParts DEF Occurrences, SlotOf
<1>2. IsFiniteSet(Occurrences[e])
  <2>2. IsFiniteSet(Moment) BY MomentParts
  <2>3. Occurrences[e] \in SUBSET Moment BY <1>1
  <2>. HIDE DEF upto
  <2>. QED BY <2>2, <2>3, FS_Subset
<1>3. \E z \in Occurrences[e] : z > x
  <2>1. SUFFICES ASSUME \A z \in Occurrences[e] : ~ (z > x) PROVE FALSE OBVIOUS
  <2>2. upto(x) = Occurrences[e]
    <3>1. \A z \in Occurrences[e] : z <= x BY <1>1, <2>1
    <3>. QED BY <3>1
  <2>3. Cardinality(Occurrences[e]) = k BY <1>1, <2>2
  <2>4. Cardinality(Occurrences[e]) > MaxTime /\ MaxTime \in Nat
    BY HorizonAssumption, ScheduleAssumption
  <2>. QED BY <2>3, <2>4
<1>4. First(e, x, next)
  <2>1. CASE e.type = "daily" BY <1>3, <2>1, DailyIsFirst DEF NextRun
  <2>2. CASE e.type = "weekly" BY <1>3, <2>2, WeeklyIsFirst DEF NextRun
  <2>3. CASE e.type = "monthly" BY <1>3, <2>3, MonthlyIsFirst DEF NextRun
  <2>. QED BY <2>1, <2>2, <2>3, ExpressionType
<1>. HIDE DEF next
<1>5. next \in Occurrences[e] /\ next > x /\ \A y \in Occurrences[e] : y > x => next <= y
  BY <1>4 DEF First
<1>6. upto(next) = upto(x) \cup {next} /\ next \notin upto(x)
  <2>1. next \in Nat BY <1>1, <1>5
  <2>2. ASSUME NEW w \in Occurrences[e] PROVE w <= next <=> (w <= x \/ w = next)
    <3>1. w \in Nat BY <1>1
    <3>2. ~ (w > x) \/ next <= w BY <1>5
    <3>. QED BY <1>1, <1>5, <2>1, <3>1, <3>2
  <2>3. ~ (next <= x) BY <1>1, <1>5, <2>1
  <2>. QED BY <1>5, <2>2, <2>3
<1>7. IsFiniteSet(upto(x))
  <2>1. upto(x) \in SUBSET Occurrences[e] OBVIOUS
  <2>. HIDE DEF upto
  <2>. QED BY <1>2, <2>1, FS_Subset
<1>8. Cardinality(upto(next)) = Cardinality(upto(x)) + 1
  <2>. HIDE DEF upto
  <2>. QED BY <1>6, <1>7, FS_AddElement
<1>. QED BY <1>1, <1>5, <1>8 DEF next

\* Time may be counted in occurrences: whatever slot the clock shows and however long
\* ago it came, the next run that complete_scheduled_run stores is the slot that
\* follows, for any calendar of months of 28 to 31 days (schedule_calculator.py).
THEOREM SlotsFollow == Spec => []SlotsAreOccurrences
<1>1. ASSUME CountInv PROVE SlotsAreOccurrences
  <2>1. clock \in 0 .. MaxTime BY <1>1 DEF CountInv, TypeOK
  <2>2. Answered[clock] BY <2>1, SlotFollows DEF Answered
  <2>. QED BY <2>2 DEF SlotsAreOccurrences
<1>. QED BY <1>1, CountBudget, PTL

-----------------------------------------------------------------------------
(* The scheduler object (SchedulerLoop): its poll loop, its fires and its calls. *)

\* What a fire record may hold.
FireRecord ==
  [task : Task, at : {"waiting", "running"}, by : {"poll", "itself"},
   old : BOOLEAN, n : Nat]

\* The first fire of a task that is not active has the number zero.
LEMMA FreshFire ==
  ASSUME LoopInv, NEW t \in Task, Free(t), NEW by \in {"poll", "itself"}
  PROVE  FireOf(t, by) \in FireRecord
<1>1. {f \in fires : f.task = t} = {}
  BY DEF LoopInv, OneFire, Free
<1>2. Cardinality({f \in fires : f.task = t}) = 0
  BY <1>1, FS_EmptySet
<1> QED
  BY <1>2 DEF FireOf, FireRecord

\* What a poll reads is a sequence of definitions, and not too long.
LEMMA BatchType ==
  ASSUME LoopInv
  PROVE  Batch \in Seq(Task) /\ Len(Batch) <= 2 * MaxConcurrent
<1> USE SchedulerAssumption DEF LoopInv, LoopTypeOK
<1>1. CASE Len(dueTasks) <= 2 * MaxConcurrent
  BY <1>1 DEF Batch
<1>2. CASE ~ (Len(dueTasks) <= 2 * MaxConcurrent)
  <2>1. 2 * MaxConcurrent \in 1 .. Len(dueTasks)
    BY <1>2
  <2>2. Batch = SubSeq(dueTasks, 1, 2 * MaxConcurrent)
    BY <1>2 DEF Batch
  <2> QED
    BY <2>1, <2>2
<1> QED
  BY <1>1, <1>2

\* The due definitions without one of them.
LEMMA RemoveType ==
  ASSUME LoopInv, NEW t \in Task, Contains(dueTasks, t)
  PROVE  RemoveAt(dueTasks, Position(t)) \in Seq(Task)
<1> DEFINE i == Position(t)
<1> USE DEF LoopInv, LoopTypeOK
<1>1. dueTasks \in Seq(Task) /\ \E j \in DOMAIN dueTasks : dueTasks[j] = t
  BY DEF Contains
<1>2. i \in DOMAIN dueTasks
  BY <1>1 DEF Position
<1>3. i \in 1 .. Len(dueTasks)
  BY <1>1, <1>2
<1> HIDE DEF i
<1>4. SubSeq(dueTasks, 1, i - 1) \in Seq(Task) /\ SubSeq(dueTasks, i + 1, Len(dueTasks)) \in Seq(Task)
  BY <1>1, <1>3
<1> QED
  BY <1>4 DEF RemoveAt, i

-----------------------------------------------------------------------------
LEMMA LoopStarts == LoopInit => LoopInv
<1> SUFFICES ASSUME LoopInit PROVE LoopInv
  OBVIOUS
<1> USE SchedulerAssumption DEF LoopInit
<1>1. LoopTypeOK
  <2>1. paused \in BOOLEAN /\ stop \in BOOLEAN
    BY Zenon
  <2>2. <<>> \in Seq(Task) /\ Len(<<>>) = 0
    OBVIOUS
  <2>3. Len(poller.batch) <= 2 * MaxConcurrent /\ starts \in 0 .. MaxStarts
    BY <2>2
  <2> QED
    BY <2>1, <2>2, <2>3, Zenon DEF LoopTypeOK
<1>2. OneFire /\ StoppedIsQuiet /\ OverBeforeDraining
  BY DEF OneFire, StoppedIsQuiet, OverBeforeDraining
<1> QED
  BY <1>1, <1>2 DEF LoopInv

\* Steps of the poll loop that start nothing.
LEMMA LoopSteps ==
  ASSUME LoopInv, Poll \/ Read \/ Sleep
  PROVE  LoopInv'
<1> USE SchedulerAssumption DEF LoopInv, SameTasks
<1>1. CASE Poll
  <2>1. LoopTypeOK'
    BY <1>1 DEF Poll, Poller, LoopTypeOK
  <2>2. OneFire' /\ StoppedIsQuiet' /\ OverBeforeDraining'
    BY <1>1 DEF Poll, Poller, LoopTypeOK, OneFire, StoppedIsQuiet, OverBeforeDraining
  <2> QED
    BY <2>1, <2>2
<1>2. CASE Read
  <2>1. LoopTypeOK'
    <3>1. <<>> \in Seq(Task) /\ Len(<<>>) <= 2 * MaxConcurrent
      OBVIOUS
    <3>2. \E b \in {Batch, <<>>} : poller' = [at |-> "firing", batch |-> b]
      BY <1>2 DEF Read, Poller
    <3>3. PICK b \in Seq(Task) : /\ Len(b) <= 2 * MaxConcurrent
                                 /\ poller' = [at |-> "firing", batch |-> b]
      BY <3>1, <3>2, BatchType
    <3> QED
      BY <1>2, <3>3 DEF Read, LoopTypeOK
  <2>2. OneFire' /\ StoppedIsQuiet' /\ OverBeforeDraining'
    BY <1>2 DEF Read, Poller, LoopTypeOK, OneFire, StoppedIsQuiet, OverBeforeDraining
  <2> QED
    BY <2>1, <2>2
<1>3. CASE Sleep
  <2>1. LoopTypeOK'
    BY <1>3 DEF Sleep, Poller, LoopTypeOK
  <2>2. OneFire' /\ StoppedIsQuiet' /\ OverBeforeDraining'
    BY <1>3 DEF Sleep, Poller, LoopTypeOK, OneFire, StoppedIsQuiet, OverBeforeDraining
  <2> QED
    BY <2>1, <2>2
<1> QED
  BY <1>1, <1>2, <1>3

\* The fires that a poll starts: the loop is not over, so the scheduler is not stopped.
LEMMA StartFiresStep ==
  ASSUME LoopInv, StartFires
  PROVE  LoopInv'
<1> DEFINE started == {t \in Range(poller.batch) : ~ stop /\ Free(t)}
           new == {FireOf(t, "poll") : t \in started}
<1>1. /\ poller.at = "firing"
      /\ active' = active \cup started /\ fires' = fires \cup new
      /\ poller' = [at |-> "sleeping", batch |-> <<>>]
      /\ UNCHANGED <<state, paused, stop, starts, stopper, dueTasks>>
  BY DEF StartFires, Poller
<1>2. started \subseteq Task
  BY DEF LoopInv, LoopTypeOK, Range
<1>3. new \subseteq FireRecord
  BY <1>2, FreshFire
<1>4. \A f \in new : f.task \in started /\ f = FireOf(f.task, "poll")
  <2> SUFFICES ASSUME NEW f \in new
               PROVE  f.task \in started /\ f = FireOf(f.task, "poll")
    OBVIOUS
  <2>1. PICK t \in started : f = FireOf(t, "poll")
    OBVIOUS
  <2>2. f.task = t
    BY <2>1 DEF FireOf
  <2> QED
    BY <2>1, <2>2
<1>5. \A t \in started : FireOf(t, "poll").task = t
  BY DEF FireOf
<1>6. \A t \in started : t \notin active
  BY DEF Free
<1> HIDE DEF started, new
<1>7. LoopTypeOK'
  BY <1>1, <1>2, <1>3, SchedulerAssumption DEF LoopInv, LoopTypeOK, FireRecord
<1>8. OneFire'
  <2>1. \A f, g \in fires' : f.task = g.task => f = g
    BY <1>1, <1>4, <1>6 DEF LoopInv, OneFire
  <2>2. active' = {f.task : f \in fires'}
    <3>1. {f.task : f \in new} = started
      BY <1>4, <1>5 DEF new
    <3> QED
      BY <1>1, <3>1 DEF LoopInv, OneFire
  <2> QED
    BY <2>1, <2>2 DEF OneFire
<1>9. StoppedIsQuiet' /\ OverBeforeDraining'
  BY <1>1 DEF LoopInv, StoppedIsQuiet, OverBeforeDraining
<1> QED
  BY <1>7, <1>8, <1>9 DEF LoopInv

-----------------------------------------------------------------------------
\* A trigger starts a fire of a task that has none.
LEMMA TriggerStep ==
  ASSUME LoopInv, NEW t \in Task, TriggerTask(t)
  PROVE  LoopInv'
<1> DEFINE f == FireOf(t, "itself")
<1>1. /\ t \notin active /\ active' = active \cup {t} /\ fires' = fires \cup {f}
      /\ UNCHANGED <<state, paused, stop, starts, poller, stopper, dueTasks>>
  BY DEF TriggerTask, SameLoop, Free
<1>2. f \in FireRecord /\ f.task = t /\ f.by = "itself"
  <2>1. f.task = t /\ f.by = "itself"
    BY DEF FireOf
  <2> QED
    BY <2>1, FreshFire DEF TriggerTask
<1> HIDE DEF f
<1>3. LoopTypeOK'
  BY <1>1, <1>2 DEF LoopInv, LoopTypeOK, FireRecord
<1>4. OneFire'
  BY <1>1, <1>2 DEF LoopInv, OneFire
<1>5. StoppedIsQuiet' /\ OverBeforeDraining'
  BY <1>1, <1>2 DEF LoopInv, StoppedIsQuiet, OverBeforeDraining
<1> QED
  BY <1>3, <1>4, <1>5 DEF LoopInv

\* A fire that gets the semaphore is the one fire of its task as before.
LEMMA BeginFireStep ==
  ASSUME LoopInv, NEW f \in fires, BeginFire(f)
  PROVE  LoopInv'
<1> DEFINE g == [f EXCEPT !.at = "running"]
<1>1. /\ fires' = (fires \ {f}) \cup {g}
      /\ UNCHANGED <<state, paused, stop, starts, poller, stopper, active, dueTasks>>
  BY DEF BeginFire, SameLoop
<1>2. f \in FireRecord
  BY DEF LoopInv, LoopTypeOK, FireRecord
<1>3. g \in FireRecord /\ g.task = f.task /\ g.by = f.by
  BY <1>2 DEF FireRecord
<1> HIDE DEF g
<1>4. LoopTypeOK'
  BY <1>1, <1>3 DEF LoopInv, LoopTypeOK, FireRecord
<1>5. OneFire'
  BY <1>1, <1>3 DEF LoopInv, OneFire
<1>6. StoppedIsQuiet' /\ OverBeforeDraining'
  BY <1>1, <1>3 DEF LoopInv, StoppedIsQuiet, OverBeforeDraining
<1> QED
  BY <1>4, <1>5, <1>6 DEF LoopInv

\* A fire that ends takes its mark with it, and no other fire has that mark.
LEMMA EndFireStep ==
  ASSUME LoopInv, NEW f \in fires, NEW advanced \in BOOLEAN, EndFire(f, advanced)
  PROVE  LoopInv'
<1>1. /\ active' = active \ {f.task} /\ fires' = fires \ {f}
      /\ UNCHANGED <<state, paused, stop, starts, poller, stopper>>
  BY DEF EndFire, SameLoop
<1>2. dueTasks' \in Seq(Task)
  <2>1. f.task \in Task /\ dueTasks \in Seq(Task)
    BY DEF LoopInv, LoopTypeOK
  <2>2. CASE advanced /\ Contains(dueTasks, f.task)
    BY <2>1, <2>2, RemoveType DEF EndFire
  <2>3. CASE ~ (advanced /\ Contains(dueTasks, f.task))
    BY <2>1, <2>3 DEF EndFire
  <2> QED
    BY <2>2, <2>3
<1>3. LoopTypeOK'
  BY <1>1, <1>2 DEF LoopInv, LoopTypeOK
<1>4. OneFire'
  BY <1>1 DEF LoopInv, OneFire
<1>5. StoppedIsQuiet' /\ OverBeforeDraining'
  BY <1>1 DEF LoopInv, StoppedIsQuiet, OverBeforeDraining
<1> QED
  BY <1>3, <1>4, <1>5 DEF LoopInv

LEMMA BecomesDueStep ==
  ASSUME LoopInv, NEW t \in Task, BecomesDue(t)
  PROVE  LoopInv'
<1>1. dueTasks' = Append(dueTasks, t) /\ UNCHANGED <<state, paused, stop, starts, poller, stopper, active, fires>>
  BY DEF BecomesDue, SameLoop
<1>2. LoopTypeOK'
  BY <1>1 DEF LoopInv, LoopTypeOK
<1>3. OneFire' /\ StoppedIsQuiet' /\ OverBeforeDraining'
  BY <1>1 DEF LoopInv, OneFire, StoppedIsQuiet, OverBeforeDraining
<1> QED
  BY <1>2, <1>3 DEF LoopInv

-----------------------------------------------------------------------------
\* A start of a stopped scheduler: its calls of stop are over, and the fires that are
\* left are only marked as those of an earlier start.
LEMMA StartStep ==
  ASSUME LoopInv, Start
  PROVE  LoopInv'
<1>1. /\ \A s \in Stopper : stopper[s] = "idle"
      /\ starts < MaxStarts /\ starts' = starts + 1
      /\ state' = "running" /\ paused' = FALSE /\ stop' = FALSE
      /\ poller' = [at |-> "top", batch |-> <<>>]
      /\ fires' = {[f EXCEPT !.old = TRUE] : f \in fires}
      /\ UNCHANGED <<stopper, active, dueTasks>>
  BY DEF Start, Poller
<1>2. \A f \in fires : /\ [f EXCEPT !.old = TRUE] \in FireRecord
                       /\ [f EXCEPT !.old = TRUE].task = f.task
  BY DEF LoopInv, LoopTypeOK, FireRecord
<1>3. LoopTypeOK'
  <2>1. paused' \in BOOLEAN /\ stop' \in BOOLEAN
    BY <1>1, Zenon
  <2>2. starts' \in 0 .. MaxStarts
    BY <1>1, SchedulerAssumption DEF LoopInv, LoopTypeOK
  <2>3. poller'.batch \in Seq(Task) /\ Len(poller'.batch) <= 2 * MaxConcurrent
    BY <1>1, SchedulerAssumption
  <2>4. fires' \subseteq FireRecord
    BY <1>1, <1>2
  <2> QED
    BY <1>1, <2>1, <2>2, <2>3, <2>4 DEF LoopInv, LoopTypeOK, FireRecord
<1>4. OneFire'
  <2>1. ASSUME NEW g \in fires', NEW h \in fires', g.task = h.task
        PROVE  g = h
    <3>1. PICK e \in fires : g = [e EXCEPT !.old = TRUE]
      BY <1>1
    <3>2. PICK f \in fires : h = [f EXCEPT !.old = TRUE]
      BY <1>1
    <3>3. e.task = f.task
      BY <1>2, <2>1, <3>1, <3>2
    <3> QED
      BY <3>1, <3>2, <3>3 DEF LoopInv, OneFire
  <2>2. {g.task : g \in fires'} = {f.task : f \in fires}
    BY <1>1, <1>2
  <2> QED
    BY <1>1, <2>1, <2>2 DEF LoopInv, OneFire
<1>5. StoppedIsQuiet' /\ OverBeforeDraining'
  BY <1>1 DEF LoopInv, StoppedIsQuiet, OverBeforeDraining
<1> QED
  BY <1>3, <1>4, <1>5 DEF LoopInv

\* Waking a paused loop leaves one that is over as it is.
LEMMA WokenType ==
  ASSUME LoopInv
  PROVE  /\ Woken \in [at : {"top", "held", "woken", "reading", "firing", "sleeping", "over"},
                       batch : Seq(Task)]
         /\ Woken.batch = poller.batch /\ (poller.at = "over" <=> Woken.at = "over")
BY DEF LoopInv, LoopTypeOK, Woken

LEMMA CallSteps ==
  ASSUME LoopInv, Pause \/ Resume \/ \E s \in Stopper : BeginStop(s)
  PROVE  LoopInv'
<1>1. /\ state' # "stopped" /\ state' \in {"running", "paused", "stopping"}
      /\ paused' \in BOOLEAN /\ stop' \in BOOLEAN
      /\ poller' \in {poller, Woken} /\ UNCHANGED <<starts, active, fires, dueTasks>>
  <2>1. CASE Pause
    BY <2>1 DEF Pause, SameTasks, LoopInv, LoopTypeOK
  <2>2. CASE Resume
    BY <2>2 DEF Resume, SameTasks, LoopInv, LoopTypeOK
  <2>3. CASE \E s \in Stopper : BeginStop(s)
    BY <2>3 DEF BeginStop, SameTasks
  <2> QED
    BY <2>1, <2>2, <2>3
<1>2. /\ stopper' \in [Stopper -> {"idle", "polling", "draining"}]
      /\ \A s \in Stopper : stopper'[s] = "draining" => stopper[s] = "draining"
  <2>1. CASE Pause \/ Resume
    BY <2>1 DEF Pause, Resume, LoopInv, LoopTypeOK
  <2>2. CASE \E s \in Stopper : BeginStop(s)
    BY <2>2 DEF BeginStop, LoopInv, LoopTypeOK
  <2> QED
    BY <2>1, <2>2
<1>3. LoopTypeOK'
  BY <1>1, <1>2, WokenType DEF LoopInv, LoopTypeOK
<1>4. OneFire' /\ StoppedIsQuiet'
  BY <1>1 DEF LoopInv, OneFire, StoppedIsQuiet
<1>5. OverBeforeDraining'
  BY <1>1, <1>2, WokenType DEF LoopInv, OverBeforeDraining
<1> QED
  BY <1>3, <1>4, <1>5 DEF LoopInv

\* Whoever waited for the loop drains from now on; the loop is over.
LEMMA PollerEndsStep ==
  ASSUME LoopInv, NEW s \in Stopper, PollerEnds(s)
  PROVE  LoopInv'
<1>1. /\ poller' = [at |-> "over", batch |-> <<>>]
      /\ UNCHANGED <<state, paused, stop, starts, active, fires, dueTasks>>
  BY DEF PollerEnds, Poller, SameTasks
<1>2. stopper' \in [Stopper -> {"idle", "polling", "draining"}]
  BY DEF PollerEnds, LoopInv, LoopTypeOK
<1>3. LoopTypeOK'
  BY <1>1, <1>2, SchedulerAssumption DEF LoopInv, LoopTypeOK
<1>4. OneFire' /\ StoppedIsQuiet' /\ OverBeforeDraining'
  BY <1>1 DEF LoopInv, OneFire, StoppedIsQuiet, OverBeforeDraining
<1> QED
  BY <1>3, <1>4 DEF LoopInv

\* A stop ends: the loop was over before, and the fires are given up.
LEMMA DrainedStep ==
  ASSUME LoopInv, NEW s \in Stopper, Drained(s)
  PROVE  LoopInv'
<1>1. /\ stopper[s] = "draining"
      /\ state' = "stopped"
      /\ stopper' = [stopper EXCEPT ![s] = "idle"]
      /\ fires' = {[f EXCEPT !.by = "itself"] : f \in fires}
      /\ UNCHANGED <<paused, stop, starts, poller, active, dueTasks>>
  BY DEF Drained
<1>2. \A f \in fires : /\ [f EXCEPT !.by = "itself"] \in FireRecord
                       /\ [f EXCEPT !.by = "itself"].task = f.task
                       /\ [f EXCEPT !.by = "itself"].by = "itself"
  BY DEF LoopInv, LoopTypeOK, FireRecord
<1>3. LoopTypeOK'
  <2>1. fires' \subseteq FireRecord
    BY <1>1, <1>2
  <2> QED
    BY <1>1, <2>1 DEF LoopInv, LoopTypeOK, FireRecord
<1>4. OneFire'
  <2>1. ASSUME NEW g \in fires', NEW h \in fires', g.task = h.task
        PROVE  g = h
    <3>1. PICK e \in fires : g = [e EXCEPT !.by = "itself"]
      BY <1>1
    <3>2. PICK f \in fires : h = [f EXCEPT !.by = "itself"]
      BY <1>1
    <3>3. e.task = f.task
      BY <1>2, <2>1, <3>1, <3>2
    <3> QED
      BY <3>1, <3>2, <3>3 DEF LoopInv, OneFire
  <2>2. {g.task : g \in fires'} = {f.task : f \in fires}
    BY <1>1, <1>2
  <2> QED
    BY <1>1, <2>1, <2>2 DEF LoopInv, OneFire
<1>5. StoppedIsQuiet' /\ OverBeforeDraining'
  BY <1>1, <1>2 DEF LoopInv, LoopTypeOK, StoppedIsQuiet, OverBeforeDraining
<1> QED
  BY <1>3, <1>4, <1>5 DEF LoopInv

-----------------------------------------------------------------------------
LEMMA LoopStep ==
  ASSUME LoopInv, [LoopNext]_loopVars
  PROVE  LoopInv'
<1>1. CASE UNCHANGED loopVars
  <2>1. LoopTypeOK'
    BY <1>1 DEF loopVars, LoopInv, LoopTypeOK
  <2>2. OneFire' /\ StoppedIsQuiet' /\ OverBeforeDraining'
    BY <1>1 DEF loopVars, LoopInv, OneFire, StoppedIsQuiet, OverBeforeDraining
  <2> QED
    BY <2>1, <2>2 DEF LoopInv
<1>2. CASE Loop
  BY <1>2, LoopSteps, StartFiresStep DEF Loop
<1>3. CASE Start \/ Pause \/ Resume \/ MainStops \/ OwnerStops
  <2>1. "main" \in Stopper /\ "owner" \in Stopper
    BY DEF Stopper
  <2> QED
    BY <1>3, <2>1, StartStep, CallSteps DEF MainStops, OwnerStops
<1>4. CASE \E s \in Stopper : Stopping(s)
  BY <1>4, PollerEndsStep, DrainedStep DEF Stopping
<1>5. CASE \E t \in Task : TriggerTask(t) \/ BecomesDue(t)
  BY <1>5, TriggerStep, BecomesDueStep
<1>6. CASE \E f \in fires : BeginFire(f) \/ \E advanced \in BOOLEAN : EndFire(f, advanced)
  BY <1>6, BeginFireStep, EndFireStep
<1> QED
  BY <1>1, <1>2, <1>3, <1>4, <1>5, <1>6 DEF LoopNext

\* However polls, triggers, pauses, stops and starts interleave, no definition is
\* fired twice at a time, no mark stays without its fire, and a stopped scheduler has
\* no loop and no fire that it did not give up (internal.py, _poll_loop, trigger,
\* _execute_task, start and stop).
THEOREM OneFireAtATime == LoopSpec => []LoopInv
  BY LoopStarts, LoopStep, PTL DEF LoopSpec
=============================================================================
