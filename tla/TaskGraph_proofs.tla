--------------------------- MODULE TaskGraph_proofs ---------------------------
(* Proofs about TaskGraph: for any tree, any dependencies and any number of  *)
(* failing statements, a task is executed at most once and only after what   *)
(* it depends on, and a walk that is over leaves behind neither a coroutine  *)
(* nor a task that could have been executed.                                 *)
EXTENDS TaskGraph, TLAPS

Inv == TypeOK /\ DispatchInv

\* The call path of a branch ends in the task of the branch.
LEMMA BranchWalks ==
  ASSUME NEW f \in Seq(Task), NEW c \in Task
  PROVE  Append(f, c) \in Seq(Task) /\ Append(f, c) # << >> /\ Walked(Append(f, c)) = c
BY DEF Walked

LEMMA WalkedIsTask ==
  ASSUME NEW f \in Seq(Task), f # << >>
  PROVE  Walked(f) \in Task
BY DEF Walked

\* The rows and the tree are in their types at the start.
LEMMA InitInv == Init => Inv
<1> SUFFICES ASSUME Init PROVE Inv
  OBVIOUS
<1> USE GraphAssumption DEF Init
<1>1. Top \in Seq(Task) /\ Top # << >>
  BY DEF Top
<1>2. status \in [Task -> Status] /\ attempt \in [Task -> Nat] /\ graph \in Graph
  BY DEF Status
<1>3. exec \in [Task -> [at : ExecState, scan : SUBSET Task, on : Task \cup {NoTask},
                         tries : 0 .. MaxTries]]
  BY DEF ExecState, NewExec, MaxTries
<1>4. DOMAIN walk = {Top} /\ walk[Top] = NewWalk("enter")
  OBVIOUS
<1>5. /\ walk[Top] \in [at : WalkState, later : SUBSET Task, unchecked : SUBSET Task,
                        ready : SUBSET Task]
      /\ walk[Top].ready = {} /\ walk[Top].at \notin Calling
  BY <1>4 DEF NewWalk, WalkState, Calling
<1>6. faults \in 0 .. graph.maxFaults /\ unclaimed \subseteq Task
  BY <1>2
<1>7. TypeOK
  BY <1>1, <1>2, <1>3, <1>4, <1>5, <1>6 DEF TypeOK
<1>8. DispatchInv
  BY <1>2, <1>4, <1>5 DEF DispatchInv, ExecutedOnce, NewExec, MaxTries
<1> QED
  BY <1>7, <1>8 DEF Inv

-----------------------------------------------------------------------------
WalkRecord == [at : WalkState, later : SUBSET Task, unchecked : SUBSET Task,
               ready : SUBSET Task]
ExecRecord == [at : ExecState, scan : SUBSET Task, on : Task \cup {NoTask},
               tries : 0 .. MaxTries]

\* A step that changes one walk only, and makes it call for no task whose
\* dependencies are open.
LEMMA WalkMoveOrFault ==
  ASSUME Inv, NEW f \in DOMAIN walk, NEW r \in WalkRecord,
         walk' = [walk EXCEPT ![f] = r],
         \A t \in r.ready : Met(t), r.at \in Calling => Met(Walked(f)),
         UNCHANGED <<graph, status, attempt, exec>>,
         faults' \in 0 .. graph.maxFaults, unclaimed' \subseteq Task
  PROVE  Inv'
<1>1. DOMAIN walk' = DOMAIN walk /\ walk'[f] = r
  OBVIOUS
<1>2. \A g \in DOMAIN walk : g # f => walk'[g] = walk[g]
  OBVIOUS
<1>3. TypeOK'
  BY <1>1, <1>2 DEF Inv, TypeOK, WalkRecord
<1>4. \A t : Met(t)' <=> Met(t)
  BY DEF Met
<1>5. DispatchInv'
  BY <1>1, <1>2, <1>4 DEF Inv, DispatchInv, ExecutedOnce, Walked, Calling
<1> QED
  BY <1>3, <1>5 DEF Inv

LEMMA WalkMove ==
  ASSUME Inv, NEW f \in DOMAIN walk, NEW r \in WalkRecord,
         walk' = [walk EXCEPT ![f] = r],
         \A t \in r.ready : Met(t), r.at \in Calling => Met(Walked(f)),
         UNCHANGED <<graph, status, attempt, exec, faults, unclaimed>>
  PROVE  Inv'
<1>1. faults' \in 0 .. graph.maxFaults /\ unclaimed' \subseteq Task
  BY DEF Inv, TypeOK
<1> QED
  BY <1>1, WalkMoveOrFault

\* The same of a step that changes one execution only.
LEMMA ExecMove ==
  ASSUME Inv, NEW t \in Task, NEW e \in ExecRecord,
         exec' = [exec EXCEPT ![t] = e], exec[t].at # "idle",
         e.at \in {"call", "wait"} => e.on \in Task, e.at = "call" => Met(e.on),
         e.at # "done" => e.tries < MaxTries,
         UNCHANGED <<graph, status, attempt, walk>>,
         faults' \in 0 .. graph.maxFaults, unclaimed' \subseteq Task
  PROVE  Inv'
<1>1. exec' \in [Task -> ExecRecord]
  BY DEF Inv, TypeOK, ExecRecord
<1>2. TypeOK'
  BY <1>1 DEF Inv, TypeOK, ExecRecord
<1>3. \A u : Met(u)' <=> Met(u)
  BY DEF Met
<1>4. \A u \in Task : exec'[u] = IF u = t THEN e ELSE exec[u]
  BY DEF Inv, TypeOK
<1>5. DispatchInv'
  BY <1>3, <1>4 DEF Inv, DispatchInv, ExecutedOnce, Walked, Calling
<1> QED
  BY <1>2, <1>5 DEF Inv

LEMMA EnterInv == ASSUME Inv, NEW f \in DOMAIN walk, Enter(f) PROVE Inv'
<1>1. walk[f] \in WalkRecord
  BY DEF Inv, TypeOK, WalkRecord
<1>2. \A t \in walk[f].ready : Met(t)
  BY DEF Inv, DispatchInv
<1>3. CASE status[Walked(f)] = "in_progress"
  <2> DEFINE r == [walk[f] EXCEPT !.at = "returned"]
  <2>1. r \in WalkRecord /\ walk' = [walk EXCEPT ![f] = r] /\ r.at = "returned"
        /\ r.ready = walk[f].ready
    BY <1>1, <1>3 DEF Enter, Go, WalkRecord, WalkState
  <2> QED
    BY <1>2, <2>1, WalkMove DEF Enter, Calling
<1>4. CASE status[Walked(f)] # "in_progress"
  <2> DEFINE r == [walk[f] EXCEPT !.at = "next", !.later = ToDispatch(Walked(f))]
  <2>1. ToDispatch(Walked(f)) \subseteq Task
    BY DEF ToDispatch, Below
  <2>2. r \in WalkRecord /\ walk' = [walk EXCEPT ![f] = r] /\ r.at = "next"
        /\ r.ready = walk[f].ready
    BY <1>1, <1>4, <2>1 DEF Enter, WalkRecord, WalkState
  <2> QED
    BY <1>2, <2>2, WalkMove DEF Enter, Calling
<1> QED
  BY <1>3, <1>4

LEMMA NextGroupInv == ASSUME Inv, NEW f \in DOMAIN walk, NextGroup(f) PROVE Inv'
<1>1. walk[f] \in WalkRecord
  BY DEF Inv, TypeOK, WalkRecord
<1> DEFINE group == FirstGroup(walk[f].later)
           r == [walk[f] EXCEPT !.at = "check", !.unchecked = group,
                                !.later = @ \ group, !.ready = {}]
<1>2. group \subseteq Task
  BY <1>1 DEF FirstGroup, WalkRecord
<1>3. r \in WalkRecord /\ walk' = [walk EXCEPT ![f] = r] /\ r.at = "check" /\ r.ready = {}
  <2> HIDE DEF group
  <2>1. r \in WalkRecord /\ r.at = "check" /\ r.ready = {}
    BY <1>1, <1>2 DEF WalkRecord, WalkState
  <2>2. walk' = [walk EXCEPT ![f] = r]
    BY DEF NextGroup, group
  <2> QED
    BY <2>1, <2>2
<1> QED
  BY <1>3, WalkMove DEF NextGroup, Calling

LEMMA CheckOneInv ==
  ASSUME Inv, NEW f \in DOMAIN walk, NEW t \in Task, CheckOne(f, t) PROVE Inv'
<1>1. walk[f] \in WalkRecord
  BY DEF Inv, TypeOK, WalkRecord
<1> DEFINE r == [walk[f] EXCEPT !.unchecked = @ \ {t},
                                !.ready = IF Satisfied(t) THEN @ \cup {t} ELSE @]
<1>2. r \in WalkRecord /\ walk' = [walk EXCEPT ![f] = r] /\ r.at = "check"
  BY <1>1 DEF CheckOne, At, WalkRecord
<1>3. \A u \in r.ready : Met(u)
  BY <1>1 DEF Inv, DispatchInv, Satisfied, Met, WalkRecord
<1> QED
  BY <1>2, <1>3, WalkMove DEF CheckOne, Calling

\* The branches of a launched group call for the tasks that were found ready.
LEMMA LaunchInv == ASSUME Inv, NEW f \in DOMAIN walk, Launch(f) PROVE Inv'
<1>1. walk[f] \in WalkRecord /\ f \in Seq(Task)
  BY DEF Inv, TypeOK, WalkRecord
<1>2. DOMAIN walk' = DOMAIN walk \cup Branches(f)
  BY DEF Launch
<1>3. ASSUME NEW g \in Branches(f)
      PROVE  /\ g \in Seq(Task) /\ g # << >> /\ Met(Walked(g))
             /\ walk'[g] = NewWalk("branch")
  <2>1. PICK c \in walk[f].ready : g = Append(f, c)
    BY DEF Branches
  <2>2. c \in Task
    BY <1>1, <2>1 DEF WalkRecord
  <2>3. Met(c)
    BY <2>1 DEF Inv, DispatchInv
  <2>4. g \in Seq(Task) /\ g # << >> /\ Walked(g) = c
    BY <1>1, <2>1, <2>2, BranchWalks
  <2>5. walk'[g] = NewWalk("branch")
    BY <1>2 DEF Launch
  <2> QED
    BY <2>3, <2>4, <2>5
<1>4. ASSUME NEW g \in DOMAIN walk, g \notin Branches(f)
      PROVE  /\ walk'[g] \in WalkRecord /\ walk'[g].ready = walk[g].ready
             /\ walk'[g].at = walk[g].at \/ walk'[g].at = "join"
  <2>1. CASE g = f
    <3>1. walk'[g] = [walk[f] EXCEPT !.at = "join"]
      BY <1>2, <1>4, <2>1 DEF Launch
    <3> QED
      BY <1>1, <2>1, <3>1 DEF WalkRecord, WalkState
  <2>2. CASE g # f
    <3>1. walk'[g] = walk[g]
      BY <1>2, <1>4, <2>2 DEF Launch
    <3> QED
      BY <3>1 DEF Inv, TypeOK, WalkRecord
  <2> QED
    BY <2>1, <2>2
<1>5. NewWalk("branch") \in WalkRecord /\ NewWalk("branch").ready = {}
  BY DEF NewWalk, WalkRecord, WalkState
<1>6. \A t : Met(t)' <=> Met(t)
  BY DEF Met, Launch
<1>7. TypeOK'
  BY <1>2, <1>3, <1>4, <1>5 DEF Inv, TypeOK, WalkRecord, Launch
<1>8. \A g \in DOMAIN walk' : /\ \A t \in walk'[g].ready : Met(t)
                              /\ walk'[g].at \in Calling => Met(Walked(g))
  BY <1>2, <1>3, <1>4, <1>5 DEF Inv, DispatchInv, Calling
<1>9. DispatchInv'
  BY <1>6, <1>8 DEF Inv, DispatchInv, ExecutedOnce, Launch, Walked, Calling
<1> QED
  BY <1>7, <1>9 DEF Inv

\* Dependencies that were met stay met while completed rows stay completed.
LEMMA MetStays ==
  ASSUME graph' = graph, \A d \in Task : status[d] = "completed" => status'[d] = "completed",
         Inv, NEW t \in Task, Met(t)
  PROVE  Met(t)'
<1>1. graph.needs[t] \subseteq Task
  BY GraphAssumption DEF Inv, TypeOK
<1> QED
  BY <1>1 DEF Met

LEMMA CheckSelfInv == ASSUME Inv, NEW f \in DOMAIN walk, CheckSelf(f) PROVE Inv'
<1>1. walk[f] \in WalkRecord
  BY DEF Inv, TypeOK, WalkRecord
<1> DEFINE self == Satisfied(Walked(f)) /\ status[Walked(f)] # "completed"
           r == [walk[f] EXCEPT !.at = IF self THEN "self" ELSE "returned"]
<1>2. r \in WalkRecord /\ walk' = [walk EXCEPT ![f] = r]
  BY <1>1 DEF CheckSelf, Go, WalkRecord, WalkState
<1>3. \A t \in r.ready : Met(t)
  BY <1>1 DEF Inv, DispatchInv, WalkRecord
<1>4. r.at \in Calling => Met(Walked(f))
  BY <1>1 DEF Calling, Satisfied, Met, WalkRecord
<1> QED
  BY <1>2, <1>3, <1>4, WalkMove DEF CheckSelf

LEMMA AwaitedInv == ASSUME Inv, NEW f \in DOMAIN walk, Awaited(f) PROVE Inv'
<1>1. walk[f] \in WalkRecord
  BY DEF Inv, TypeOK, WalkRecord
<1> DEFINE r == [walk[f] EXCEPT !.at = AfterCall(walk[f].at)]
<1>2. r \in WalkRecord /\ walk' = [walk EXCEPT ![f] = r] /\ r.at \notin Calling
  BY <1>1 DEF Awaited, Go, AfterCall, WalkRecord, WalkState, Calling
<1>3. \A t \in r.ready : Met(t)
  BY <1>1 DEF Inv, DispatchInv, WalkRecord
<1> QED
  BY <1>2, <1>3, WalkMove DEF Awaited

\* An exception fails a task that is not over, and completes none.
LEMMA RaiseInv ==
  ASSUME Inv, NEW f \in DOMAIN walk, NEW frames, frames \subseteq DOMAIN walk,
         Raise(f, frames), UNCHANGED <<graph, attempt, exec, unclaimed>>,
         faults' \in 0 .. graph.maxFaults
  PROVE  Inv'
<1>1. \A t \in Task : status[t] = "completed" => status'[t] = "completed"
  BY DEF Raise, Inv, TypeOK
<1>2. \A t \in Task : status'[t] = "pending" => status[t] = "pending"
  BY DEF Raise, Inv, TypeOK
<1>3. status' \in [Task -> Status]
  BY DEF Raise, Inv, TypeOK, Status
<1>4. DOMAIN walk' = frames
  BY DEF Raise
<1>5. ASSUME NEW g \in frames
      PROVE  /\ walk'[g] \in WalkRecord /\ walk'[g].ready = walk[g].ready
             /\ walk'[g].at \in Calling => walk[g].at \in Calling
  <2>1. walk[g] \in WalkRecord
    BY DEF Inv, TypeOK, WalkRecord
  <2>2. CASE g = f
    <3>1. walk'[g] = [walk[f] EXCEPT !.at = "raised"]
      BY <2>2 DEF Raise
    <3> QED
      BY <2>1, <2>2, <3>1 DEF WalkRecord, WalkState, Calling
  <2>3. CASE g # f
    BY <2>1, <2>3 DEF Raise
  <2> QED
    BY <2>2, <2>3
<1>6. TypeOK'
  BY <1>3, <1>4, <1>5 DEF Inv, TypeOK, WalkRecord
<1>7. \A t \in Task : Met(t) => Met(t)'
  BY <1>1, MetStays
<1>8. \A g \in DOMAIN walk' : walk'[g].ready \subseteq Task /\ Walked(g) \in Task
  BY <1>4, <1>5, WalkedIsTask DEF Inv, TypeOK, WalkRecord
<1>9. \A g \in DOMAIN walk' : /\ \A t \in walk'[g].ready : Met(t)'
                              /\ walk'[g].at \in Calling => Met(Walked(g))'
  BY <1>4, <1>5, <1>7, <1>8 DEF Inv, DispatchInv
<1>10. \A t \in Task : /\ exec[t].at # "idle" => Met(t)'
                       /\ exec[t].at = "call" => Met(exec[t].on)'
  BY <1>7 DEF Inv, DispatchInv
<1>11. DispatchInv'
  BY <1>2, <1>9, <1>10 DEF Inv, DispatchInv, ExecutedOnce, Walked, Calling
<1> QED
  BY <1>6, <1>11 DEF Inv

LEMMA CheckRaisesInv == ASSUME Inv, NEW f \in DOMAIN walk, CheckRaises(f) PROVE Inv'
<1>1. faults' \in 0 .. graph.maxFaults
  BY GraphAssumption DEF CheckRaises, Fault, Inv, TypeOK
<1> QED
  BY <1>1, RaiseInv DEF CheckRaises

LEMMA JoinInv == ASSUME Inv, NEW f \in DOMAIN walk, Join(f) PROVE Inv'
<1> DEFINE rest == DOMAIN walk \ Branches(f)
<1>1. CASE \E g \in Branches(f) : walk[g].at = "raised"
  <2>1. Raise(f, rest)
    BY <1>1 DEF Join
  <2>2. faults' \in 0 .. graph.maxFaults
    BY DEF Join, Inv, TypeOK
  <2> QED
    BY <2>1, <2>2, RaiseInv DEF Join
<1>2. CASE ~ \E g \in Branches(f) : walk[g].at = "raised"
  <2>1. DOMAIN walk' = rest
    BY <1>2 DEF Join
  <2>2. ASSUME NEW g \in rest
        PROVE  /\ walk'[g] \in WalkRecord /\ walk'[g].ready = walk[g].ready
               /\ walk'[g].at \in Calling => walk[g].at \in Calling
    <3>1. walk[g] \in WalkRecord
      BY DEF Inv, TypeOK, WalkRecord
    <3>2. CASE g = f
      <4>1. walk'[g] = [walk[f] EXCEPT !.at = "next"]
        BY <1>2, <3>2 DEF Join
      <4> QED
        BY <3>1, <3>2, <4>1 DEF WalkRecord, WalkState, Calling
    <3>3. CASE g # f
      BY <1>2, <3>1, <3>3 DEF Join
    <3> QED
      BY <3>2, <3>3
  <2>3. UNCHANGED <<graph, status, attempt, exec, faults, unclaimed>>
    BY <1>2 DEF Join
  <2>4. TypeOK'
    BY <2>1, <2>2, <2>3 DEF Inv, TypeOK, WalkRecord
  <2>5. \A t : Met(t)' <=> Met(t)
    BY <2>3 DEF Met
  <2>6. DispatchInv'
    BY <2>1, <2>2, <2>3, <2>5 DEF Inv, DispatchInv, ExecutedOnce, Walked, Calling
  <2> QED
    BY <2>4, <2>6 DEF Inv
<1> QED
  BY <1>1, <1>2

-----------------------------------------------------------------------------
\* A claim begins the first attempt of its task.
LEMMA Claims ==
  ASSUME Inv, NEW u \in Task, Start(u), Met(u), UNCHANGED graph
  PROVE  /\ status' \in [Task -> Status] /\ attempt' \in [Task -> Nat] /\ ExecutedOnce'
         /\ \A t \in Task : Met(t) => Met(t)'
         /\ \A t \in Task : status'[t] = "pending" => t # u /\ status[t] = "pending"
                                                      /\ attempt'[t] = 0
<1>1. attempt[u] = 0
  BY DEF Start, Claimable, Inv, DispatchInv
<1>2. status' \in [Task -> Status] /\ attempt' \in [Task -> Nat]
  BY DEF Start, Inv, TypeOK, Status
<1>3. ExecutedOnce'
  BY <1>1 DEF Start, Inv, TypeOK, DispatchInv, ExecutedOnce
<1>4. \A t \in Task : status[t] = "completed" => status'[t] = "completed"
  BY DEF Start, Claimable, Inv, TypeOK
<1>5. \A t \in Task : status'[t] = "pending" => t # u /\ status[t] = "pending"
                                                /\ attempt'[t] = 0
  BY DEF Start, Inv, TypeOK, DispatchInv
<1> QED
  BY <1>2, <1>3, <1>4, <1>5, MetStays

LEMMA DispatchStep == ASSUME Inv, NEW f \in DOMAIN walk, Dispatch(f) PROVE Inv'
<1> DEFINE t == Walked(f)
<1>1. walk[f] \in WalkRecord /\ t \in Task
  BY WalkedIsTask DEF Inv, TypeOK, WalkRecord
<1>2. Met(t) /\ \A u \in walk[f].ready : Met(u)
  BY DEF Inv, DispatchInv, Dispatch
<1>3. CASE Claimable(t)
  <2>1. Start(t) /\ exec' = [exec EXCEPT ![t] = NewExec("running")]
        /\ UNCHANGED <<graph, faults, unclaimed>>
    BY <1>3 DEF Dispatch
  <2> DEFINE r == [walk[f] EXCEPT !.at = AwaitOf(walk[f].at)]
  <2>2. r \in WalkRecord /\ walk' = [walk EXCEPT ![f] = r] /\ r.at \notin Calling
        /\ r.ready = walk[f].ready
    BY <1>1, <1>3 DEF Dispatch, Go, AwaitOf, WalkRecord, WalkState, Calling
  <2>3. DOMAIN walk' = DOMAIN walk
    BY <2>2
  <2>4. \A g \in DOMAIN walk : walk'[g] = IF g = f THEN r ELSE walk[g]
    BY <2>2
  <2>5. NewExec("running") \in ExecRecord
    BY DEF NewExec, ExecRecord, ExecState, MaxTries
  <2>6. exec' \in [Task -> ExecRecord]
        /\ \A u \in Task : exec'[u] = IF u = t THEN NewExec("running") ELSE exec[u]
    BY <2>1, <2>5 DEF Inv, TypeOK, ExecRecord
  <2> HIDE DEF t, r
  <2>7. TypeOK'
    BY <1>1, <1>2, <2>1, <2>2, <2>3, <2>4, <2>6, Claims
    DEF Inv, TypeOK, WalkRecord, ExecRecord
  <2>8. \A g \in DOMAIN walk' : /\ walk'[g].ready = walk[g].ready
                                /\ walk[g].ready \subseteq Task
                                /\ walk'[g].at \in Calling => walk[g].at \in Calling
                                /\ Walked(g) \in Task
    BY <2>2, <2>3, <2>4, WalkedIsTask DEF Inv, TypeOK
  <2>9. \A u \in Task : Met(u) => Met(u)'
    BY <1>1, <1>2, <2>1, Claims
  <2>10. \A g \in DOMAIN walk' : /\ \A u \in walk'[g].ready : Met(u)'
                                 /\ walk'[g].at \in Calling => Met(Walked(g))'
    BY <2>3, <2>8, <2>9 DEF Inv, DispatchInv
  <2>11. \A u \in Task : /\ exec'[u].at # "idle" => Met(u)'
                         /\ exec'[u].at \in {"call", "wait"} => exec'[u].on \in Task
                         /\ exec'[u].at = "call" => Met(exec[u].on)'
                         /\ exec'[u].at # "done" => exec'[u].tries < MaxTries
    <3> SUFFICES ASSUME NEW u \in Task
                 PROVE  /\ exec'[u].at # "idle" => Met(u)'
                        /\ exec'[u].at \in {"call", "wait"} => exec'[u].on \in Task
                        /\ exec'[u].at = "call" => Met(exec[u].on)'
                        /\ exec'[u].at # "done" => exec'[u].tries < MaxTries
      OBVIOUS
    <3>1. CASE u = t
      BY <1>1, <1>2, <2>6, <2>9, <3>1 DEF NewExec, MaxTries
    <3>2. CASE u # t
      <4>1. exec'[u] = exec[u]
        BY <2>6, <3>2
      <4>2. exec[u].at = "call" => Met(exec'[u].on)
        BY <4>1 DEF Inv, DispatchInv
      <4> QED
        BY <2>9, <4>1, <4>2 DEF Inv, DispatchInv, Met
    <3> QED
      BY <3>1, <3>2
  <2>12. \A u \in Task : status'[u] = "pending" => attempt'[u] = 0 /\ exec'[u].at = "idle"
    BY <1>1, <1>2, <2>1, <2>6, Claims DEF Inv, DispatchInv
  <2>13. ExecutedOnce'
    BY <1>1, <1>2, <2>1, Claims
  <2>14. DispatchInv'
    BY <2>10, <2>11, <2>12, <2>13 DEF DispatchInv, Walked, Calling
  <2> QED
    BY <2>7, <2>14 DEF Inv
<1>4. CASE ~Claimable(t)
  <2> DEFINE r == [walk[f] EXCEPT !.at = AfterCall(walk[f].at)]
  <2>1. r \in WalkRecord /\ walk' = [walk EXCEPT ![f] = r] /\ r.at \notin Calling
        /\ r.ready = walk[f].ready
    BY <1>1, <1>4 DEF Dispatch, Go, AfterCall, WalkRecord, WalkState, Calling
  <2> QED
    BY <1>2, <1>4, <2>1, WalkMove DEF Dispatch
<1> QED
  BY <1>3, <1>4

LEMMA DispatchRaisesInv == ASSUME Inv, NEW f \in DOMAIN walk, DispatchRaises(f) PROVE Inv'
<1>1. walk[f] \in WalkRecord /\ Walked(f) \in Task
  BY WalkedIsTask DEF Inv, TypeOK, WalkRecord
<1> DEFINE r == [walk[f] EXCEPT !.at = AfterCall(walk[f].at)]
<1>2. r \in WalkRecord /\ walk' = [walk EXCEPT ![f] = r] /\ r.at \notin Calling
      /\ r.ready = walk[f].ready
  BY <1>1 DEF DispatchRaises, Go, AfterCall, WalkRecord, WalkState, Calling
<1>3. faults' \in 0 .. graph.maxFaults /\ unclaimed' \subseteq Task
  BY <1>1, GraphAssumption DEF DispatchRaises, Fault, Inv, TypeOK
<1>4. \A u \in r.ready : Met(u)
  BY <1>2 DEF Inv, DispatchInv
<1> QED
  BY <1>2, <1>3, <1>4, WalkMoveOrFault DEF DispatchRaises

-----------------------------------------------------------------------------
\* What the types say of one execution, and of the bounds nothing changes.
LEMMA ExecTyped ==
  ASSUME Inv, NEW t \in Task
  PROVE  exec[t] \in ExecRecord /\ faults \in 0 .. graph.maxFaults /\ unclaimed \subseteq Task
BY DEF Inv, TypeOK, ExecRecord

LEMMA FinishInv ==
  ASSUME Inv, NEW t \in Task, NEW outcome \in {"completed", "failed"}, Finish(t, outcome)
  PROVE  Inv'
<1>1. \A u \in Task : status[u] = "completed" => status'[u] = "completed"
  BY DEF Finish, Inv, TypeOK
<1>2. \A u \in Task : Met(u) => Met(u)'
  BY <1>1, MetStays DEF Finish
<1>3. status' \in [Task -> Status]
      /\ \A u \in Task : status'[u] = "pending" => u # t /\ status[u] = "pending"
  BY DEF Finish, Inv, TypeOK, DispatchInv, Status
<1> DEFINE e == [exec[t] EXCEPT !.at =
                   IF status[t] = "in_progress" /\ outcome = "completed"
                   THEN "after" ELSE "done"]
<1>4. e \in ExecRecord /\ e.at \in {"after", "done"} /\ exec' = [exec EXCEPT ![t] = e]
  BY ExecTyped DEF Finish, ExecRecord, ExecState
<1>5. \A u \in Task : exec'[u] = IF u = t THEN e ELSE exec[u]
  BY <1>4 DEF Inv, TypeOK
<1>6. exec' \in [Task -> ExecRecord]
  BY <1>4 DEF Inv, TypeOK, ExecRecord
<1> HIDE DEF e
<1>7. TypeOK'
  BY <1>3, <1>6 DEF Inv, TypeOK, Finish, ExecRecord
<1>8. Met(t)
  BY DEF Finish, Inv, DispatchInv
<1>9. \A u \in Task : /\ exec'[u].at # "idle" => Met(u)'
                      /\ exec'[u].at \in {"call", "wait"} => exec'[u].on \in Task
                      /\ exec'[u].at # "done" => exec'[u].tries < MaxTries
  <2>1. e.tries < MaxTries
    BY ExecTyped DEF e, Finish, Inv, DispatchInv, ExecRecord
  <2> QED
    BY <1>2, <1>4, <1>5, <1>8, <2>1 DEF Inv, DispatchInv
<1>10. ASSUME NEW u \in Task, exec'[u].at = "call" PROVE Met(exec[u].on)'
  <2>1. exec'[u] = exec[u]
    BY <1>4, <1>5, <1>10
  <2>2. exec[u].on \in Task /\ Met(exec[u].on)
    BY <1>10, <2>1 DEF Inv, DispatchInv
  <2> QED
    BY <1>2, <2>1, <2>2 DEF Met
<1>11. \A g \in DOMAIN walk : /\ walk[g].ready \subseteq Task /\ Walked(g) \in Task
                              /\ \A u \in walk[g].ready : Met(u)
                              /\ walk[g].at \in Calling => Met(Walked(g))
  BY WalkedIsTask DEF Inv, TypeOK, DispatchInv
<1>12. \A g \in DOMAIN walk' : /\ \A u \in walk'[g].ready : Met(u)'
                               /\ walk'[g].at \in Calling => Met(Walked(g))'
  BY <1>2, <1>11 DEF Finish
<1>13. \A u \in Task : status'[u] = "pending" => attempt'[u] = 0 /\ exec'[u].at = "idle"
  BY <1>3, <1>5 DEF Finish, Inv, DispatchInv
<1>14. ExecutedOnce'
  BY DEF Finish, Inv, DispatchInv, ExecutedOnce
<1>15. DispatchInv'
  BY <1>9, <1>10, <1>12, <1>13, <1>14 DEF DispatchInv, Walked, Calling
<1> QED
  BY <1>7, <1>15 DEF Inv

LEMMA ReadTreeInv == ASSUME Inv, NEW t \in Task, ReadTree(t) PROVE Inv'
<1> DEFINE e == [exec[t] EXCEPT !.at = "look", !.scan = ToScan(t)]
<1>1. ToScan(t) \subseteq Task
  BY DEF ToScan
<1>2. e \in ExecRecord /\ e.at = "look" /\ exec' = [exec EXCEPT ![t] = e]
  <2>1. exec[t] \in ExecRecord
    BY ExecTyped
  <2>2. e \in ExecRecord /\ e.at = "look"
    BY <1>1, <2>1 DEF ExecRecord, ExecState
  <2>3. exec' = [exec EXCEPT ![t] = e]
    BY DEF ReadTree
  <2> QED
    BY <2>2, <2>3
<1>3. e.tries < MaxTries
  BY ExecTyped DEF ReadTree, Inv, DispatchInv, ExecRecord
<1> QED
  BY <1>2, <1>3, ExecMove, ExecTyped DEF ReadTree

LEMMA ScanOneInv ==
  ASSUME Inv, NEW t \in Task, NEW u \in Task, ScanOne(t, u) PROVE Inv'
<1> DEFINE e == [exec[t] EXCEPT !.scan = @ \ {u},
                                !.at = IF Satisfied(u) THEN "call" ELSE "look",
                                !.on = IF Satisfied(u) THEN u ELSE @]
<1>1. e \in ExecRecord
  <2>1. exec[t] \in ExecRecord
    BY ExecTyped
  <2>2. CASE Satisfied(u)
    BY <2>1, <2>2 DEF ExecRecord, ExecState
  <2>3. CASE ~Satisfied(u)
    BY <2>1, <2>3 DEF ExecRecord, ExecState
  <2> QED
    BY <2>2, <2>3
<1>2. exec' = [exec EXCEPT ![t] = e]
  BY DEF ScanOne
<1>3. /\ e.at \in {"call", "wait"} => e.on \in Task
      /\ e.at = "call" => Met(e.on)
  BY ExecTyped DEF ExecRecord, Satisfied, Met
<1>4. e.tries < MaxTries
  BY ExecTyped DEF ScanOne, Inv, DispatchInv, ExecRecord
<1> QED
  BY <1>1, <1>2, <1>3, <1>4, ExecMove, ExecTyped DEF ScanOne

LEMMA ScanRaisesInv == ASSUME Inv, NEW t \in Task, ScanRaises(t) PROVE Inv'
<1> DEFINE e == [exec[t] EXCEPT !.tries = @ + 1, !.scan = {},
                   !.at = IF exec[t].tries + 1 < MaxTries THEN "after" ELSE "done"]
<1>1. faults' \in 0 .. graph.maxFaults
  BY GraphAssumption DEF ScanRaises, Fault, Inv, TypeOK
<1>2. e.at \in {"after", "done"} /\ exec' = [exec EXCEPT ![t] = e]
  BY ExecTyped DEF ScanRaises, ExecRecord
<1>3. exec[t].tries < MaxTries
  BY DEF Inv, DispatchInv, ScanRaises
<1>4. e \in ExecRecord /\ (e.at # "done" => e.tries < MaxTries)
  <2>1. exec[t] \in ExecRecord /\ exec[t].tries \in 0 .. MaxTries
    BY ExecTyped DEF ExecRecord
  <2>2. exec[t].tries + 1 \in 0 .. MaxTries
    BY <1>3, <2>1 DEF MaxTries
  <2>3. e.tries = exec[t].tries + 1
    BY <2>1 DEF ExecRecord
  <2>4. e.at # "done" => e.tries < MaxTries
    BY <2>1, <2>3 DEF ExecRecord
  <2>5. e \in ExecRecord
    BY <2>1, <2>2 DEF ExecRecord, ExecState
  <2> QED
    BY <2>4, <2>5
<1>5. /\ exec[t].at # "idle" /\ unclaimed' \subseteq Task
      /\ UNCHANGED <<graph, status, attempt, walk>>
  BY ExecTyped DEF ScanRaises
<1> HIDE DEF e
<1> QED
  BY <1>1, <1>2, <1>4, <1>5, ExecMove

LEMMA TriggerStep == ASSUME Inv, NEW t \in Task, Trigger(t) PROVE Inv'
<1> DEFINE u == exec[t].on
<1>1. u \in Task /\ Met(u) /\ Met(t)
  BY DEF Trigger, Inv, DispatchInv
<1>2. CASE Claimable(u)
  <2>1. u # t
    BY <1>2 DEF Trigger, Claimable, Inv, DispatchInv
  <2>2. Start(u) /\ UNCHANGED <<graph, walk, faults, unclaimed>>
        /\ exec' = [exec EXCEPT ![t].at = "wait", ![u] = NewExec("running")]
    BY <1>2 DEF Trigger
  <2> HIDE DEF u
  <2>3. NewExec("running") \in ExecRecord
    BY DEF NewExec, ExecRecord, ExecState, MaxTries
  <2> DEFINE w == [exec[t] EXCEPT !.at = "wait"]
  <2>4. w \in ExecRecord
    BY ExecTyped DEF ExecRecord, ExecState
  <2>5. \A v \in Task : exec'[v] = IF v = u THEN NewExec("running")
                                   ELSE IF v = t THEN w ELSE exec[v]
    BY <1>1, <2>1, <2>2 DEF Inv, TypeOK
  <2>6. exec' \in [Task -> ExecRecord]
    BY <1>1, <2>2, <2>3, <2>4 DEF Inv, TypeOK, ExecRecord
  <2>7. TypeOK'
    BY <1>1, <2>2, <2>6, Claims DEF Inv, TypeOK, ExecRecord
  <2>8. \A v \in Task : Met(v) => Met(v)'
    BY <1>1, <2>2, Claims
  <2>9. w.on \in Task /\ w.at = "wait" /\ w.tries < MaxTries
    BY <1>1, ExecTyped DEF u, Trigger, Inv, DispatchInv, ExecRecord
  <2> HIDE DEF w
  <2>10. \A v \in Task : /\ exec'[v].at # "idle" => Met(v)'
                         /\ exec'[v].at \in {"call", "wait"} => exec'[v].on \in Task
                         /\ exec'[v].at # "done" => exec'[v].tries < MaxTries
    BY <1>1, <2>5, <2>8, <2>9 DEF Inv, DispatchInv, NewExec, MaxTries
  <2>11. ASSUME NEW v \in Task, exec'[v].at = "call" PROVE Met(exec[v].on)'
    <3>1. exec'[v] = exec[v]
      BY <2>5, <2>9, <2>11 DEF NewExec
    <3>2. exec[v].on \in Task /\ Met(exec[v].on)
      BY <2>11, <3>1 DEF Inv, DispatchInv
    <3> QED
      BY <2>8, <3>1, <3>2 DEF Met
  <2>12. \A g \in DOMAIN walk : /\ walk[g].ready \subseteq Task /\ Walked(g) \in Task
                                /\ \A v \in walk[g].ready : Met(v)
                                /\ walk[g].at \in Calling => Met(Walked(g))
    BY WalkedIsTask DEF Inv, TypeOK, DispatchInv
  <2>13. \A g \in DOMAIN walk' : /\ \A v \in walk'[g].ready : Met(v)'
                                 /\ walk'[g].at \in Calling => Met(Walked(g))'
    BY <2>2, <2>8, <2>12
  <2>14. ASSUME NEW v \in Task, status'[v] = "pending"
         PROVE  attempt'[v] = 0 /\ exec'[v].at = "idle"
    <3>1. v # u /\ status[v] = "pending" /\ attempt'[v] = 0
      BY <1>1, <2>2, <2>14, Claims
    <3>2. exec[v].at = "idle" /\ v # t
      BY <3>1 DEF Trigger, Inv, DispatchInv
    <3> QED
      BY <2>5, <3>1, <3>2
  <2>15. ExecutedOnce'
    BY <1>1, <2>2, Claims
  <2>16. DispatchInv'
    BY <2>10, <2>11, <2>13, <2>14, <2>15 DEF DispatchInv, Walked, Calling
  <2> QED
    BY <2>7, <2>16 DEF Inv
<1>3. CASE ~Claimable(u)
  <2> DEFINE e == [exec[t] EXCEPT !.at = "look"]
  <2>1. e \in ExecRecord /\ e.at = "look" /\ exec' = [exec EXCEPT ![t] = e]
        /\ e.tries < MaxTries
    BY <1>3, ExecTyped DEF Trigger, Inv, DispatchInv, ExecRecord, ExecState
  <2> QED
    BY <1>3, <2>1, ExecMove, ExecTyped DEF Trigger
<1> QED
  BY <1>2, <1>3

LEMMA TriggerRaisesInv == ASSUME Inv, NEW t \in Task, TriggerRaises(t) PROVE Inv'
<1> DEFINE e == [exec[t] EXCEPT !.at = "look"]
<1>1. e \in ExecRecord /\ e.at = "look" /\ exec' = [exec EXCEPT ![t] = e]
      /\ e.tries < MaxTries
  BY ExecTyped DEF TriggerRaises, Inv, DispatchInv, ExecRecord, ExecState
<1>2. faults' \in 0 .. graph.maxFaults /\ unclaimed' \subseteq Task
  BY GraphAssumption DEF TriggerRaises, Fault, Inv, TypeOK, DispatchInv
<1> QED
  BY <1>1, <1>2, ExecMove DEF TriggerRaises

LEMMA TriggeredInv == ASSUME Inv, NEW t \in Task, Triggered(t) PROVE Inv'
<1> DEFINE e == [exec[t] EXCEPT !.at = "look"]
<1>1. e \in ExecRecord /\ e.at = "look" /\ exec' = [exec EXCEPT ![t] = e]
      /\ e.tries < MaxTries
  BY ExecTyped DEF Triggered, Inv, DispatchInv, ExecRecord, ExecState
<1> QED
  BY <1>1, ExecMove, ExecTyped DEF Triggered

LEMMA EndScanInv == ASSUME Inv, NEW t \in Task, EndScan(t) PROVE Inv'
<1> DEFINE e == [exec[t] EXCEPT !.at = "done"]
<1>1. e \in ExecRecord /\ e.at = "done" /\ exec' = [exec EXCEPT ![t] = e]
  BY ExecTyped DEF EndScan, ExecRecord, ExecState
<1> QED
  BY <1>1, ExecMove, ExecTyped DEF EndScan

-----------------------------------------------------------------------------
\* Every step of the walks, of the executions, and every failure.
LEMMA NextInv == Inv /\ [Next]_vars => Inv'
<1> SUFFICES ASSUME Inv, [Next]_vars PROVE Inv'
  OBVIOUS
<1>1. ASSUME NEW f \in DOMAIN walk, WalkStep(f) PROVE Inv'
  <2>1. CASE Enter(f)
    BY <2>1, EnterInv
  <2>2. CASE NextGroup(f)
    BY <2>2, NextGroupInv
  <2>3. CASE Launch(f)
    BY <2>3, LaunchInv
  <2>4. CASE Join(f)
    BY <2>4, JoinInv
  <2>5. CASE CheckSelf(f)
    BY <2>5, CheckSelfInv
  <2>6. CASE Dispatch(f)
    BY <2>6, DispatchStep
  <2>7. CASE Awaited(f)
    BY <2>7, AwaitedInv
  <2>8. ASSUME NEW t \in Task, CheckOne(f, t) PROVE Inv'
    BY <2>8, CheckOneInv
  <2> QED
    BY <1>1, <2>1, <2>2, <2>3, <2>4, <2>5, <2>6, <2>7, <2>8 DEF WalkStep
<1>2. ASSUME NEW t \in Task, ExecStep(t) PROVE Inv'
  <2>1. CASE ReadTree(t)
    BY <2>1, ReadTreeInv
  <2>2. CASE Trigger(t)
    BY <2>2, TriggerStep
  <2>3. CASE Triggered(t)
    BY <2>3, TriggeredInv
  <2>4. CASE EndScan(t)
    BY <2>4, EndScanInv
  <2>5. ASSUME NEW outcome \in {"completed", "failed"}, Finish(t, outcome) PROVE Inv'
    BY <2>5, FinishInv
  <2>6. ASSUME NEW u \in Task, ScanOne(t, u) PROVE Inv'
    BY <2>6, ScanOneInv
  <2> QED
    BY <1>2, <2>1, <2>2, <2>3, <2>4, <2>5, <2>6 DEF ExecStep
<1>3. ASSUME Failure PROVE Inv'
  BY <1>3, CheckRaisesInv, DispatchRaisesInv, ScanRaisesInv, TriggerRaisesInv DEF Failure
<1>4. CASE UNCHANGED vars
  <2>1. TypeOK'
    BY <1>4 DEF Inv, TypeOK, vars
  <2>2. DispatchInv'
    BY <1>4 DEF Inv, DispatchInv, ExecutedOnce, Met, Walked, Calling, vars
  <2> QED
    BY <2>1, <2>2 DEF Inv
<1> QED
  BY <1>1, <1>2, <1>3, <1>4 DEF Next

\* The inductive invariant: in any tree whoever is about to claim a task has seen
\* its dependencies completed.
THEOREM Dispatching == Spec => []DispatchInv
<1>1. Inv => DispatchInv
  BY DEF Inv
<1> QED
  BY InitInv, NextInv, <1>1, PTL DEF Spec

\* _execute_priority_group, execute_after_task: a task is started only when all
\* of its required dependencies are completed, for any tree, any dependencies,
\* cyclic ones too, any interleaving of the scans and any failures.
THEOREM Dependencies == Spec => []DependenciesFirst
<1>1. Inv => DependenciesFirst
  BY DEF Inv, DispatchInv, DependenciesFirst, Met
<1> QED
  BY InitInv, NextInv, <1>1, PTL DEF Spec

\* try_claim_for_execution: however many walks and scans dispatch a task, it is
\* claimed once.
THEOREM Once == Spec => []ExecutedOnce
<1>1. Inv => ExecutedOnce
  BY DEF Inv, DispatchInv
<1> QED
  BY InitInv, NextInv, <1>1, PTL DEF Spec

\* All of it together, as the runs check it: the claims of task_manager.py's
\* coroutines follow the dependencies, for any tree and any number of faults.
THEOREM OrderedDispatch == Spec => []DispatchedInOrder
<1>1. Inv /\ DependenciesFirst => DispatchedInOrder
  BY DEF Inv, DispatchedInOrder
<1> QED
  BY <1>1, InitInv, NextInv, Dependencies, PTL DEF Spec

-----------------------------------------------------------------------------
(* What a walk leaves behind.                                                *)

\* The branches of a walk are awaited by a walk that is no branch of them: whichever
\* of the walks below the root one takes, one of them is joined from outside.
Nested ==
  \A S \in SUBSET (DOMAIN walk \ {Top}) : S # {} =>
    \E f \in DOMAIN walk \ S : walk[f].at = "join" /\ Branches(f) \cap S # {}

\* So are the executions, by a walk or by the scan of another execution.
InFlight == {t \in Task : exec[t].at \notin {"idle", "done"}}
Holds(f, t) == walk[f].at \in Waiting /\ Walked(f) = t
Awaits(u, t) == exec[u].at = "wait" /\ exec[u].on = t
AwaitedBeyond(S, t) == (\E f \in DOMAIN walk : Holds(f, t)) \/ \E u \in InFlight \ S : Awaits(u, t)
Rooted == \A S \in SUBSET InFlight : S # {} => \E t \in S : AwaitedBeyond(S, t)

\* The row of a task says in_progress only while its executor runs.
ProgressRuns == \A t \in Task : status[t] = "in_progress" => exec[t].at = "running"

\* The walk of the root begins before anything is executed, and is nobody's branch.
TopLeads ==
  /\ Top \in DOMAIN walk /\ walk[Top].at \notin {"branch", "branch_wait"}
  /\ walk[Top].at = "enter" => \A t \in Task : exec[t].at = "idle"

\* The walk of the root has still to come to a task ...
Visits(t) ==
  \/ walk[Top].at \in {"enter", "raised"}
  \/ walk[Top].at \in {"next", "check", "join"} /\ (t = Root \/ t \in walk[Top].later)
  \/ walk[Top].at = "check" /\ t \in walk[Top].unchecked \cup walk[Top].ready
  \/ /\ walk[Top].at = "join" /\ t \in walk[Top].ready
     /\ Append(Top, t) \in DOMAIN walk /\ walk[Append(Top, t)].at = "branch"
  \/ walk[Top].at = "self" /\ t = Root

\* ... or the scan of a completed one has.
ScansFor(e, t) ==
  \/ e.at = "after"
  \/ e.at \in {"look", "call", "wait"} /\ t \in e.scan
  \/ e.at = "call" /\ e.on = t
Scans(t) == \E d \in Task : ScansFor(exec[d], t)

\* No task that is ready is out of sight of both.
GivenUp == \E t \in Task : ~(exec[t].tries < MaxTries)
Due(t) == status[t] = "pending" /\ Met(t) /\ t \notin unclaimed
NoneMissed == GivenUp \/ \A t \in Task : Due(t) => Visits(t) \/ Scans(t)

WalkInv == Inv /\ Nested /\ Rooted /\ ProgressRuns /\ TopLeads /\ NoneMissed

LEMMA WalkTyped ==
  ASSUME Inv, NEW f \in DOMAIN walk
  PROVE  f \in Seq(Task) /\ f # << >> /\ walk[f] \in WalkRecord /\ Walked(f) \in Task
BY WalkedIsTask DEF Inv, TypeOK, WalkRecord

\* A branch has one walk it belongs to, and the root has none.
LEMMA BranchOf ==
  ASSUME NEW f \in Seq(Task), NEW c \in Task
  PROVE  /\ f # << >> => Append(f, c) # Top
         /\ \A g \in Seq(Task), d \in Task : Append(f, c) = Append(g, d) => f = g /\ c = d
<1>1. Len(Append(f, c)) = Len(f) + 1 /\ Len(Top) = 1 /\ Len(f) \in Nat
  BY DEF Top
<1>2. f # << >> => Len(f) > 0
  OBVIOUS
<1>3. ASSUME NEW g \in Seq(Task), NEW d \in Task, Append(f, c) = Append(g, d)
      PROVE  f = g /\ c = d
  <2>1. Len(f) = Len(g)
    <3>1. Len(Append(g, d)) = Len(g) + 1 /\ Len(g) \in Nat
      OBVIOUS
    <3> QED
      BY <1>1, <1>3, <3>1
  <2>2. \A i \in 1 .. Len(f) : f[i] = Append(f, c)[i] /\ g[i] = Append(g, d)[i]
    BY <2>1
  <2>3. \A i \in 1 .. Len(f) : f[i] = g[i]
    BY <1>3, <2>2
  <2>4. f = g
    BY <2>1, <2>3
  <2>5. c = Append(f, c)[Len(f) + 1] /\ d = Append(g, d)[Len(g) + 1]
    OBVIOUS
  <2> QED
    BY <1>3, <2>1, <2>4, <2>5
<1> QED
  BY <1>1, <1>2, <1>3

LEMMA BranchesOf ==
  ASSUME Inv, NEW f \in DOMAIN walk
  PROVE  /\ Top \notin Branches(f) /\ f \notin Branches(f)
         /\ \A g \in DOMAIN walk : g # f => Branches(f) \cap Branches(g) = {}
         /\ \A t \in Task : f # Top => Append(Top, t) \notin Branches(f)
         /\ \A t \in Task : Append(Top, t) \in Branches(f) => t \in walk[f].ready
<1>1. f \in Seq(Task) /\ f # << >> /\ walk[f].ready \subseteq Task
  BY WalkTyped DEF WalkRecord
<1>2. Top \in Seq(Task)
  BY GraphAssumption DEF Top
<1>3. Top \notin Branches(f)
  BY <1>1, BranchOf DEF Branches
<1>4. f \notin Branches(f)
  <2>1. \A c \in Task : Len(Append(f, c)) = Len(f) + 1 /\ Len(f) \in Nat
    BY <1>1
  <2>2. \A c \in Task : Append(f, c) # f
    BY <2>1
  <2> QED
    BY <1>1, <2>2 DEF Branches
<1>5. ASSUME NEW g \in DOMAIN walk, g # f
      PROVE  Branches(f) \cap Branches(g) = {}
  <2>1. g \in Seq(Task) /\ walk[g].ready \subseteq Task
    BY WalkTyped DEF WalkRecord
  <2> QED
    BY <1>1, <1>5, <2>1, BranchOf DEF Branches
<1>6. \A t \in Task, c \in walk[f].ready : Append(Top, t) = Append(f, c) => f = Top /\ c = t
  BY <1>1, <1>2, BranchOf
<1> QED
  BY <1>3, <1>4, <1>5, <1>6 DEF Branches

\* While the walk of the root has branches it waits for them.
LEMMA TopJoins ==
  ASSUME Nested, NEW f \in DOMAIN walk, f # Top
  PROVE  walk[Top].at = "join"
<1>1. f \in DOMAIN walk \ {Top}
  OBVIOUS
<1>2. PICK g \in DOMAIN walk \ (DOMAIN walk \ {Top}) : walk[g].at = "join"
  BY <1>1 DEF Nested
<1> QED
  BY <1>2

-----------------------------------------------------------------------------
(* The nesting of the walks.                                                 *)

LEMMA NestedStays ==
  ASSUME Nested, DOMAIN walk' = DOMAIN walk,
         \A f \in DOMAIN walk : walk[f].at = "join" => walk'[f] = walk[f]
  PROVE  Nested'
<1> SUFFICES ASSUME NEW S \in SUBSET (DOMAIN walk \ {Top}), S # {}
             PROVE  \E f \in DOMAIN walk \ S : walk'[f].at = "join" /\ Branches(f)' \cap S # {}
  BY DEF Nested
<1>1. PICK f \in DOMAIN walk \ S : walk[f].at = "join" /\ Branches(f) \cap S # {}
  BY DEF Nested
<1>2. Branches(f)' = Branches(f) /\ walk'[f].at = "join"
  BY <1>1 DEF Branches
<1> QED
  BY <1>1, <1>2

\* A walk launches branches that did not exist.
LEMMA LaunchedAreNew ==
  ASSUME Inv, Nested, NEW f \in DOMAIN walk, walk[f].at # "join"
  PROVE  Branches(f) \cap DOMAIN walk = {}
<1> SUFFICES ASSUME NEW g \in Branches(f), g \in DOMAIN walk PROVE FALSE
  OBVIOUS
<1>1. g # Top
  BY BranchesOf
<1>2. PICK h \in DOMAIN walk \ {g} : walk[h].at = "join" /\ Branches(h) \cap {g} # {}
  BY <1>1 DEF Nested
<1>3. h # f /\ g \in Branches(h)
  BY <1>2
<1> QED
  BY <1>3, BranchesOf

LEMMA NestedLaunch ==
  ASSUME Inv, Nested, NEW f \in DOMAIN walk, Launch(f)
  PROVE  Nested'
<1>1. Branches(f) \cap DOMAIN walk = {} /\ walk[f].at = "check"
  BY LaunchedAreNew DEF Launch, At
<1>2. /\ DOMAIN walk' = DOMAIN walk \cup Branches(f)
      /\ \A g \in DOMAIN walk : g # f => walk'[g] = walk[g]
      /\ walk'[f] = [walk[f] EXCEPT !.at = "join"]
  BY <1>1 DEF Launch
<1>3. walk'[f].at = "join" /\ walk'[f].ready = walk[f].ready
  BY <1>2, WalkTyped DEF WalkRecord
<1>4. Branches(f)' = Branches(f)
  BY <1>3 DEF Branches
<1> SUFFICES ASSUME NEW S \in SUBSET (DOMAIN walk' \ {Top}), S # {}
             PROVE  \E g \in DOMAIN walk' \ S : walk'[g].at = "join" /\ Branches(g)' \cap S # {}
  BY DEF Nested
<1>5. CASE S \cap DOMAIN walk # {}
  <2>1. PICK g \in DOMAIN walk \ (S \cap DOMAIN walk) :
          walk[g].at = "join" /\ Branches(g) \cap (S \cap DOMAIN walk) # {}
    BY <1>5 DEF Nested
  <2>2. walk'[g] = walk[g]
    BY <1>1, <1>2, <2>1
  <2>3. Branches(g)' = Branches(g)
    BY <2>2 DEF Branches
  <2> QED
    BY <1>2, <2>1, <2>2, <2>3
<1>6. CASE S \cap DOMAIN walk = {}
  <2>1. PICK g \in S : g \in Branches(f)
    BY <1>2, <1>6
  <2>2. f \in DOMAIN walk' \ S
    BY <1>2, <1>6
  <2>3. g \in Branches(f)' \cap S
    BY <1>4, <2>1
  <2>4. Branches(f)' \cap S # {}
    BY <2>3
  <2> QED
    BY <1>3, <2>2, <2>4
<1> QED
  BY <1>5, <1>6

LEMMA NestedJoin ==
  ASSUME Inv, Nested, NEW f \in DOMAIN walk,
         \A g \in Branches(f) : walk[g].at \in {"returned", "raised"},
         DOMAIN walk' = DOMAIN walk \ Branches(f),
         \A g \in DOMAIN walk' : g # f => walk'[g] = walk[g]
  PROVE  Nested'
<1> SUFFICES ASSUME NEW S \in SUBSET (DOMAIN walk' \ {Top}), S # {}
             PROVE  \E g \in DOMAIN walk' \ S : walk'[g].at = "join" /\ Branches(g)' \cap S # {}
  BY DEF Nested
<1>1. PICK g \in DOMAIN walk \ S : walk[g].at = "join" /\ Branches(g) \cap S # {}
  BY DEF Nested
<1>2. g # f /\ g \in DOMAIN walk'
  BY <1>1
<1>3. walk'[g] = walk[g]
  BY <1>2
<1>4. Branches(g)' = Branches(g)
  BY <1>3 DEF Branches
<1> QED
  BY <1>1, <1>2, <1>3, <1>4

-----------------------------------------------------------------------------
(* Who awaits whom.                                                          *)

HoldersStay ==
  \A t \in InFlight, f \in DOMAIN walk :
    t \in InFlight' /\ Holds(f, t) => f \in DOMAIN walk' /\ Holds(f, t)'
AwaitersStay ==
  \A t \in InFlight, u \in InFlight :
    t \in InFlight' /\ Awaits(u, t) => u \in InFlight' /\ Awaits(u, t)'

LEMMA RootedStays ==
  ASSUME Rooted, InFlight' \subseteq InFlight, HoldersStay, AwaitersStay
  PROVE  Rooted'
<1> SUFFICES ASSUME NEW S \in SUBSET InFlight', S # {}
             PROVE  \E t \in S : AwaitedBeyond(S, t)'
  BY DEF Rooted
<1>1. PICK t \in S : AwaitedBeyond(S, t)
  BY DEF Rooted
<1>2. t \in InFlight /\ t \in InFlight'
  OBVIOUS
<1>3. CASE \E f \in DOMAIN walk : Holds(f, t)
  BY <1>2, <1>3 DEF HoldersStay, AwaitedBeyond
<1>4. CASE \E u \in InFlight \ S : Awaits(u, t)
  BY <1>2, <1>4 DEF AwaitersStay, AwaitedBeyond
<1> QED
  BY <1>1, <1>3, <1>4 DEF AwaitedBeyond

LEMMA RootedGrows ==
  ASSUME Rooted, NEW v \in Task, v \notin InFlight, InFlight' = InFlight \cup {v},
         HoldersStay, AwaitersStay,
         (\E f \in DOMAIN walk' : Holds(f, v)') \/ \E u \in InFlight : Awaits(u, v)'
  PROVE  Rooted'
<1> SUFFICES ASSUME NEW S \in SUBSET InFlight', S # {}
             PROVE  \E t \in S : AwaitedBeyond(S, t)'
  BY DEF Rooted
<1>1. CASE S = {v}
  BY <1>1 DEF AwaitedBeyond
<1>2. CASE S # {v}
  <2>1. S \ {v} \in SUBSET InFlight /\ S \ {v} # {}
    BY <1>2
  <2>2. PICK t \in S \ {v} : AwaitedBeyond(S \ {v}, t)
    BY <2>1 DEF Rooted
  <2>3. t \in InFlight /\ t \in InFlight'
    BY <2>1
  <2>4. CASE \E f \in DOMAIN walk : Holds(f, t)
    BY <2>3, <2>4 DEF HoldersStay, AwaitedBeyond
  <2>5. CASE \E u \in InFlight \ (S \ {v}) : Awaits(u, t)
    BY <2>3, <2>5 DEF AwaitersStay, AwaitedBeyond
  <2> QED
    BY <2>2, <2>4, <2>5 DEF AwaitedBeyond
<1> QED
  BY <1>1, <1>2

-----------------------------------------------------------------------------
(* The steps, by the coroutine that takes them.                              *)

\* A step that begins and ends no walk.
OneWalk(f) ==
  \/ Enter(f) \/ NextGroup(f) \/ CheckSelf(f) \/ Dispatch(f) \/ Awaited(f)
  \/ CheckRaises(f) \/ DispatchRaises(f)
  \/ \E t \in Task : CheckOne(f, t)
Moves(f) == OneWalk(f) \/ Launch(f) \/ Join(f)

Runs(t) ==
  \/ ReadTree(t) \/ ScanRaises(t) \/ Trigger(t) \/ TriggerRaises(t) \/ Triggered(t)
  \/ EndScan(t)
  \/ \E outcome \in {"completed", "failed"} : Finish(t, outcome)
  \/ \E u \in Task : ScanOne(t, u)

LEMMA NextIs ==
  ASSUME Next
  PROVE  (\E f \in DOMAIN walk : Moves(f)) \/ \E t \in Task : Runs(t)
BY DEF Next, WalkStep, ExecStep, Failure, Moves, OneWalk, Runs

LEMMA OneWalkMoves ==
  ASSUME Inv, NEW f \in DOMAIN walk, OneWalk(f)
  PROVE  /\ DOMAIN walk' = DOMAIN walk
         /\ \A g \in DOMAIN walk : g # f => walk'[g] = walk[g]
         /\ walk[f].at \notin {"join", "returned", "raised"}
         /\ walk[f].at \in Waiting => Awaited(f)
         /\ walk[f].at \notin {"branch", "branch_wait"} =>
              walk'[f].at \notin {"branch", "branch_wait", "enter"}
<1> DEFINE P ==
      /\ DOMAIN walk' = DOMAIN walk
      /\ \A g \in DOMAIN walk : g # f => walk'[g] = walk[g]
      /\ walk[f].at \notin {"join", "returned", "raised"}
      /\ walk[f].at \in Waiting => Awaited(f)
      /\ walk[f].at \notin {"branch", "branch_wait"} =>
           walk'[f].at \notin {"branch", "branch_wait", "enter"}
<1>0. walk[f] \in WalkRecord
  BY WalkTyped
<1>1. CASE Enter(f)
  BY <1>0, <1>1 DEF Enter, At, Go, Waiting, WalkRecord
<1>2. CASE NextGroup(f)
  <2> DEFINE group == FirstGroup(walk[f].later)
  <2>1. walk[f].at = "next"
        /\ walk' = [walk EXCEPT ![f].at = "check", ![f].unchecked = group,
                                ![f].later = @ \ group, ![f].ready = {}]
    BY <1>2 DEF NextGroup, At
  <2> HIDE DEF group
  <2> QED
    BY <1>0, <2>1 DEF Waiting, WalkRecord
<1>3. CASE CheckSelf(f)
  BY <1>0, <1>3 DEF CheckSelf, At, Go, Waiting, WalkRecord
<1>4. CASE Dispatch(f)
  <2>1. walk[f].at \in Calling
        /\ \/ Go(f, AwaitOf(walk[f].at))
           \/ Go(f, AfterCall(walk[f].at))
    BY <1>4 DEF Dispatch
  <2> QED
    BY <1>0, <2>1 DEF Go, Calling, Waiting, AwaitOf, AfterCall, WalkRecord
<1>5. CASE Awaited(f)
  BY <1>0, <1>5 DEF Awaited, Go, Waiting, AfterCall, WalkRecord
<1>6. CASE CheckRaises(f)
  <2>1. walk[f].at \in {"check", "next"} /\ Raise(f, DOMAIN walk)
    BY <1>6 DEF CheckRaises, At
  <2>2. /\ DOMAIN walk' = DOMAIN walk
        /\ \A g \in DOMAIN walk : g # f => walk'[g] = walk[g]
        /\ walk'[f] = [walk[f] EXCEPT !.at = "raised"]
    BY <2>1 DEF Raise
  <2> QED
    BY <1>0, <2>1, <2>2 DEF Waiting, WalkRecord
<1>7. CASE DispatchRaises(f)
  BY <1>0, <1>7 DEF DispatchRaises, Go, Calling, Waiting, AfterCall, WalkRecord
<1>8. ASSUME NEW t \in Task, CheckOne(f, t) PROVE P
  BY <1>0, <1>8 DEF CheckOne, At, Waiting, WalkRecord
<1> QED
  BY <1>1, <1>2, <1>3, <1>4, <1>5, <1>6, <1>7, <1>8 DEF OneWalk

LEMMA LaunchMoves ==
  ASSUME Inv, NEW f \in DOMAIN walk, Launch(f)
  PROVE  /\ walk[f].at = "check" /\ walk[f].unchecked = {}
         /\ DOMAIN walk' = DOMAIN walk \cup Branches(f)
         /\ \A g \in DOMAIN walk : g # f /\ g \notin Branches(f) => walk'[g] = walk[g]
         /\ \A g \in Branches(f) : walk'[g] = NewWalk("branch")
         /\ walk'[f] = [walk[f] EXCEPT !.at = "join"]
         /\ UNCHANGED <<graph, status, attempt, exec, faults, unclaimed>>
<1>1. f \notin Branches(f)
  BY BranchesOf
<1> QED
  BY <1>1 DEF Launch, At

LEMMA JoinMoves ==
  ASSUME Inv, NEW f \in DOMAIN walk, Join(f)
  PROVE  /\ walk[f].at = "join"
         /\ \A g \in Branches(f) : walk[g].at \in {"returned", "raised"}
         /\ DOMAIN walk' = DOMAIN walk \ Branches(f)
         /\ \A g \in DOMAIN walk' : g # f => walk'[g] = walk[g]
         /\ f \in DOMAIN walk'
         /\ \/ walk'[f] = [walk[f] EXCEPT !.at = "raised"]
            \/ walk'[f] = [walk[f] EXCEPT !.at = "next"]
         /\ UNCHANGED <<graph, attempt, exec, faults, unclaimed>>
<1>1. f \notin Branches(f)
  BY BranchesOf
<1>2. walk[f].at = "join" /\ UNCHANGED <<graph, attempt, exec, faults, unclaimed>>
      /\ \A g \in Branches(f) : walk[g].at \in {"returned", "raised"}
  BY DEF Join, At
<1>3. CASE \E g \in Branches(f) : walk[g].at = "raised"
  <2>1. walk' = [g \in DOMAIN walk \ Branches(f) |->
                   IF g = f THEN [walk[f] EXCEPT !.at = "raised"] ELSE walk[g]]
    BY <1>3 DEF Join, Raise
  <2> QED
    BY <1>1, <1>2, <2>1
<1>4. CASE ~ \E g \in Branches(f) : walk[g].at = "raised"
  <2>1. walk' = [g \in DOMAIN walk \ Branches(f) |->
                   IF g = f THEN [walk[f] EXCEPT !.at = "next"] ELSE walk[g]]
    BY <1>4 DEF Join
  <2> QED
    BY <1>1, <1>2, <2>1
<1> QED
  BY <1>3, <1>4

\* A step of one walk leaves the others as they are, but for branches that are over.
LEMMA OthersKeep ==
  ASSUME Inv, Nested, NEW f \in DOMAIN walk, Moves(f), NEW g \in DOMAIN walk, g # f,
         g \notin Branches(f) \/ walk[g].at \notin {"returned", "raised"}
  PROVE  g \in DOMAIN walk' /\ walk'[g] = walk[g]
<1>1. CASE OneWalk(f)
  BY <1>1, OneWalkMoves
<1>2. CASE Launch(f)
  <2>1. Branches(f) \cap DOMAIN walk = {}
    BY <1>2, LaunchMoves, LaunchedAreNew
  <2> QED
    BY <1>2, <2>1, LaunchMoves
<1>3. CASE Join(f)
  BY <1>3, JoinMoves
<1> QED
  BY <1>1, <1>2, <1>3 DEF Moves

LEMMA NestedMoves ==
  ASSUME Inv, Nested, NEW f \in DOMAIN walk, Moves(f)
  PROVE  Nested'
<1>1. CASE OneWalk(f)
  <2>1. \A g \in DOMAIN walk : walk[g].at = "join" => walk'[g] = walk[g]
    BY <1>1, OneWalkMoves
  <2>2. DOMAIN walk' = DOMAIN walk
    BY <1>1, OneWalkMoves
  <2> QED
    BY <2>1, <2>2, NestedStays
<1>2. CASE Launch(f)
  BY <1>2, NestedLaunch
<1>3. CASE Join(f)
  BY <1>3, JoinMoves, NestedJoin
<1> QED
  BY <1>1, <1>2, <1>3 DEF Moves

\* What a walk does to the executions: it claims a task that is pending, or nothing.
LEMMA MovesClaim ==
  ASSUME Inv, NEW f \in DOMAIN walk, Moves(f)
  PROVE  /\ graph' = graph /\ unclaimed \subseteq unclaimed'
         /\ \/ exec' = exec
            \/ /\ Dispatch(f) /\ status[Walked(f)] = "pending"
               /\ status' = [status EXCEPT ![Walked(f)] = "in_progress"]
               /\ exec' = [exec EXCEPT ![Walked(f)] = NewExec("running")]
               /\ walk' = [walk EXCEPT ![f].at = AwaitOf(walk[f].at)]
         /\ \A t \in Task : /\ status'[t] = "pending" => status[t] = "pending"
                            /\ status'[t] = "completed" => status[t] = "completed"
                            /\ status'[t] = "in_progress" =>
                                 status[t] = "in_progress" \/ exec'[t].at = "running"
<1> DEFINE Rows ==
      \A t \in Task : /\ status'[t] = "pending" => status[t] = "pending"
                      /\ status'[t] = "completed" => status[t] = "completed"
                      /\ status'[t] = "in_progress" =>
                           status[t] = "in_progress" \/ exec'[t].at = "running"
<1>0. Walked(f) \in Task /\ status \in [Task -> Status] /\ exec \in [Task -> ExecRecord]
  BY WalkTyped DEF Inv, TypeOK, ExecRecord
<1>1. CASE Dispatch(f) /\ Claimable(Walked(f))
  <2>1. /\ graph' = graph /\ unclaimed' = unclaimed /\ status[Walked(f)] = "pending"
        /\ status' = [status EXCEPT ![Walked(f)] = "in_progress"]
        /\ exec' = [exec EXCEPT ![Walked(f)] = NewExec("running")]
        /\ walk' = [walk EXCEPT ![f].at = AwaitOf(walk[f].at)]
    BY <1>1 DEF Dispatch, Claimable, Start, Go
  <2>2. Rows
    BY <1>0, <2>1 DEF NewExec
  <2> QED
    BY <1>1, <2>1, <2>2
<1>2. ASSUME Raise(f, DOMAIN walk) \/ Raise(f, DOMAIN walk \ Branches(f))
      PROVE  Rows
  BY <1>0, <1>2 DEF Raise
<1>3. CASE CheckRaises(f)
  BY <1>2, <1>3 DEF CheckRaises
<1>4. CASE Join(f)
  <2>1. Rows
    BY <1>2, <1>4 DEF Join
  <2> QED
    BY <1>4, <2>1 DEF Join
<1>5. CASE /\ ~Join(f) /\ ~CheckRaises(f)
           /\ ~(Dispatch(f) /\ Claimable(Walked(f)))
  <2>1. /\ UNCHANGED <<graph, status, exec>> /\ unclaimed \subseteq unclaimed'
    BY <1>5 DEF Moves, OneWalk, Enter, NextGroup, CheckSelf, Dispatch, Awaited,
                DispatchRaises, CheckOne, Launch
  <2> QED
    BY <2>1
<1> QED
  BY <1>1, <1>3, <1>4, <1>5

\* What an execution does to the others: it claims one that is pending, or nothing.
TriggerClaims(t) ==
  LET u == exec[t].on
  IN  /\ Trigger(t) /\ u \in Task /\ u # t /\ status[u] = "pending" /\ exec[u].at = "idle"
      /\ status' = [status EXCEPT ![u] = "in_progress"]
      /\ exec' = [exec EXCEPT ![t].at = "wait", ![u] = NewExec("running")]

LEMMA RunsKeep ==
  ASSUME Inv, NEW t \in Task, Runs(t)
  PROVE  /\ UNCHANGED <<graph, walk>> /\ unclaimed \subseteq unclaimed'
         /\ t \in InFlight
         /\ exec[t].at = "wait" => Triggered(t)
         /\ \/ TriggerClaims(t)
            \/ /\ \A u \in Task : u # t => exec'[u] = exec[u]
               /\ \A u \in Task : status'[u] = "pending" => status[u] = "pending"
               /\ \A u \in Task : status'[u] = "in_progress" => status[u] = "in_progress"
               /\ status[t] = "in_progress" /\ exec[t].at = "running" =>
                    status'[t] # "in_progress"
<1> DEFINE Alone ==
      /\ \A u \in Task : u # t => exec'[u] = exec[u]
      /\ \A u \in Task : status'[u] = "pending" => status[u] = "pending"
      /\ \A u \in Task : status'[u] = "in_progress" => status[u] = "in_progress"
      /\ status[t] = "in_progress" /\ exec[t].at = "running" => status'[t] # "in_progress"
<1>0. status \in [Task -> Status] /\ exec \in [Task -> ExecRecord]
  BY DEF Inv, TypeOK, ExecRecord
<1>1. CASE ReadTree(t)
  BY <1>0, <1>1 DEF ReadTree, InFlight
<1>2. CASE ScanRaises(t)
  BY <1>0, <1>2 DEF ScanRaises, InFlight
<1>3. CASE Trigger(t)
  <2> DEFINE u == exec[t].on
  <2>1. u \in Task /\ exec[t].at = "call" /\ UNCHANGED <<graph, walk, unclaimed>>
    BY <1>3 DEF Trigger, Inv, DispatchInv
  <2>2. CASE Claimable(u)
    <3>1. status[u] = "pending" /\ exec[u].at = "idle" /\ u # t
      BY <2>1, <2>2 DEF Claimable, Inv, DispatchInv
    <3>2. /\ status' = [status EXCEPT ![u] = "in_progress"]
          /\ exec' = [exec EXCEPT ![t].at = "wait", ![u] = NewExec("running")]
      BY <1>3, <2>2 DEF Trigger, Start
    <3> QED
      BY <1>3, <2>1, <3>1, <3>2 DEF TriggerClaims, InFlight
  <2>3. CASE ~Claimable(u)
    <3>1. exec' = [exec EXCEPT ![t].at = "look"] /\ status' = status
      BY <1>3, <2>3 DEF Trigger
    <3> QED
      BY <1>0, <2>1, <3>1 DEF InFlight
  <2> QED
    BY <2>2, <2>3
<1>4. CASE TriggerRaises(t)
  BY <1>0, <1>4 DEF TriggerRaises, InFlight
<1>5. CASE Triggered(t)
  BY <1>0, <1>5 DEF Triggered, InFlight
<1>6. CASE EndScan(t)
  BY <1>0, <1>6 DEF EndScan, InFlight
<1>7. ASSUME NEW outcome \in {"completed", "failed"}, Finish(t, outcome)
      PROVE  /\ UNCHANGED <<graph, walk, unclaimed>> /\ exec[t].at = "running" /\ Alone
  BY <1>0, <1>7 DEF Finish
<1>8. ASSUME NEW u \in Task, ScanOne(t, u)
      PROVE  /\ UNCHANGED <<graph, walk, unclaimed>> /\ exec[t].at = "look" /\ Alone
  <2>1. exec[t].at = "look" /\ UNCHANGED <<graph, status, walk, unclaimed>>
    BY <1>8 DEF ScanOne
  <2>2. \A v \in Task : v # t => exec'[v] = exec[v]
    BY <1>0, <1>8 DEF ScanOne
  <2> QED
    BY <2>1, <2>2
<1>9. CASE \E outcome \in {"completed", "failed"} : Finish(t, outcome)
  <2>1. UNCHANGED <<graph, walk, unclaimed>> /\ exec[t].at = "running" /\ Alone
    BY <1>7, <1>9
  <2> QED
    BY <2>1 DEF InFlight
<1>10. CASE \E u \in Task : ScanOne(t, u)
  <2>1. UNCHANGED <<graph, walk, unclaimed>> /\ exec[t].at = "look" /\ Alone
    BY <1>8, <1>10
  <2> QED
    BY <2>1 DEF InFlight
<1> QED
  BY <1>1, <1>2, <1>3, <1>4, <1>5, <1>6, <1>9, <1>10 DEF Runs

-----------------------------------------------------------------------------
(* Each part of the invariant is kept.                                       *)

LEMMA RootedMoves ==
  ASSUME Inv, Nested, Rooted, NEW f \in DOMAIN walk, Moves(f)
  PROVE  Rooted'
<1>1. HoldersStay
  <2> SUFFICES ASSUME NEW t \in InFlight, NEW g \in DOMAIN walk, Holds(g, t)
               PROVE  g \in DOMAIN walk' /\ Holds(g, t)'
    BY DEF HoldersStay
  <2>1. walk[g].at \in Waiting /\ Walked(g) = t /\ exec[t].at # "done"
    BY DEF Holds, InFlight
  <2>2. g # f
    <3>1. CASE OneWalk(f)
      BY <2>1, <3>1, OneWalkMoves DEF Awaited
    <3>2. CASE Launch(f)
      BY <2>1, <3>2, LaunchMoves DEF Waiting
    <3>3. CASE Join(f)
      BY <2>1, <3>3, JoinMoves DEF Waiting
    <3> QED
      BY <3>1, <3>2, <3>3 DEF Moves
  <2>3. g \in DOMAIN walk' /\ walk'[g] = walk[g]
    BY <2>1, <2>2, OthersKeep DEF Waiting
  <2> QED
    BY <2>1, <2>3 DEF Holds, Walked
<1>2. CASE exec' = exec
  <2>1. InFlight' = InFlight /\ AwaitersStay
    BY <1>2 DEF InFlight, AwaitersStay, Awaits
  <2> QED
    BY <1>1, <2>1, RootedStays
<1>3. CASE /\ Dispatch(f) /\ status[Walked(f)] = "pending"
           /\ exec' = [exec EXCEPT ![Walked(f)] = NewExec("running")]
           /\ walk' = [walk EXCEPT ![f].at = AwaitOf(walk[f].at)]
  <2> DEFINE v == Walked(f)
  <2>1. v \in Task /\ exec[v].at = "idle" /\ walk[f] \in WalkRecord
        /\ exec \in [Task -> ExecRecord]
    BY <1>3, WalkTyped DEF Inv, TypeOK, DispatchInv, ExecRecord
  <2>2. \A u \in Task : exec'[u] = IF u = v THEN NewExec("running") ELSE exec[u]
    BY <1>3, <2>1
  <2>3. v \notin InFlight /\ InFlight' = InFlight \cup {v}
    BY <2>1, <2>2 DEF InFlight, NewExec
  <2>4. AwaitersStay
    <3>1. \A u \in InFlight : exec'[u] = exec[u]
      BY <2>2, <2>3 DEF InFlight
    <3> QED
      BY <2>3, <3>1 DEF AwaitersStay, Awaits
  <2>5. f \in DOMAIN walk' /\ walk'[f].at = AwaitOf(walk[f].at)
    BY <1>3, <2>1 DEF WalkRecord
  <2>6. Holds(f, v)'
    BY <2>5 DEF Holds, AwaitOf, Waiting, Walked
  <2>7. \E g \in DOMAIN walk' : Holds(g, v)'
    BY <2>5, <2>6
  <2> HIDE DEF v
  <2> QED
    BY <1>1, <2>1, <2>3, <2>4, <2>7, RootedGrows
<1> QED
  BY <1>2, <1>3, MovesClaim

LEMMA RootedRuns ==
  ASSUME Inv, Rooted, NEW t \in Task, Runs(t)
  PROVE  Rooted'
<1>0. walk' = walk /\ t \in InFlight /\ exec \in [Task -> ExecRecord]
  BY RunsKeep DEF Inv, TypeOK, ExecRecord
<1>1. HoldersStay
  BY <1>0 DEF HoldersStay, Holds, Walked
<1>2. CASE TriggerClaims(t)
  <2>1. PICK v \in Task :
          /\ v = exec[t].on /\ v # t /\ exec[v].at = "idle" /\ exec[t].at = "call"
          /\ exec' = [exec EXCEPT ![t].at = "wait", ![v] = NewExec("running")]
    BY <1>2 DEF TriggerClaims, Trigger
  <2>2. exec'[v] = NewExec("running") /\ exec'[t] = [exec[t] EXCEPT !.at = "wait"]
        /\ \A u \in Task : u # v /\ u # t => exec'[u] = exec[u]
    BY <1>0, <2>1
  <2>3. exec'[t].at = "wait" /\ exec'[t].on = v
    BY <1>0, <2>1, <2>2 DEF ExecRecord
  <2>4. v \notin InFlight /\ InFlight' = InFlight \cup {v}
    BY <1>0, <2>1, <2>2, <2>3 DEF InFlight, NewExec
  <2>5. AwaitersStay
    <3> SUFFICES ASSUME NEW w \in InFlight, NEW u \in InFlight, Awaits(u, w)
                 PROVE  u \in InFlight' /\ Awaits(u, w)'
      BY DEF AwaitersStay
    <3>1. u # t /\ u # v
      BY <2>1, <2>4 DEF Awaits
    <3>2. u \in Task
      BY DEF InFlight
    <3> QED
      BY <2>2, <2>4, <3>1, <3>2 DEF Awaits
  <2>6. \E u \in InFlight : Awaits(u, v)'
    BY <1>0, <2>3 DEF Awaits
  <2> QED
    BY <1>1, <2>1, <2>4, <2>5, <2>6, RootedGrows
<1>3. CASE \A u \in Task : u # t => exec'[u] = exec[u]
  <2>1. InFlight' \subseteq InFlight
    BY <1>0, <1>3 DEF InFlight
  <2>2. AwaitersStay
    <3> SUFFICES ASSUME NEW w \in InFlight, NEW u \in InFlight, Awaits(u, w)
                 PROVE  u \in InFlight' /\ Awaits(u, w)'
      BY DEF AwaitersStay
    <3>1. u # t
      BY RunsKeep DEF Awaits, Triggered, InFlight
    <3>2. u \in Task
      BY DEF InFlight
    <3> QED
      BY <1>3, <3>1, <3>2 DEF Awaits, InFlight
  <2> QED
    BY <1>1, <2>1, <2>2, RootedStays
<1> QED
  BY <1>2, <1>3, RunsKeep

LEMMA ProgressStep ==
  ASSUME Inv, ProgressRuns, Next
  PROVE  ProgressRuns'
<1>0. exec \in [Task -> ExecRecord] /\ status \in [Task -> Status]
  BY DEF Inv, TypeOK, ExecRecord
<1> SUFFICES ASSUME NEW t \in Task, status'[t] = "in_progress"
             PROVE  exec'[t].at = "running"
  BY DEF ProgressRuns
<1>1. ASSUME NEW f \in DOMAIN walk, Moves(f) PROVE exec'[t].at = "running"
  <2>1. CASE exec'[t].at # "running"
    <3>1. status[t] = "in_progress" /\ exec[t].at = "running"
      BY <1>1, <2>1, MovesClaim DEF ProgressRuns
    <3>2. exec' = exec \/ /\ status[Walked(f)] = "pending"
                          /\ exec' = [exec EXCEPT ![Walked(f)] = NewExec("running")]
      BY <1>1, MovesClaim
    <3>3. exec'[t] = exec[t]
      BY <1>0, <3>1, <3>2
    <3> QED
      BY <3>1, <3>3
  <2> QED
    BY <2>1
<1>2. ASSUME NEW u \in Task, Runs(u) PROVE exec'[t].at = "running"
  <2>1. CASE TriggerClaims(u)
    <3> DEFINE v == exec[u].on
    <3>1. /\ v \in Task /\ v # u /\ exec[u].at = "call"
          /\ status' = [status EXCEPT ![v] = "in_progress"]
          /\ exec' = [exec EXCEPT ![u].at = "wait", ![v] = NewExec("running")]
      BY <2>1 DEF TriggerClaims, Trigger
    <3> HIDE DEF v
    <3>2. CASE t = v
      BY <1>0, <3>1, <3>2 DEF NewExec
    <3>3. CASE t # v
      <4>1. status[t] = "in_progress" /\ exec[t].at = "running"
        BY <1>0, <3>1, <3>3 DEF ProgressRuns
      <4>2. t # u
        BY <3>1, <4>1
      <4> QED
        BY <1>0, <3>1, <3>3, <4>1, <4>2
    <3> QED
      BY <3>2, <3>3
  <2>2. CASE /\ \A v \in Task : v # u => exec'[v] = exec[v]
             /\ \A v \in Task : status'[v] = "in_progress" => status[v] = "in_progress"
             /\ status[u] = "in_progress" /\ exec[u].at = "running" =>
                  status'[u] # "in_progress"
    <3>1. status[t] = "in_progress" /\ exec[t].at = "running"
      BY <2>2 DEF ProgressRuns
    <3>2. t # u
      BY <2>2, <3>1
    <3> QED
      BY <2>2, <3>1, <3>2
  <2> QED
    BY <1>2, <2>1, <2>2, RunsKeep
<1> QED
  BY <1>1, <1>2, NextIs

\* The walk of the root has begun with the first step.
LEMMA TopStep ==
  ASSUME Inv, Nested, TopLeads, Next
  PROVE  TopLeads' /\ walk'[Top].at # "enter"
<1>1. ASSUME NEW f \in DOMAIN walk, Moves(f)
      PROVE  /\ Top \in DOMAIN walk'
             /\ walk'[Top].at \notin {"branch", "branch_wait", "enter"}
  <2>1. CASE f # Top
    <3>1. walk[Top].at = "join" /\ Top \notin Branches(f) /\ Top \in DOMAIN walk
      BY <2>1, TopJoins, BranchesOf DEF TopLeads
    <3>2. Top \in DOMAIN walk' /\ walk'[Top] = walk[Top]
      BY <1>1, <2>1, <3>1, OthersKeep
    <3> QED
      BY <3>1, <3>2
  <2>2. CASE f = Top
    <3>0. walk[f] \in WalkRecord /\ walk[f].at \notin {"branch", "branch_wait"}
      BY <2>2, WalkTyped DEF TopLeads
    <3>1. CASE OneWalk(f)
      BY <2>2, <3>0, <3>1, OneWalkMoves
    <3>2. CASE Launch(f)
      BY <2>2, <3>0, <3>2, LaunchMoves DEF WalkRecord
    <3>3. CASE Join(f)
      BY <2>2, <3>0, <3>3, JoinMoves DEF WalkRecord
    <3> QED
      BY <1>1, <3>1, <3>2, <3>3 DEF Moves
  <2> QED
    BY <2>1, <2>2
<1>2. ASSUME NEW t \in Task, Runs(t)
      PROVE  /\ Top \in DOMAIN walk'
             /\ walk'[Top].at \notin {"branch", "branch_wait", "enter"}
  <2>1. walk' = walk /\ exec[t].at # "idle"
    BY <1>2, RunsKeep DEF InFlight
  <2> QED
    BY <2>1 DEF TopLeads
<1>3. /\ Top \in DOMAIN walk'
      /\ walk'[Top].at \notin {"branch", "branch_wait", "enter"}
  BY <1>1, <1>2, NextIs
<1> QED
  BY <1>3 DEF TopLeads, Top

-----------------------------------------------------------------------------
(* No task is out of sight.                                                  *)

\* An execution that is over stays so.
LEMMA DoneStays ==
  ASSUME Inv, Next, NEW t \in Task, exec[t].at = "done"
  PROVE  exec'[t] = exec[t]
<1>0. exec \in [Task -> ExecRecord]
  BY DEF Inv, TypeOK, ExecRecord
<1>1. ASSUME NEW f \in DOMAIN walk, Moves(f) PROVE exec'[t] = exec[t]
  <2>1. exec' = exec \/ /\ status[Walked(f)] = "pending"
                        /\ exec' = [exec EXCEPT ![Walked(f)] = NewExec("running")]
    BY <1>1, MovesClaim
  <2>2. status[t] # "pending"
    BY DEF Inv, DispatchInv
  <2> QED
    BY <1>0, <2>1, <2>2
<1>2. ASSUME NEW u \in Task, Runs(u) PROVE exec'[t] = exec[t]
  <2>1. t # u
    BY <1>2, RunsKeep DEF InFlight
  <2>2. CASE TriggerClaims(u)
    BY <1>0, <2>1, <2>2 DEF TriggerClaims
  <2>3. CASE \A v \in Task : v # u => exec'[v] = exec[v]
    BY <2>1, <2>3
  <2> QED
    BY <1>2, <2>2, <2>3, RunsKeep
<1> QED
  BY <1>1, <1>2, NextIs

LEMMA GivenUpStays ==
  ASSUME Inv, Next, GivenUp
  PROVE  GivenUp'
<1>1. PICK t \in Task : ~(exec[t].tries < MaxTries)
  BY DEF GivenUp
<1>2. exec[t].at = "done"
  BY <1>1 DEF Inv, DispatchInv
<1>3. exec'[t] = exec[t]
  BY <1>2, DoneStays
<1> QED
  BY <1>1, <1>3 DEF GivenUp

\* What is due was so before, or its last dependency has just completed and is followed up.
LEMMA DueBefore ==
  ASSUME Inv, Next, NEW t \in Task, Due(t)'
  PROVE  Due(t) \/ Scans(t)'
<1>0. exec \in [Task -> ExecRecord] /\ status \in [Task -> Status]
      /\ graph.needs[t] \subseteq Task
  BY GraphAssumption DEF Inv, TypeOK, ExecRecord
<1>1. status'[t] = "pending" /\ t \notin unclaimed' /\ Met(t)'
  BY DEF Due
<1>2. ASSUME NEW f \in DOMAIN walk, Moves(f) PROVE Due(t)
  <2>1. /\ graph' = graph /\ status[t] = "pending" /\ t \notin unclaimed
        /\ \A d \in Task : status'[d] = "completed" => status[d] = "completed"
    BY <1>1, <1>2, MovesClaim
  <2> QED
    BY <1>0, <1>1, <2>1 DEF Due, Met
<1>3. ASSUME NEW d \in Task, Runs(d) PROVE Due(t) \/ Scans(t)'
  <2>1. graph' = graph /\ t \notin unclaimed
    BY <1>1, <1>3, RunsKeep
  <2>2. CASE TriggerClaims(d)
    <3>1. PICK v \in Task : status' = [status EXCEPT ![v] = "in_progress"]
      BY <2>2 DEF TriggerClaims
    <3>2. status[t] = "pending"
      BY <1>0, <1>1, <3>1
    <3>3. \A u \in Task : status'[u] = "completed" => status[u] = "completed"
      BY <1>0, <3>1
    <3> QED
      BY <1>0, <1>1, <2>1, <3>2, <3>3 DEF Due, Met
  <2>3. CASE ~TriggerClaims(d)
    <3>1. status[t] = "pending"
      BY <1>1, <1>3, <2>3, RunsKeep
    <3>2. CASE status' = status
      BY <1>1, <2>1, <3>1, <3>2 DEF Due, Met
    <3>3. ASSUME NEW outcome \in {"completed", "failed"}, Finish(d, outcome)
          PROVE  Due(t) \/ Scans(t)'
      <4>1. CASE status[d] = "in_progress" /\ outcome = "completed"
        <5>1. exec'[d].at = "after"
          BY <1>0, <3>3, <4>1 DEF Finish, ExecRecord
        <5> QED
          BY <5>1 DEF Scans, ScansFor
      <4>2. CASE ~(status[d] = "in_progress" /\ outcome = "completed")
        <5>1. \A u \in Task : status'[u] = "completed" => status[u] = "completed"
          BY <1>0, <3>3, <4>2 DEF Finish
        <5> QED
          BY <1>0, <1>1, <2>1, <3>1, <5>1 DEF Due, Met
      <4> QED
        BY <4>1, <4>2
    <3>4. status' = status \/ \E outcome \in {"completed", "failed"} : Finish(d, outcome)
      <4>1. CASE Trigger(d)
        <5>1. exec[d].on \in Task /\ exec[d].at = "call"
          BY <4>1 DEF Trigger, Inv, DispatchInv
        <5>2. ~Claimable(exec[d].on)
          <6>1. ASSUME Claimable(exec[d].on) PROVE FALSE
            <7>1. status[exec[d].on] = "pending" /\ exec[exec[d].on].at = "idle"
              BY <5>1, <6>1 DEF Claimable, Inv, DispatchInv
            <7>2. /\ status' = [status EXCEPT ![exec[d].on] = "in_progress"]
                  /\ exec' = [exec EXCEPT ![d].at = "wait", ![exec[d].on] = NewExec("running")]
              BY <4>1, <6>1 DEF Trigger, Start
            <7>3. exec[d].on # d
              BY <5>1, <7>1
            <7> QED
              BY <2>3, <4>1, <5>1, <7>1, <7>2, <7>3 DEF TriggerClaims
          <6> QED
            BY <6>1
        <5> QED
          BY <4>1, <5>2 DEF Trigger
      <4> QED
        BY <1>3, <4>1 DEF Runs, ReadTree, ScanRaises, TriggerRaises, Triggered, EndScan, ScanOne
    <3> QED
      BY <3>2, <3>3, <3>4
  <2> QED
    BY <2>2, <2>3
<1> QED
  BY <1>2, <1>3, NextIs

\* The walk of the root comes to what it has still to come to, or the task is claimed.
LEMMA VisitsStays ==
  ASSUME Inv, Nested, ProgressRuns, TopLeads, NEW f \in DOMAIN walk, Moves(f),
         NEW t \in Task, Due(t), Due(t)', Visits(t)
  PROVE  Visits(t)'
<1>0. /\ status[t] = "pending" /\ status'[t] = "pending" /\ Met(t)
      /\ t \notin unclaimed' /\ Walked(Top) = Root
      /\ Root \in Task /\ graph \in Graph /\ Top \in DOMAIN walk
      /\ status \in [Task -> Status]
  BY GraphAssumption DEF Due, Inv, TypeOK, TopLeads, Top, Walked
<1>1. Top' = Top
  BY DEF Top
<1>2. CASE f # Top
  <2>1. walk[Top].at = "join" /\ Top \notin Branches(f)
    BY <1>2, TopJoins, BranchesOf
  <2>2. Top \in DOMAIN walk' /\ walk'[Top] = walk[Top]
    BY <1>0, <1>2, <2>1, OthersKeep
  <2>3. CASE t = Root \/ t \in walk[Top].later
    BY <2>1, <2>2, <2>3 DEF Visits, Top
  <2>4. CASE /\ t \in walk[Top].ready
             /\ Append(Top, t) \in DOMAIN walk /\ walk[Append(Top, t)].at = "branch"
    <3> DEFINE g == Append(Top, t)
    <3>1. g # f
      <4>1. ASSUME g = f PROVE FALSE
        <5>1. walk[f].at = "branch"
          BY <2>4, <4>1
        <5>2. Walked(f) = t
          <6>1. Top \in Seq(Task)
            BY <1>0 DEF Top
          <6> QED
            BY <4>1, <6>1, BranchWalks
        <5>3. Dispatch(f) \/ DispatchRaises(f)
          BY <1>0, <5>1 DEF Moves, OneWalk, Enter, NextGroup, CheckSelf, Awaited, CheckRaises,
                       CheckOne, Launch, Join, At, Waiting
        <5>4. CASE Dispatch(f)
          BY <1>0, <5>2, <5>4 DEF Dispatch, Claimable, Start
        <5>5. CASE DispatchRaises(f)
          BY <1>0, <5>2, <5>5 DEF DispatchRaises
        <5> QED
          BY <5>3, <5>4, <5>5
      <4> QED
        BY <4>1
    <3>2. g \in DOMAIN walk' /\ walk'[g] = walk[g]
      BY <1>2, <2>4, <3>1, OthersKeep
    <3> QED
      BY <2>1, <2>2, <2>4, <3>2 DEF Visits, Top
  <2> QED
    BY <2>1, <2>3, <2>4 DEF Visits
<1>3. CASE f = Top
  <2>0. walk[Top] \in WalkRecord
    BY <1>0, WalkTyped
  <2>1. CASE Enter(Top)
    <3>1. walk[Top].at = "enter" /\ \A u \in Task : exec[u].at = "idle"
      BY <2>1 DEF Enter, At, TopLeads
    <3>2. status[Root] # "in_progress"
      BY <1>0, <3>1 DEF ProgressRuns
    <3>3. walk' = [walk EXCEPT ![Top].at = "next", ![Top].later = ToDispatch(Root)]
      BY <1>0, <2>1, <3>2 DEF Enter
    <3>4. walk'[Top].at = "next" /\ walk'[Top].later = ToDispatch(Root)
      BY <1>0, <2>0, <3>3 DEF WalkRecord
    <3>5. t = Root \/ t \in ToDispatch(Root)
      BY <1>0, GraphAssumption DEF ToDispatch, Below, Included
    <3> QED
      BY <3>4, <3>5 DEF Visits, Top
  <2>2. CASE NextGroup(Top)
    <3> DEFINE group == FirstGroup(walk[Top].later)
    <3>1. walk[Top].at = "next"
          /\ walk' = [walk EXCEPT ![Top].at = "check", ![Top].unchecked = group,
                                  ![Top].later = @ \ group, ![Top].ready = {}]
      BY <2>2 DEF NextGroup, At
    <3>2. group \subseteq walk[Top].later
      BY DEF FirstGroup
    <3> HIDE DEF group
    <3>3. /\ walk'[Top].at = "check" /\ walk'[Top].unchecked = group
          /\ walk'[Top].later = walk[Top].later \ group
      BY <1>0, <2>0, <3>1 DEF WalkRecord
    <3>4. t = Root \/ t \in walk[Top].later
      BY <3>1 DEF Visits
    <3> QED
      BY <3>3, <3>4 DEF Visits, Top
  <2>3. ASSUME NEW u \in Task, CheckOne(Top, u) PROVE Visits(t)'
    <3>1. /\ walk[Top].at = "check"
          /\ walk' = [walk EXCEPT ![Top].unchecked = @ \ {u},
                                  ![Top].ready = IF Satisfied(u) THEN @ \cup {u} ELSE @]
      BY <2>3 DEF CheckOne, At
    <3>2. /\ walk'[Top].at = "check" /\ walk'[Top].later = walk[Top].later
          /\ walk'[Top].unchecked = walk[Top].unchecked \ {u}
          /\ walk[Top].ready \subseteq walk'[Top].ready
          /\ Satisfied(u) => u \in walk'[Top].ready
      BY <1>0, <2>0, <3>1 DEF WalkRecord
    <3>3. t = Root \/ t \in walk[Top].later \cup walk[Top].unchecked \cup walk[Top].ready
      BY <3>1 DEF Visits
    <3>4. Satisfied(t)
      BY <1>0 DEF Satisfied, Met
    <3> QED
      BY <3>2, <3>3, <3>4 DEF Visits, Top
  <2>4. CASE Launch(Top)
    <3>1. /\ walk[Top].at = "check" /\ walk[Top].unchecked = {}
          /\ DOMAIN walk' = DOMAIN walk \cup Branches(Top)
          /\ \A g \in Branches(Top) : walk'[g] = NewWalk("branch")
          /\ walk'[Top] = [walk[Top] EXCEPT !.at = "join"]
      BY <1>0, <2>4, LaunchMoves
    <3>2. /\ walk'[Top].at = "join" /\ walk'[Top].later = walk[Top].later
          /\ walk'[Top].ready = walk[Top].ready
      BY <2>0, <3>1 DEF WalkRecord
    <3>3. t = Root \/ t \in walk[Top].later \/ t \in walk[Top].ready
      BY <3>1 DEF Visits
    <3>4. t \in walk[Top].ready => /\ Append(Top, t) \in DOMAIN walk'
                                   /\ walk'[Append(Top, t)].at = "branch"
      <4>1. t \in walk[Top].ready => Append(Top, t) \in Branches(Top)
        BY DEF Branches
      <4>2. NewWalk("branch").at = "branch"
        BY DEF NewWalk
      <4> QED
        BY <3>1, <4>1, <4>2
    <3> QED
      BY <3>2, <3>3, <3>4 DEF Visits, Top
  <2>5. CASE Join(Top)
    <3>1. /\ walk[Top].at = "join"
          /\ \A g \in Branches(Top) : walk[g].at \in {"returned", "raised"}
          /\ \/ walk'[Top] = [walk[Top] EXCEPT !.at = "raised"]
             \/ walk'[Top] = [walk[Top] EXCEPT !.at = "next"]
      BY <1>0, <2>5, JoinMoves
    <3>2. t = Root \/ t \in walk[Top].later
      BY <3>1 DEF Visits, Branches
    <3>3. walk'[Top].at = "raised" \/ /\ walk'[Top].at = "next"
                                      /\ walk'[Top].later = walk[Top].later
      BY <2>0, <3>1 DEF WalkRecord
    <3> QED
      BY <3>2, <3>3 DEF Visits, Top
  <2>6. CASE CheckSelf(Top)
    <3>1. walk[Top].at = "next" /\ walk[Top].later = {}
      BY <2>6 DEF CheckSelf, At
    <3>2. t = Root
      BY <3>1 DEF Visits
    <3>3. Satisfied(Root) /\ status[Root] # "completed"
      BY <1>0, <3>2 DEF Satisfied, Met
    <3>4. walk' = [walk EXCEPT ![Top].at = "self"]
      BY <1>0, <2>6, <3>3 DEF CheckSelf, Go
    <3>5. walk'[Top].at = "self"
      BY <1>0, <2>0, <3>4 DEF WalkRecord
    <3> QED
      BY <3>2, <3>5 DEF Visits, Top
  <2>7. CASE CheckRaises(Top)
    <3>1. walk'[Top] = [walk[Top] EXCEPT !.at = "raised"]
      BY <1>0, <2>7 DEF CheckRaises, Raise
    <3>2. walk'[Top].at = "raised"
      BY <2>0, <3>1 DEF WalkRecord
    <3> QED
      BY <3>2 DEF Visits, Top
  <2>8. CASE Dispatch(Top) \/ DispatchRaises(Top)
    <3>1. walk[Top].at = "self"
      BY <2>8 DEF Dispatch, DispatchRaises, Calling, TopLeads
    <3>2. t = Root
      BY <3>1 DEF Visits
    <3>3. CASE Dispatch(Top)
      BY <1>0, <3>2, <3>3 DEF Dispatch, Claimable, Start
    <3>4. CASE DispatchRaises(Top)
      BY <1>0, <3>2, <3>4 DEF DispatchRaises
    <3> QED
      BY <2>8, <3>3, <3>4
  <2>9. CASE Awaited(Top)
    <3>1. walk[Top].at \in Waiting
      BY <2>9 DEF Awaited
    <3> QED
      BY <3>1 DEF Visits, Waiting
  <2> QED
    BY <1>3, <2>1, <2>2, <2>3, <2>4, <2>5, <2>6, <2>7, <2>8, <2>9 DEF Moves, OneWalk
<1> QED
  BY <1>2, <1>3

\* A scan comes to what it has still to come to, or is given up.
LEMMA ScansStays ==
  ASSUME Inv, NEW d \in Task, Runs(d), NEW t \in Task, Due(t), Due(t)',
         ScansFor(exec[d], t)
  PROVE  ScansFor(exec'[d], t) \/ GivenUp'
<1>0. /\ status[t] = "pending" /\ status'[t] = "pending" /\ Met(t) /\ t \notin unclaimed'
      /\ exec[d] \in ExecRecord /\ exec \in [Task -> ExecRecord]
      /\ status \in [Task -> Status]
  BY DEF Due, Inv, TypeOK, ExecRecord
<1>1. t # d
  BY <1>0, RunsKeep DEF InFlight, Inv, DispatchInv
<1>2. CASE ReadTree(d)
  <2>1. exec' = [exec EXCEPT ![d].at = "look", ![d].scan = ToScan(d)]
    BY <1>2 DEF ReadTree
  <2>2. exec'[d].at = "look" /\ exec'[d].scan = ToScan(d)
    BY <1>0, <2>1 DEF ExecRecord
  <2>3. t \in ToScan(d)
    BY <1>0, <1>1 DEF ToScan
  <2> QED
    BY <2>2, <2>3 DEF ScansFor
<1>3. CASE ScanRaises(d)
  <2>1. exec' = [exec EXCEPT ![d].tries = @ + 1, ![d].scan = {},
                             ![d].at = IF exec[d].tries + 1 < MaxTries THEN "after" ELSE "done"]
    BY <1>3 DEF ScanRaises
  <2>2. /\ exec'[d].tries = exec[d].tries + 1
        /\ exec'[d].at = IF exec[d].tries + 1 < MaxTries THEN "after" ELSE "done"
    BY <1>0, <2>1 DEF ExecRecord
  <2> QED
    BY <2>2 DEF ScansFor, GivenUp
<1>4. CASE Trigger(d)
  <2>1. exec[d].at = "call"
    BY <1>4 DEF Trigger
  <2>2. exec[d].on # t
    <3>1. ASSUME exec[d].on = t PROVE FALSE
      <4>1. Start(t)
        BY <1>0, <1>4, <3>1 DEF Trigger, Claimable
      <4> QED
        BY <1>0, <4>1 DEF Start
    <3> QED
      BY <3>1
  <2>3. t \in exec[d].scan
    BY <2>1, <2>2 DEF ScansFor
  <2>4. exec'[d].at \in {"look", "wait"} /\ exec'[d].scan = exec[d].scan
    <3>1. CASE Claimable(exec[d].on)
      <4>1. PICK u \in Task : u = exec[d].on /\ status[u] = "pending" /\ exec[u].at = "idle"
        BY <2>1, <3>1 DEF Claimable, Inv, DispatchInv
      <4>2. exec' = [exec EXCEPT ![d].at = "wait", ![u] = NewExec("running")]
        BY <1>4, <3>1, <4>1 DEF Trigger
      <4>3. exec'[d] = [exec[d] EXCEPT !.at = "wait"]
        BY <1>0, <2>1, <4>1, <4>2
      <4> QED
        BY <1>0, <4>3 DEF ExecRecord
    <3>2. CASE ~Claimable(exec[d].on)
      <4>1. exec' = [exec EXCEPT ![d].at = "look"]
        BY <1>4, <3>2 DEF Trigger
      <4> QED
        BY <1>0, <4>1 DEF ExecRecord
    <3> QED
      BY <3>1, <3>2
  <2> QED
    BY <2>3, <2>4 DEF ScansFor
<1>5. CASE TriggerRaises(d)
  <2>1. /\ exec[d].at = "call" /\ exec[d].on # t
        /\ exec' = [exec EXCEPT ![d].at = "look"]
    BY <1>0, <1>5 DEF TriggerRaises
  <2>2. exec'[d].at = "look" /\ exec'[d].scan = exec[d].scan
    BY <1>0, <2>1 DEF ExecRecord
  <2> QED
    BY <2>1, <2>2 DEF ScansFor
<1>6. CASE Triggered(d)
  <2>1. exec[d].at = "wait" /\ exec' = [exec EXCEPT ![d].at = "look"]
    BY <1>6 DEF Triggered
  <2>2. exec'[d].at = "look" /\ exec'[d].scan = exec[d].scan
    BY <1>0, <2>1 DEF ExecRecord
  <2> QED
    BY <2>1, <2>2 DEF ScansFor
<1>7. CASE EndScan(d)
  BY <1>7 DEF EndScan, ScansFor
<1>8. CASE \E outcome \in {"completed", "failed"} : Finish(d, outcome)
  BY <1>8 DEF Finish, ScansFor
<1>9. ASSUME NEW u \in Task, ScanOne(d, u) PROVE ScansFor(exec'[d], t)
  <2>1. /\ exec[d].at = "look"
        /\ exec' = [exec EXCEPT ![d].scan = @ \ {u},
                                ![d].at = IF Satisfied(u) THEN "call" ELSE "look",
                                ![d].on = IF Satisfied(u) THEN u ELSE @]
    BY <1>9 DEF ScanOne
  <2>2. /\ exec'[d].scan = exec[d].scan \ {u}
        /\ exec'[d].at = IF Satisfied(u) THEN "call" ELSE "look"
        /\ exec'[d].on = IF Satisfied(u) THEN u ELSE exec[d].on
    BY <1>0, <2>1 DEF ExecRecord
  <2>3. t \in exec[d].scan
    BY <2>1 DEF ScansFor
  <2>4. Satisfied(t)
    BY <1>0 DEF Satisfied, Met
  <2> QED
    BY <2>2, <2>3, <2>4 DEF ScansFor
<1> QED
  BY <1>2, <1>3, <1>4, <1>5, <1>6, <1>7, <1>8, <1>9 DEF Runs

LEMMA NoneMissedStep ==
  ASSUME WalkInv, Next
  PROVE  NoneMissed'
<1>0. Inv /\ Nested /\ Rooted /\ ProgressRuns /\ TopLeads /\ NoneMissed
      /\ exec \in [Task -> ExecRecord]
  BY DEF WalkInv, Inv, TypeOK, ExecRecord
<1> SUFFICES ASSUME ~GivenUp', NEW t \in Task, Due(t)'
             PROVE  Visits(t)' \/ Scans(t)'
  BY DEF NoneMissed
<1>1. ~GivenUp
  BY <1>0, GivenUpStays
<1>2. CASE ~Due(t)
  BY <1>0, <1>2, DueBefore
<1>3. CASE Due(t) /\ Visits(t)
  <2>1. ASSUME NEW f \in DOMAIN walk, Moves(f) PROVE Visits(t)'
    BY <1>0, <1>3, <2>1, VisitsStays
  <2>2. ASSUME NEW d \in Task, Runs(d) PROVE Visits(t)'
    <3>1. walk' = walk
      BY <1>0, <2>2, RunsKeep
    <3> QED
      BY <1>3, <3>1 DEF Visits, Top
  <2> QED
    BY <2>1, <2>2, NextIs
<1>4. CASE Due(t) /\ Scans(t)
  <2>1. PICK d \in Task : ScansFor(exec[d], t)
    BY <1>4 DEF Scans
  <2>2. exec[d].at # "idle" /\ status[d] # "pending"
    BY <1>0, <2>1 DEF ScansFor, Inv, DispatchInv
  <2>3. ASSUME NEW f \in DOMAIN walk, Moves(f) PROVE exec'[d] = exec[d]
    <3>1. exec' = exec \/ /\ status[Walked(f)] = "pending"
                          /\ exec' = [exec EXCEPT ![Walked(f)] = NewExec("running")]
      BY <1>0, <2>3, MovesClaim
    <3> QED
      BY <1>0, <2>2, <3>1
  <2>4. ASSUME NEW e \in Task, Runs(e), e # d PROVE exec'[d] = exec[d]
    <3>1. CASE TriggerClaims(e)
      BY <1>0, <2>2, <2>4, <3>1 DEF TriggerClaims
    <3>2. CASE \A v \in Task : v # e => exec'[v] = exec[v]
      BY <2>4, <3>2
    <3> QED
      BY <1>0, <2>4, <3>1, <3>2, RunsKeep
  <2>5. CASE Runs(d)
    <3>1. ScansFor(exec'[d], t)
      BY <1>0, <1>4, <2>1, <2>5, ScansStays
    <3> QED
      BY <3>1 DEF Scans
  <2>6. CASE exec'[d] = exec[d]
    BY <2>1, <2>6 DEF Scans
  <2> QED
    BY <2>3, <2>4, <2>5, <2>6, NextIs
<1> QED
  BY <1>0, <1>1, <1>2, <1>3, <1>4 DEF NoneMissed

LEMMA WalkNext == WalkInv /\ [Next]_vars => WalkInv'
<1> SUFFICES ASSUME WalkInv, [Next]_vars PROVE WalkInv'
  OBVIOUS
<1>0. Inv /\ Nested /\ Rooted /\ ProgressRuns /\ TopLeads /\ NoneMissed /\ Inv'
  BY NextInv DEF WalkInv
<1>1. CASE Next
  <2>1. Nested' /\ Rooted'
    <3>1. ASSUME NEW f \in DOMAIN walk, Moves(f) PROVE Nested' /\ Rooted'
      BY <1>0, <3>1, NestedMoves, RootedMoves
    <3>2. ASSUME NEW t \in Task, Runs(t) PROVE Nested' /\ Rooted'
      <4>1. walk' = walk
        BY <1>0, <3>2, RunsKeep
      <4>2. Nested'
        BY <1>0, <4>1 DEF Nested, Branches, Top
      <4> QED
        BY <1>0, <3>2, <4>2, RootedRuns
    <3> QED
      BY <1>1, <3>1, <3>2, NextIs
  <2>2. ProgressRuns' /\ TopLeads'
    BY <1>0, <1>1, ProgressStep, TopStep
  <2>3. NoneMissed'
    BY <1>1, NoneMissedStep
  <2> QED
    BY <1>0, <2>1, <2>2, <2>3 DEF WalkInv
<1>2. CASE UNCHANGED vars
  <2>1. UNCHANGED <<graph, status, attempt, exec, walk, faults, unclaimed>>
    BY <1>2 DEF vars
  <2>2. Nested'
    BY <1>0, <2>1 DEF Nested, Branches, Top
  <2>3. Rooted'
    BY <1>0, <2>1 DEF Rooted, AwaitedBeyond, InFlight, Holds, Awaits, Walked
  <2>4. ProgressRuns' /\ TopLeads'
    BY <1>0, <2>1 DEF ProgressRuns, TopLeads, Top
  <2>5. NoneMissed'
    BY <1>0, <2>1 DEF NoneMissed, GivenUp, Due, Met, Visits, Scans, Top
  <2> QED
    BY <1>0, <2>2, <2>3, <2>4, <2>5 DEF WalkInv
<1> QED
  BY <1>1, <1>2

LEMMA WalkInit == Init => WalkInv
<1> SUFFICES ASSUME Init PROVE WalkInv
  OBVIOUS
<1>1. Inv
  BY InitInv
<1>2. /\ DOMAIN walk = {Top} /\ walk[Top].at = "enter"
      /\ \A t \in Task : exec[t].at = "idle" /\ status[t] # "in_progress"
  BY DEF Init, NewWalk, NewExec
<1>3. Nested
  BY <1>2 DEF Nested
<1>4. InFlight = {}
  BY <1>2 DEF InFlight
<1>5. Rooted
  BY <1>4 DEF Rooted
<1>6. ProgressRuns /\ TopLeads
  BY <1>2 DEF ProgressRuns, TopLeads
<1>7. NoneMissed
  BY <1>2 DEF NoneMissed, Visits
<1> QED
  BY <1>1, <1>3, <1>5, <1>6, <1>7 DEF WalkInv

\* The walk of the root has returned or raised: it is the only one, it awaits nobody,
\* so nothing is in flight that somebody would have to await.
LEMMA EndedAlone ==
  ASSUME WalkInv, Ended
  PROVE  InFlight = {} /\ NothingRuns
<1>1. DOMAIN walk = {Top}
  <2>1. \A f \in DOMAIN walk : f = Top
    BY TopJoins DEF WalkInv, Ended
  <2> QED
    BY <2>1 DEF Ended
<1>2. \A f \in DOMAIN walk, t \in Task : ~Holds(f, t)
  BY <1>1 DEF Ended, Holds, Waiting
<1>3. InFlight = {}
  <2>1. ASSUME InFlight # {} PROVE FALSE
    <3>1. PICK t \in InFlight : AwaitedBeyond(InFlight, t)
      BY <2>1 DEF WalkInv, Rooted
    <3>2. t \in Task
      BY DEF InFlight
    <3> QED
      BY <1>2, <3>1, <3>2 DEF AwaitedBeyond
  <2> QED
    BY <2>1
<1>4. NothingRuns
  BY <1>3 DEF NothingRuns, InFlight, WalkInv, ProgressRuns
<1> QED
  BY <1>3, <1>4

\* _execute_priority_group, execute_after_task: in any tree, with any dependencies and any
\* failures, a walk that is over leaves no coroutine behind, and one that returns leaves no
\* task pending whose dependencies are completed, unless its claim or a whole scan failed.
THEOREM NothingLeftBehind == Spec => []WalkLeavesNothing
<1>1. ASSUME WalkInv PROVE WalkLeavesNothing
  <2>1. NothingRuns
    BY <1>1, EndedAlone DEF NothingRuns
  <2>2. NothingIsLeft
    <3> SUFFICES ASSUME At(Top, "returned"), \A t \in Task : exec[t].tries < MaxTries,
                        NEW t \in Task \ unclaimed, status[t] = "pending", Met(t)
                 PROVE  FALSE
      BY DEF NothingIsLeft, Met
    <3>1. InFlight = {}
      BY <1>1, EndedAlone DEF Ended, At
    <3>2. Visits(t) \/ Scans(t)
      BY <1>1 DEF WalkInv, NoneMissed, GivenUp, Due
    <3>3. ~Visits(t)
      BY DEF Visits, At
    <3>4. ~Scans(t)
      BY <3>1 DEF Scans, ScansFor, InFlight
    <3> QED
      BY <3>2, <3>3, <3>4
  <2> QED
    BY <2>1, <2>2 DEF WalkLeavesNothing
<1> QED
  BY <1>1, WalkInit, WalkNext, PTL DEF Spec
=============================================================================
