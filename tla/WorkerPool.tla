----------------------------- MODULE WorkerPool -----------------------------
(***************************************************************************)
(* The nodes of a cluster as they come and go: which of them leads, which  *)
(* roots the pools of the others take, and what the node registry says.    *)
(*                                                                         *)
(* A worker polls for roots, keeps an entry for each it takes in           *)
(* _running_tasks, leases it, runs it and reports it.  The entries are the *)
(* worker's only count of free slots and its only memory of what it must   *)
(* not take twice.  A node becomes a worker by falling back or by losing   *)
(* leadership, so the steps of LeaderElection are composed with the pool's.*)
(*                                                                         *)
(* What happens to the nodes of a tree between claim and result is         *)
(* RootExecution's subject: here a tree is begun and ends; cancellation is *)
(* left to it, like a root whose submission names a dispatcher.  Times are *)
(* replaced by whether a lease is live.  How the registry judges heartbeats  *)
(* is left out: no step of a worker reads it.                              *)
(***************************************************************************)
EXTENDS LeaderElection, FiniteSets

CONSTANTS
  Root,          \* roots that were inserted and wait
  MaxParallel,   \* config.max_parallel_tasks_per_node
  MaxToken,      \* bound: leases ever drawn on roots
  Profile,       \* node |-> what it advertises: set of executors and capabilities
  Constraint,    \* root |-> placement_constraints: requires, allowed, forbidden
  Faulty         \* nodes whose statements on leases may raise

ASSUME PoolAssumption ==
  /\ IsFiniteSet(Root) /\ Root # {}
  /\ MaxParallel \in Nat \ {0}
  /\ MaxToken \in Nat
  /\ DOMAIN Profile = Node
  /\ DOMAIN Constraint = Root
  /\ Faulty \subseteq Node

VARIABLES
  root,      \* rows: status and whether the tree was begun
  lease,     \* TaskLease of each root
  cached,    \* ExecutionIdempotency of each root's key
  entry,     \* _running_tasks and _active_leases of each node
  closing,   \* nodes whose worker was told to shut down
  registered,\* nodes with a DistributedNode row
  issued     \* leases drawn on roots so far

poolVars == <<root, lease, cached, entry, closing, registered, issued>>
vars == <<electionVars, poolVars>>

Terminal == {"completed", "failed", "uncertain"}
NoEntry == [at |-> "none", token |-> 0]
Leaked == [at |-> "leaked", token |-> 0]
Unheld == [token |-> 0, live |-> FALSE]

TypeOK ==
  /\ ElectionTypeOK
  /\ root \in [Root -> [status: Terminal \cup {"pending"}, begun: BOOLEAN]]
  /\ lease \in [Root -> [token: 0 .. MaxToken, live: BOOLEAN]]
  /\ cached \in [Root -> {"none", "failed", "completed"}]
  /\ entry \in [Node -> [Root -> [at: {"none", "queued", "held", "running", "leaked"},
                                  token: 0 .. MaxToken]]]
  /\ closing \subseteq Node
  /\ registered \subseteq Node
  /\ issued \in 0 .. MaxToken

Init ==
  /\ ElectionInit
  /\ root = [r \in Root |-> [status |-> "pending", begun |-> FALSE]]
  /\ lease = [r \in Root |-> Unheld]
  /\ cached = [r \in Root |-> "none"]
  /\ entry = [n \in Node |-> [r \in Root |-> NoEntry]]
  /\ closing = {}
  /\ registered = {}
  /\ issued = 0

-----------------------------------------------------------------------------
(* The steps of one node.                                                   *)

Working(n) == role[n] = "worker" /\ n \notin closing

SetEntry(n, r, e) == entry' = [entry EXCEPT ![n][r] = e]

\* The worker is the durable owner of the root.
Holds(n, r) ==
  /\ entry[n][r].at \in {"held", "running"}
  /\ lease[r] = [token |-> entry[n][r].token, live |-> TRUE]

\* PlacementEngine on the one candidate a worker knows, itself: not forbidden, in the
\* list if there is one, with every executor and capability that is required.
EligibleHere(n, r) ==
  LET c == Constraint[r] IN
  /\ n \notin c.forbidden
  /\ c.listed => n \in c.allowed
  /\ c.requires \subseteq Profile[n]

Entries(n) == {r \in Root : entry[n][r] # NoEntry}

\* Faulty variant: only entries that have their lease count.
AvailableByLeases(n) ==
  MaxParallel - Cardinality({r \in Root : entry[n][r].at \in {"held", "running"}})

Available(n) == MaxParallel - Cardinality(Entries(n))

\* _find_executable_tasks: pending roots without a run that moved on, which the node
\* may take and has not taken.  A lease on the root is no condition.
Executable(n) ==
  {r \in Root : /\ root[r] = [status |-> "pending", begun |-> FALSE]
                /\ entry[n][r] = NoEntry
                /\ EligibleHere(n, r)}

\* One turn of _poll_loop: as many as there are free slots, in no order.
Poll(n) ==
  /\ Working(n) /\ Available(n) > 0
  /\ \E batch \in SUBSET Executable(n) :
       /\ batch # {}
       /\ Cardinality(batch) <= Available(n)
       /\ batch = Executable(n) \/ Cardinality(batch) = Available(n)
       /\ entry' = [entry EXCEPT ![n] =
                      [r \in Root |-> IF r \in batch THEN [at |-> "queued", token |-> 0]
                                                     ELSE @[r]]]
  /\ UNCHANGED <<electionVars, root, lease, cached, closing, registered, issued>>

\* What recovery makes of a root: one that was begun is never handed on.
Recovered(r) ==
  IF root[r].status \notin Terminal /\ root[r].begun
  THEN [root EXCEPT ![r].status = "uncertain"] ELSE root

\* acquire_lease answers None: the root was begun or is over, or another worker holds it.
Refused(r) == root[r].status # "pending" \/ root[r].begun \/ lease[r].live

\* Faulty variant: the entry is not popped.
LosesAndKeepsEntry(n, r) ==
  /\ entry[n][r].at = "queued" /\ Refused(r)
  /\ SetEntry(n, r, Leaked)
  /\ UNCHANGED <<electionVars, root, lease, cached, closing, registered, issued>>

\* _execute_task after a lost race.
Loses(n, r) ==
  /\ entry[n][r].at = "queued" /\ Refused(r)
  /\ SetEntry(n, r, NoEntry)
  /\ UNCHANGED <<electionVars, root, lease, cached, closing, registered, issued>>

\* acquire_lease grants a fresh token, over an expired lease of an untouched tree too.
Leases(n, r) ==
  /\ entry[n][r].at = "queued" /\ ~Refused(r)
  /\ issued < MaxToken
  /\ issued' = issued + 1
  /\ lease' = [lease EXCEPT ![r] = [token |-> issued + 1, live |-> TRUE]]
  /\ SetEntry(n, r, [at |-> "held", token |-> issued + 1])
  /\ UNCHANGED <<electionVars, root, cached, closing, registered>>

\* acquire_lease raises before the try block: nothing pops the entry.
AcquireRaises(n, r) ==
  /\ n \in Faulty /\ entry[n][r].at = "queued"
  /\ SetEntry(n, r, Leaked)
  /\ UNCHANGED <<electionVars, root, lease, cached, closing, registered, issued>>

\* The executor claims the tree, fenced by the lease.
Begin(n, r) ==
  /\ entry[n][r].at = "held" /\ Holds(n, r)
  /\ root[r].status = "pending"
  /\ root' = [root EXCEPT ![r].begun = TRUE]
  /\ SetEntry(n, r, [entry[n][r] EXCEPT !.at = "running"])
  /\ UNCHANGED <<electionVars, lease, cached, closing, registered, issued>>

\* The executor ends the tree, fenced by the lease.
Conclude(n, r) ==
  /\ entry[n][r].at = "running" /\ Holds(n, r)
  /\ root[r].status = "pending"
  /\ \E outcome \in {"completed", "failed"} :
       root' = [root EXCEPT ![r].status = outcome]
  /\ UNCHANGED <<electionVars, lease, cached, entry, closing, registered, issued>>

\* What the worker takes for the outcome: a tree that ended, an executor that raised
\* or refused to begin, or an answer that is no end, for which the lease is recovered.
Outcome(r) == IF root[r].status \in Terminal THEN {root[r].status}
                                             ELSE {"failed", "nonterminal"}

\* store_result on a key that may be there: a success replaces a failure.
Stored(old, new) == IF old = "completed" THEN old ELSE new

\* Faulty variant: the row's answer does not gate the cache.
FinalizedAlways(n, r, outcome) == TRUE

\* The answers _execute_and_report stores: not one that is no end.
Caches(outcome) == outcome \in {"completed", "failed"}

\* _finalize_task says that the root has this outcome by this worker's report.
Finalized(n, r, outcome) ==
  Holds(n, r) /\ (root[r].status \in Terminal => root[r].status = outcome)

\* _execute_and_report, _finalize_task and what follows: the cache is written in a
\* later transaction, which may not come.  The entry is popped whatever these did, but
\* not if a renewal had raised: the end of the coroutine awaits it first.
Report(n, r) ==
  /\ entry[n][r].at \in {"held", "running"}
  /\ \E outcome \in Outcome(r) :
       /\ root' = IF outcome = "nonterminal"
                  THEN IF lease[r].token = entry[n][r].token THEN Recovered(r) ELSE root
                  ELSE IF Holds(n, r) /\ root[r].status \notin Terminal
                       THEN [root EXCEPT ![r].status = outcome] ELSE root
       /\ lease' = IF Holds(n, r) \/ (outcome = "nonterminal" /\ lease[r].token = entry[n][r].token)
                   THEN [lease EXCEPT ![r] = Unheld] ELSE lease
       /\ \/ /\ Caches(outcome) /\ Finalized(n, r, outcome)
             /\ cached' = [cached EXCEPT ![r] = Stored(@, outcome)]
          \/ UNCHANGED cached
  /\ \/ SetEntry(n, r, NoEntry)
     \/ n \in Faulty /\ SetEntry(n, r, Leaked)
  /\ UNCHANGED <<electionVars, closing, registered, issued>>

\* Faulty variant: a cancelled coroutine gives nothing back.
InterruptsOnly(n, r) ==
  /\ entry[n][r].at \in {"held", "running"}
  /\ n \in closing \/ ~Holds(n, r)
  /\ SetEntry(n, r, NoEntry)
  /\ UNCHANGED <<electionVars, root, lease, cached, closing, registered, issued>>

\* The coroutine is cancelled, by a shutdown or by a renewal that found no live row of
\* its own: recover_lease by token, whether it expired or not.
Interrupts(n, r) ==
  /\ entry[n][r].at \in {"held", "running"}
  /\ n \in closing \/ ~Holds(n, r)
  /\ IF lease[r].token = entry[n][r].token
     THEN root' = Recovered(r) /\ lease' = [lease EXCEPT ![r] = Unheld]
     ELSE UNCHANGED <<root, lease>>
  /\ SetEntry(n, r, NoEntry)
  /\ UNCHANGED <<electionVars, cached, closing, registered, issued>>

\* recover_lease raises in the cancelled coroutine: the entry is popped all the same,
\* and the lease is left to run out.
InterruptRaises(n, r) ==
  /\ n \in Faulty
  /\ entry[n][r].at \in {"held", "running"}
  /\ n \in closing \/ ~Holds(n, r)
  /\ SetEntry(n, r, NoEntry)
  /\ UNCHANGED <<electionVars, root, lease, cached, closing, registered, issued>>

Work(n, r) ==
  \/ Loses(n, r) \/ Leases(n, r)
  \/ Begin(n, r) \/ Conclude(n, r) \/ Report(n, r) \/ Interrupts(n, r)

-----------------------------------------------------------------------------
(* The nodes.                                                               *)

Idle == [r \in Root |-> NoEntry]

\* register_node is an upsert.
Register(n) == registered' = registered \cup {n}

\* deregister_node raises if there is no row.
Deregister(n) == n \in registered /\ registered' = registered \ {n}

\* DistributedRuntime.start registers the node and selects its role.
StartNode(n) ==
  /\ Acquire(n) \/ FallBack(n)
  /\ Register(n)
  /\ UNCHANGED <<root, lease, cached, entry, closing, issued>>

\* The leader's renewal loop and the begin of its shutdown touch no pool.
LeaderStep(n) ==
  /\ RenewFails(n) \/ RenewRaises(n) \/ BeginShutdown(n)
  /\ UNCHANGED poolVars

\* Faulty variant: the leader's row is given up first, and the worker relies on it.
BecomeWorkerUnregistered(n) ==
  /\ Demote(n)
  /\ Deregister(n)
  /\ UNCHANGED <<root, lease, cached, entry, closing, issued>>

\* A demoted leader starts a worker, which registers the node again.
BecomeWorker(n) ==
  /\ Demote(n)
  /\ Register(n)
  /\ UNCHANGED <<root, lease, cached, entry, closing, issued>>

\* The shutdown of a leader that has stopped its scheduler ends: the node has no worker
\* and deregisters itself.
LeaderGone(n) ==
  /\ Release(n)
  /\ Deregister(n)
  /\ UNCHANGED <<root, lease, cached, entry, closing, issued>>

\* WorkerRuntime.shutdown: no more polls, every coroutine is cancelled, those that wait
\* for their turn before they begin.
BeginClose(n) ==
  /\ Working(n)
  /\ closing' = closing \cup {n}
  /\ entry' = [entry EXCEPT ![n] =
                 [r \in Root |-> IF @[r].at = "queued" THEN NoEntry ELSE @[r]]]
  /\ UNCHANGED <<electionVars, root, lease, cached, registered, issued>>

\* ... and when all have ended, the worker deregisters the node, and the runtime does
\* not do so again.
Close(n) ==
  /\ n \in closing
  /\ \A r \in Root : entry[n][r].at \in {"none", "leaked"}
  /\ Leave(n)
  /\ closing' = closing \ {n}
  /\ entry' = [entry EXCEPT ![n] = Idle]
  /\ Deregister(n)
  /\ UNCHANGED <<root, lease, cached, issued>>

\* The process dies: the rows stay.
Die(n) ==
  /\ Leave(n)
  /\ closing' = closing \ {n}
  /\ entry' = [entry EXCEPT ![n] = Idle]
  /\ UNCHANGED <<root, lease, cached, registered, issued>>

\* cleanup_expired_leases, by a node that takes itself for the leader.
CleanUp(r) ==
  /\ \E l \in Node : role[l] = "leader"
  /\ lease[r] # Unheld /\ ~lease[r].live
  /\ root' = Recovered(r)
  /\ lease' = [lease EXCEPT ![r] = Unheld]
  /\ UNCHANGED <<electionVars, cached, entry, closing, registered, issued>>

\* A lease runs out: its holder is dead, or late, or its renewals do not return.
ExpireRootLease(r) ==
  /\ lease[r].live
  /\ lease' = [lease EXCEPT ![r].live = FALSE]
  /\ UNCHANGED <<electionVars, root, cached, entry, closing, registered, issued>>

ExpireLeadership == Expire /\ UNCHANGED poolVars

NodeStep(n) ==
  \/ StartNode(n) \/ LeaderStep(n) \/ BecomeWorker(n) \/ LeaderGone(n)
  \/ BeginClose(n) \/ Close(n) \/ Die(n)

Next ==
  \/ \E n \in Node : NodeStep(n) \/ Poll(n)
  \/ \E n \in Node, r \in Root : Work(n, r) \/ AcquireRaises(n, r) \/ InterruptRaises(n, r)
  \/ \E r \in Root : CleanUp(r) \/ ExpireRootLease(r)
  \/ ExpireLeadership

Spec == Init /\ [][Next]_vars

\* A coroutine of a running node goes on, a worker polls, a leader
\* that lost its row learns it, and a lease nobody renews runs out.  Nobody has to
\* start, lead, die or be shut down.
Untended(r) == \A n \in Node : ~(Holds(n, r) /\ n \notin closing)
Fairness ==
  /\ \A n \in Node :
       /\ WF_vars(Poll(n)) /\ WF_vars(Close(n))
       /\ WF_vars(RenewFails(n) /\ UNCHANGED poolVars)
       /\ \A r \in Root : WF_vars(Work(n, r))
  /\ \A r \in Root : WF_vars(Untended(r) /\ ExpireRootLease(r))
FairSpec == Spec /\ Fairness

-----------------------------------------------------------------------------
(* Properties.                                                              *)

\* A worker never has more roots in flight than slots, whichever of them wait for their
\* lease: polls come faster than leases.
PoolIsBounded == \A n \in Node : Cardinality(Entries(n)) <= MaxParallel

\* A live lease is not dropped with the entry of its worker's pool: when the entry goes,
\* the lease goes with it, so that the next worker need not wait for it to run out.  Not if
\* the node dies, or the statement that gives it back raises.
GivenBack(n, r) ==
  Holds(n, r) /\ entry'[n][r].token # lease[r].token
    => lease'[r].token # lease[r].token \/ role'[n] = "down" \/ n \in Faulty
LeasesAreReturned == [][\A n \in Node, r \in Root : GivenBack(n, r)]_vars

\* What the cache answers for a root is how the root ended, however late the worker was
\* that wrote it, and whoever had the root after it.
CacheAgrees ==
  \A r \in Root : cached[r] # "none" => root[r].status = cached[r]

\* A node that is up is in the registry, in whichever order it led, was demoted and
\* worked, and one that was shut down is not: it is deregistered exactly once.
UpIsRegistered == \A n \in Node : role[n] # "down" => n \in registered

\* No root has two durable owners, however late a worker learns that its lease is gone.
OneHolder == \A m, n \in Node, r \in Root : Holds(m, r) /\ Holds(n, r) => m = n

\* Why: every lease on a root was drawn afresh, and names one entry.
InHand(n, r) == entry[n][r].at \in {"held", "running"}
TokensAreOwn ==
  /\ \A n \in Node, r \in Root : InHand(n, r) => entry[n][r].token \in 1 .. issued
  /\ \A m, n \in Node, q, r \in Root :
       InHand(m, q) /\ InHand(n, r) /\ entry[m][q].token = entry[n][r].token => m = n /\ q = r

\* What holds of a node and its pool in every state: types, leases of its own, slots
\* and its row in the registry (worker.py, _poll_loop; runtime.py, start, _demote).
PoolInv ==
  /\ TypeOK /\ LeadershipInv /\ TokensAreOwn
  /\ OneHolder /\ PoolIsBounded /\ UpIsRegistered

\* Leadership is passed on in order: nobody takes it from a live holder, and whoever
\* lost it stops dispatching schedules (leader_election.py; runtime.py, _demote).
LeadershipPasses == LiveLeadershipIsKept /\ StaleLeaderStops

Waits(r) == root[r] = [status |-> "pending", begun |-> FALSE] /\ ~lease[r].live

\* A root that waits is taken, unless each worker that may take it goes: other roots,
\* lost races and lapsed leases hold it up for a while only.  Of the workers whose
\* statements do not raise; leases left to draw are the model's bound.
RootsAreTaken ==
  \A n \in Node \ Faulty, r \in Root :
    Waits(r) /\ Working(n) /\ EligibleHere(n, r) ~>
      ~Waits(r) \/ issued = MaxToken \/ ~Working(n)

-----------------------------------------------------------------------------
(* What a comment says and the code does not do.                            *)

\* Every entry is popped when its coroutine is over, so that the slot is free and the
\* root may be taken again.
SlotsReturned == \A n \in Node : \A r \in Root : entry[n][r] # Leaked
=============================================================================
