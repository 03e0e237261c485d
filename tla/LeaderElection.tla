---------------------------- MODULE LeaderElection ----------------------------
(***************************************************************************)
(* Which node of the cluster leads.                                        *)
(*                                                                         *)
(* The leader is whoever holds the singleton row of apflow_cluster_leader. *)
(* A node learns that it lost the row only from its own renewal loop, so   *)
(* the row and what a node believes are separate state.  Every action is   *)
(* one statement on the row (PostgreSQL, which distributed mode requires)  *)
(* or one step of DistributedRuntime between two awaits.                   *)
(*                                                                         *)
(* Time is abstracted to whether the row's lease has expired; a renewal    *)
(* that succeeds leaves the row live, which is no step of this module.     *)
(***************************************************************************)
EXTENDS Naturals

CONSTANTS
  Node,         \* nodes configured with role "auto"
  MaxLease      \* bound: leadership leases ever drawn

ASSUME ElectionAssumption == MaxLease \in Nat

VARIABLES
  leader,       \* the ClusterLeader row
  role,         \* DistributedRuntime._role, and where the node is between two roles
  token,        \* DistributedRuntime._lease_token
  renewing,     \* the task of _leader_renewal_loop is alive
  drawn         \* leases drawn so far

electionVars == <<leader, role, token, renewing, drawn>>

NoLease == 0
NoLeader == [token |-> NoLease, live |-> FALSE]
Role == {"down", "worker", "leader", "demoting", "stopping"}

ElectionTypeOK ==
  /\ leader \in [token: 0 .. MaxLease, live: BOOLEAN]
  /\ role \in [Node -> Role]
  /\ token \in [Node -> 0 .. MaxLease]
  /\ renewing \in [Node -> BOOLEAN]
  /\ drawn \in 0 .. MaxLease

ElectionInit ==
  /\ leader = NoLeader
  /\ role = [n \in Node |-> "down"]
  /\ token = [n \in Node |-> NoLease]
  /\ renewing = [n \in Node |-> FALSE]
  /\ drawn = 0

\* The node is, by the row, the leader.
Leads(n) == leader = [token |-> token[n], live |-> TRUE]

\* The node's dispatch scheduler polls: it is started with leadership and told to
\* stop before the node gives leadership up.
Dispatches(n) == role[n] = "leader"

-----------------------------------------------------------------------------
\* Faulty variant: the lease of a row is its node's, and not drawn afresh.
AcquireAgain(n) ==
  /\ role[n] = "down" /\ ~leader.live
  /\ drawn < MaxLease
  /\ LET lease == IF leader.token = NoLease THEN drawn + 1 ELSE leader.token
     IN /\ drawn' = drawn + 1
        /\ leader' = [token |-> lease, live |-> TRUE]
        /\ token' = [token EXCEPT ![n] = lease]
  /\ role' = [role EXCEPT ![n] = "leader"]
  /\ renewing' = [renewing EXCEPT ![n] = TRUE]

\* try_acquire by a node that starts: an expired row is deleted and a new one
\* inserted, unless a live one is there.
Acquire(n) ==
  /\ role[n] = "down" /\ ~leader.live
  /\ drawn < MaxLease
  /\ drawn' = drawn + 1
  /\ leader' = [token |-> drawn + 1, live |-> TRUE]
  /\ token' = [token EXCEPT ![n] = drawn + 1]
  /\ role' = [role EXCEPT ![n] = "leader"]
  /\ renewing' = [renewing EXCEPT ![n] = TRUE]

\* _select_role of an "auto" node that found a live leader.
FallBack(n) ==
  /\ role[n] = "down" /\ leader.live
  /\ role' = [role EXCEPT ![n] = "worker"]
  /\ UNCHANGED <<leader, token, renewing, drawn>>

\* Faulty variant: the renewal asks for a row, and not for its own.
RenewFailsWithoutRow(n) ==
  /\ role[n] = "leader" /\ renewing[n] /\ ~leader.live
  /\ role' = [role EXCEPT ![n] = "demoting"]
  /\ UNCHANGED <<leader, token, renewing, drawn>>

\* _leader_renewal_loop: the row is another's or has expired.  The scheduler is told
\* to stop first, and its stop waits for the fires under way.
RenewFails(n) ==
  /\ role[n] = "leader" /\ renewing[n] /\ ~Leads(n)
  /\ role' = [role EXCEPT ![n] = "demoting"]
  /\ UNCHANGED <<leader, token, renewing, drawn>>

\* The statement of a renewal raises: nothing catches it, the loop's task is over,
\* and the node goes on as the leader.
RenewRaises(n) ==
  /\ role[n] = "leader" /\ renewing[n]
  /\ renewing' = [renewing EXCEPT ![n] = FALSE]
  /\ UNCHANGED <<leader, role, token, drawn>>

\* ... and then the node becomes a worker.  Only start() ever tries to lead.
Demote(n) ==
  /\ role[n] = "demoting"
  /\ role' = [role EXCEPT ![n] = "worker"]
  /\ token' = [token EXCEPT ![n] = NoLease]
  /\ renewing' = [renewing EXCEPT ![n] = FALSE]
  /\ UNCHANGED <<leader, drawn>>

\* Faulty variant: the row is deleted whoever holds it.
ReleasedAny(n) == NoLeader

\* release_leadership: the row is deleted only if it is the node's own.
Released(n) == IF leader.token = token[n] THEN NoLeader ELSE leader

\* shutdown: a leader stops its scheduler first, which waits for fires under way; a
\* node whose scheduler is already stopped, or that has none, does not wait.
BeginShutdown(n) ==
  /\ role[n] = "leader"
  /\ role' = [role EXCEPT ![n] = "stopping"]
  /\ renewing' = [renewing EXCEPT ![n] = FALSE]
  /\ UNCHANGED <<leader, token, drawn>>

Release(n) ==
  /\ role[n] \in {"stopping", "demoting"}
  /\ leader' = Released(n)
  /\ role' = [role EXCEPT ![n] = "down"]
  /\ token' = [token EXCEPT ![n] = NoLease]
  /\ renewing' = [renewing EXCEPT ![n] = FALSE]
  /\ UNCHANGED drawn

\* A worker has no row to release, and a node that dies releases none.
Leave(n) ==
  /\ role[n] # "down"
  /\ role' = [role EXCEPT ![n] = "down"]
  /\ token' = [token EXCEPT ![n] = NoLease]
  /\ renewing' = [renewing EXCEPT ![n] = FALSE]
  /\ UNCHANGED <<leader, drawn>>

\* The lease runs out: the holder is dead, or its event loop or its database is late.
Expire ==
  /\ leader.live
  /\ leader' = [leader EXCEPT !.live = FALSE]
  /\ UNCHANGED <<role, token, renewing, drawn>>

ElectionStep(n) ==
  \/ Acquire(n) \/ FallBack(n) \/ RenewFails(n) \/ RenewRaises(n) \/ Demote(n)
  \/ BeginShutdown(n) \/ Release(n) \/ Leave(n)

ElectionNext == Expire \/ \E n \in Node : ElectionStep(n)

ElectionSpec == ElectionInit /\ [][ElectionNext]_electionVars

\* The loops of a node run; a node that is down is started again; a lease nobody
\* renews runs out.  Nothing says that a lease ever expires under its leader, or
\* that a node is ever stopped.
Abandoned == \A n \in Node : ~(renewing[n] /\ token[n] = leader.token)
ElectionFairness ==
  /\ \A n \in Node : /\ WF_electionVars(Acquire(n)) /\ WF_electionVars(FallBack(n))
                     /\ WF_electionVars(RenewFails(n)) /\ WF_electionVars(Demote(n))
                     /\ WF_electionVars(role[n] = "stopping" /\ Release(n))
  /\ WF_electionVars(Abandoned /\ Expire)
FairElectionSpec == ElectionSpec /\ ElectionFairness

-----------------------------------------------------------------------------
(* Properties.                                                              *)

\* No two nodes hold the same lease, and a node that holds none is no leader: what
\* makes the token of a late renewal or a late release tell a stale leader.
LeasesAreOwn ==
  /\ \A m, n \in Node : m # n => token[m] # token[n] \/ token[m] = NoLease
  /\ \A n \in Node : token[n] = NoLease <=> role[n] \in {"down", "worker"}
  /\ \A n \in Node : renewing[n] => role[n] \in {"leader", "demoting"}
  /\ \A n \in Node : token[n] <= drawn
  /\ leader.token <= drawn
  /\ leader.live => leader.token # NoLease
LeadershipInv == ElectionTypeOK /\ LeasesAreOwn

\* A live leadership ends only with the node that holds it: no stale leader that
\* wakes up late to renew, demote itself or shut down takes the row from another.
EndedByHolder ==
  leader.live /\ leader'.token # leader.token =>
    \E n \in Node : Leads(n) /\ role'[n] = "down"
LiveLeadershipIsKept == [][EndedByHolder]_electionVars

\* A node that lost the row and whose renewals return stops dispatching schedules,
\* whoever holds the row now.
StaleLeaderStops ==
  \A n \in Node : Dispatches(n) /\ ~Leads(n) ~> ~Dispatches(n) \/ ~renewing[n]

-----------------------------------------------------------------------------
(* What the documentation says and the code does not do.                    *)

\* On a renewal failure the dispatch scheduler is stopped, so that the new leader
\* becomes the sole dispatcher: a failure that raises stops nothing.
SoleDispatcher == \A n \in Node : Dispatches(n) /\ ~Leads(n) ~> ~Dispatches(n)

\* On leader change there is a new leader: a demoted one is a worker for good.
\* Leases left to draw are the model's bound.
NewLeader == ~leader.live /\ drawn < MaxLease ~> leader.live \/ drawn = MaxLease
=============================================================================
