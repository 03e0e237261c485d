-------------------------- MODULE WorkerPool_proofs --------------------------
(* Proofs about WorkerPool, for any cluster, any roots and constraints, any    *)
(* number of slots and leases, and any set of nodes whose statements raise.    *)
EXTENDS WorkerPool, FiniteSetTheorems, TLAPS

-----------------------------------------------------------------------------
(* The election, for any set of nodes and any number of leases. The invariant  *)
(* is inductive as it stands: a lease is drawn afresh at every acquisition, so *)
(* no two nodes ever hold one, and a node that finds its own lease in the row  *)
(* is the one that put it there.                                               *)

\* The row and the nodes as they are before anyone starts.
LEMMA LeadershipInit == ElectionInit => LeadershipInv
  BY ElectionAssumption
  DEF ElectionInit, LeadershipInv, ElectionTypeOK, LeasesAreOwn, NoLeader, NoLease, Role

\* No step of a node, and no expiry, gives a lease to two nodes or leaves a node with
\* a lease that is none of its role's.
LEMMA LeadershipStep ==
  ASSUME LeadershipInv, [ElectionNext]_electionVars
  PROVE  LeadershipInv'
<1> USE ElectionAssumption DEF LeadershipInv, ElectionTypeOK, LeasesAreOwn, NoLease, Role
<1>1. CASE UNCHANGED electionVars
  BY <1>1 DEF electionVars
<1>2. CASE Expire
  BY <1>2 DEF Expire
<1>3. ASSUME NEW n \in Node, ElectionStep(n)
      PROVE  LeadershipInv'
  <2>1. CASE Acquire(n)
    BY <2>1 DEF Acquire
  <2>2. CASE FallBack(n)
    BY <2>2 DEF FallBack
  <2>3. CASE RenewFails(n)
    BY <2>3 DEF RenewFails
  <2>4. CASE RenewRaises(n)
    BY <2>4 DEF RenewRaises
  <2>5. CASE Demote(n)
    BY <2>5 DEF Demote
  <2>6. CASE BeginShutdown(n)
    BY <2>6 DEF BeginShutdown
  <2>7. CASE Release(n)
    BY <2>7 DEF Release, Released, NoLeader
  <2>8. CASE Leave(n)
    BY <2>8 DEF Leave
  <2>9. QED
    BY <1>3, <2>1, <2>2, <2>3, <2>4, <2>5, <2>6, <2>7, <2>8 DEF ElectionStep
<1>4. QED
  BY <1>1, <1>2, <1>3 DEF ElectionNext

\* Leases are never shared: in a cluster of any size, whatever expires, whichever
\* nodes die, demote themselves or come back, no two of them hold one lease, and the
\* row shows no lease that was not drawn (leader_election.py, runtime.py).
THEOREM LeadershipLeases == ElectionSpec => []LeadershipInv
  BY LeadershipInit, LeadershipStep, PTL DEF ElectionSpec

\* A live leadership is ended by nobody but the node that holds it: the statements of
\* a stale leader that comes late to renew, to demote itself or to release find the
\* lease of another (the WHERE clauses of renew_leadership and release_leadership).
THEOREM LeadershipKept == ElectionSpec => LiveLeadershipIsKept
<1>1. ASSUME LeadershipInv, [ElectionNext]_electionVars
      PROVE  [EndedByHolder]_electionVars
  <2> SUFFICES ASSUME leader.live, leader'.token # leader.token, ElectionNext
               PROVE  \E n \in Node : Leads(n) /\ role'[n] = "down"
    BY <1>1 DEF EndedByHolder, electionVars
  <2> USE DEF LeadershipInv, ElectionTypeOK
  <2>1. ~Expire
    BY <1>1 DEF Expire
  <2>2. PICK n \in Node : ElectionStep(n)
    BY <2>1 DEF ElectionNext
  <2>3. ~(Acquire(n) \/ FallBack(n) \/ RenewFails(n) \/ RenewRaises(n) \/ Demote(n)
            \/ BeginShutdown(n) \/ Leave(n))
    BY DEF Acquire, FallBack, RenewFails, RenewRaises, Demote, BeginShutdown, Leave
  <2>4. Release(n)
    BY <2>2, <2>3 DEF ElectionStep
  <2>5. leader.token = token[n] /\ role'[n] = "down"
    BY <1>1, <2>4 DEF Release, Released
  <2>6. Leads(n)
    BY <1>1, <2>5 DEF Leads
  <2>7. QED
    BY <2>5, <2>6
<1>2. QED
  BY <1>1, LeadershipLeases, PTL DEF ElectionSpec, LiveLeadershipIsKept

-----------------------------------------------------------------------------
\* What a node's memory of a root may be.
EntryType == [at : {"none", "queued", "held", "running", "leaked"}, token : 0 .. MaxToken]

-----------------------------------------------------------------------------
(* The pool takes the steps of the election and no others.                     *)

LEMMA PoolStepIsElectionStep ==
  ASSUME [Next]_vars
  PROVE  [ElectionNext]_electionVars
<1>1. CASE UNCHANGED vars
  BY <1>1 DEF vars
<1>2. ASSUME NEW n \in Node, NodeStep(n)
      PROVE  [ElectionNext]_electionVars
  <2>1. CASE StartNode(n)
    BY <2>1 DEF StartNode, ElectionNext, ElectionStep
  <2>2. CASE LeaderStep(n)
    BY <2>2 DEF LeaderStep, ElectionNext, ElectionStep
  <2>3. CASE BecomeWorker(n)
    BY <2>3 DEF BecomeWorker, ElectionNext, ElectionStep
  <2>4. CASE LeaderGone(n)
    BY <2>4 DEF LeaderGone, ElectionNext, ElectionStep
  <2>5. CASE BeginClose(n)
    BY <2>5 DEF BeginClose
  <2>6. CASE Close(n) \/ Die(n)
    BY <2>6 DEF Close, Die, ElectionNext, ElectionStep
  <2> QED
    BY <1>2, <2>1, <2>2, <2>3, <2>4, <2>5, <2>6 DEF NodeStep
<1>3. CASE \E n \in Node : Poll(n)
  BY <1>3 DEF Poll
<1>4. ASSUME NEW n \in Node, NEW r \in Root,
             Work(n, r) \/ AcquireRaises(n, r) \/ InterruptRaises(n, r)
      PROVE  UNCHANGED electionVars
  BY <1>4 DEF Work, Loses, Leases, Begin, Conclude, Report, Interrupts,
              AcquireRaises, InterruptRaises
<1>5. CASE \E r \in Root : CleanUp(r) \/ ExpireRootLease(r)
  BY <1>5 DEF CleanUp, ExpireRootLease
<1>6. CASE ExpireLeadership
  BY <1>6 DEF ExpireLeadership, ElectionNext
<1> QED
  BY <1>1, <1>2, <1>3, <1>4, <1>5, <1>6 DEF Next

\* A cluster with workers elects as one without: what is proved of LeaderElection
\* holds of the runtime as a whole (runtime.py, start, _demote, shutdown).
THEOREM PoolElects == Spec => ElectionSpec
<1>1. Init => ElectionInit
  BY DEF Init
<1> QED
  BY <1>1, PoolStepIsElectionStep, PTL DEF Spec, ElectionSpec

-----------------------------------------------------------------------------
(* Types, tokens and the registry.                                             *)

\* What is inductive of PoolInv beside the bound on the slots.
Own == TypeOK /\ LeadershipInv /\ TokensAreOwn /\ UpIsRegistered

LEMMA OwnInit == Init => Own
<1> SUFFICES ASSUME Init PROVE Own
  OBVIOUS
<1>1. LeadershipInv
  BY LeadershipInit DEF Init
<1>2. TypeOK
  BY <1>1, PoolAssumption DEF Init, LeadershipInv, TypeOK, Terminal, NoEntry, Unheld
<1>3. TokensAreOwn
  BY DEF Init, TokensAreOwn, InHand, NoEntry
<1>4. UpIsRegistered
  BY DEF Init, ElectionInit, UpIsRegistered
<1> QED
  BY <1>1, <1>2, <1>3, <1>4 DEF Own

LEMMA EmptyEntries ==
  NoEntry \in EntryType /\ Leaked \in EntryType /\ Idle \in [Root -> EntryType]
BY PoolAssumption DEF NoEntry, Leaked, Idle, EntryType

RootRows == [Root -> [status : Terminal \cup {"pending"}, begun : BOOLEAN]]
LeaseRows == [Root -> [token : 0 .. MaxToken, live : BOOLEAN]]

\* The rows before a step, what recovery makes of a root, and a lease given back.
LEMMA RowTypes ==
  ASSUME TypeOK, NEW r \in Root
  PROVE  /\ root \in RootRows /\ lease \in LeaseRows /\ Recovered(r) \in RootRows
         /\ cached \in [Root -> {"none", "failed", "completed"}]
         /\ [lease EXCEPT ![r] = Unheld] \in LeaseRows
<1>1. root \in RootRows /\ lease \in LeaseRows
  BY DEF TypeOK, RootRows, LeaseRows
<1>2. Recovered(r) \in RootRows
  BY <1>1 DEF Recovered, RootRows, Terminal
<1>3. Unheld \in [token : 0 .. MaxToken, live : BOOLEAN]
  BY PoolAssumption DEF Unheld
<1> QED
  BY <1>1, <1>2, <1>3 DEF TypeOK, LeaseRows

\* The steps of a node's role keep the entries of running nodes and drop those of one
\* that goes down.
LEMMA NodeOwn ==
  ASSUME Own, NEW n \in Node, NodeStep(n), LeadershipInv'
  PROVE  Own'
<1>1. /\ \A m \in Node, r \in Root : entry'[m][r] \in {entry[m][r], NoEntry}
      /\ entry' \in [Node -> [Root -> EntryType]]
      /\ UNCHANGED <<root, lease, cached, issued>>
      /\ closing' \subseteq Node
  <2>1. CASE StartNode(n)
    BY <2>1 DEF StartNode, Own, TypeOK, EntryType
  <2>2. CASE LeaderStep(n)
    BY <2>2 DEF LeaderStep, poolVars, Own, TypeOK, EntryType
  <2>3. CASE BecomeWorker(n) \/ LeaderGone(n)
    BY <2>3 DEF BecomeWorker, LeaderGone, Own, TypeOK, EntryType
  <2>4. CASE BeginClose(n)
    <3>1. entry \in [Node -> [Root -> EntryType]]
      BY DEF Own, TypeOK, EntryType
    <3>2. [r \in Root |-> IF entry[n][r].at = "queued" THEN NoEntry ELSE entry[n][r]]
            \in [Root -> EntryType]
      BY <3>1, EmptyEntries
    <3>3. entry' = [entry EXCEPT ![n] =
                      [r \in Root |-> IF entry[n][r].at = "queued" THEN NoEntry ELSE entry[n][r]]]
      BY <2>4 DEF BeginClose
    <3> QED
      BY <2>4, <3>1, <3>2, <3>3 DEF BeginClose, Own, TypeOK
  <2>5. CASE Close(n) \/ Die(n)
    <3>1. entry \in [Node -> [Root -> EntryType]]
      BY DEF Own, TypeOK, EntryType
    <3>2. entry' = [entry EXCEPT ![n] = Idle]
      BY <2>5 DEF Close, Die
    <3> QED
      BY <2>5, <3>1, <3>2, EmptyEntries DEF Close, Die, Own, TypeOK, Idle
  <2> QED
    BY <2>1, <2>2, <2>3, <2>4, <2>5 DEF NodeStep
<1>2. /\ registered' \subseteq Node
      /\ \A m \in Node : role'[m] # "down" => m \in registered'
  <2> USE DEF Own, TypeOK, ElectionTypeOK, UpIsRegistered, Role
  <2>1. CASE StartNode(n)
    BY <2>1 DEF StartNode, Acquire, FallBack, Register
  <2>2. CASE LeaderStep(n)
    BY <2>2 DEF LeaderStep, poolVars, RenewFails, RenewRaises, BeginShutdown
  <2>3. CASE BecomeWorker(n)
    BY <2>3 DEF BecomeWorker, Demote, Register
  <2>4. CASE LeaderGone(n)
    BY <2>4 DEF LeaderGone, Release, Deregister
  <2>5. CASE BeginClose(n)
    BY <2>5 DEF BeginClose, electionVars
  <2>6. CASE Close(n)
    BY <2>6 DEF Close, Leave, Deregister
  <2>7. CASE Die(n)
    BY <2>7 DEF Die, Leave
  <2> QED
    BY <2>1, <2>2, <2>3, <2>4, <2>5, <2>6, <2>7 DEF NodeStep
<1>3. TypeOK'
  BY <1>1, <1>2 DEF Own, TypeOK, LeadershipInv, EntryType
<1>4. TokensAreOwn'
  BY <1>1 DEF Own, TokensAreOwn, InHand, NoEntry
<1> QED
  BY <1>2, <1>3, <1>4 DEF Own, UpIsRegistered

LEMMA PollOwn ==
  ASSUME Own, NEW n \in Node, Poll(n)
  PROVE  Own'
<1>1. PICK batch \in SUBSET Root :
        /\ entry' = [entry EXCEPT ![n] =
                       [r \in Root |-> IF r \in batch THEN [at |-> "queued", token |-> 0]
                                                      ELSE @[r]]]
        /\ UNCHANGED <<electionVars, root, lease, cached, closing, registered, issued>>
  BY DEF Poll, Executable
<1>2. /\ entry' \in [Node -> [Root -> EntryType]]
      /\ \A m \in Node, r \in Root :
           entry'[m][r] \in {entry[m][r], [at |-> "queued", token |-> 0]}
  BY <1>1, PoolAssumption DEF Own, TypeOK, EntryType
<1>3. TypeOK' /\ LeadershipInv' /\ UpIsRegistered'
  BY <1>1, <1>2 DEF Own, TypeOK, EntryType, electionVars, ElectionTypeOK, LeadershipInv,
                    LeasesAreOwn, UpIsRegistered
<1>4. TokensAreOwn'
  BY <1>1, <1>2 DEF Own, TokensAreOwn, InHand
<1> QED
  BY <1>3, <1>4 DEF Own

\* A coroutine's step changes the entry of its root only: it keeps its token or gets a
\* fresh one.
LEMMA RootOwn ==
  ASSUME Own, NEW n \in Node, NEW r \in Root,
         Work(n, r) \/ AcquireRaises(n, r) \/ InterruptRaises(n, r)
  PROVE  Own'
<1>1. UNCHANGED <<electionVars, closing, registered>>
  BY DEF Work, Loses, Leases, Begin, Conclude, Report, Interrupts,
         AcquireRaises, InterruptRaises
<1>2. root' \in RootRows /\ lease' \in LeaseRows /\ cached' \in [Root -> {"none", "failed", "completed"}]
  <2>1. /\ root \in RootRows /\ lease \in LeaseRows /\ Recovered(r) \in RootRows
        /\ cached \in [Root -> {"none", "failed", "completed"}]
        /\ [lease EXCEPT ![r] = Unheld] \in LeaseRows
    BY RowTypes DEF Own
  <2>2. CASE Loses(n, r) \/ AcquireRaises(n, r) \/ InterruptRaises(n, r)
    BY <2>1, <2>2 DEF Loses, AcquireRaises, InterruptRaises
  <2>3. CASE Leases(n, r)
    <3>1. issued + 1 \in 0 .. MaxToken
      BY <2>3, PoolAssumption DEF Leases, Own, TypeOK
    <3> QED
      BY <2>1, <2>3, <3>1 DEF Leases, LeaseRows
  <2>4. CASE Begin(n, r)
    BY <2>1, <2>4 DEF Begin, RootRows
  <2>5. CASE Conclude(n, r)
    BY <2>1, <2>5 DEF Conclude, RootRows, Terminal
  <2>6. CASE Interrupts(n, r)
    BY <2>1, <2>6 DEF Interrupts
  <2>7. CASE Report(n, r)
    <3>1. PICK outcome \in Outcome(r) :
            /\ root' = IF outcome = "nonterminal"
                       THEN IF lease[r].token = entry[n][r].token THEN Recovered(r) ELSE root
                       ELSE IF Holds(n, r) /\ root[r].status \notin Terminal
                            THEN [root EXCEPT ![r].status = outcome] ELSE root
            /\ lease' \in {lease, [lease EXCEPT ![r] = Unheld]}
            /\ \/ /\ Caches(outcome)
                  /\ cached' = [cached EXCEPT ![r] = Stored(@, outcome)]
               \/ UNCHANGED cached
      BY <2>7 DEF Report
    <3>2. outcome \in Terminal \cup {"nonterminal"}
      BY DEF Outcome, Terminal
    <3>3. outcome # "nonterminal" => [root EXCEPT ![r].status = outcome] \in RootRows
      BY <2>1, <3>2 DEF RootRows
    <3>4. root' \in RootRows
      BY <2>1, <3>1, <3>3
    <3>5. lease' \in LeaseRows
      BY <2>1, <3>1
    <3>6. cached' \in [Root -> {"none", "failed", "completed"}]
      BY <2>1, <3>1 DEF Caches, Stored
    <3> QED
      BY <3>4, <3>5, <3>6
  <2> QED
    BY <2>2, <2>3, <2>4, <2>5, <2>6, <2>7 DEF Work
<1>3. /\ issued' \in issued .. MaxToken
      /\ \E e \in EntryType :
           /\ entry' = [entry EXCEPT ![n][r] = e]
           /\ e.at \in {"held", "running"} =>
                \/ InHand(n, r) /\ e.token = entry[n][r].token
                \/ e.token = issued + 1 /\ issued' = issued + 1
  <2>1. /\ NoEntry \in EntryType /\ NoEntry.at = "none"
        /\ Leaked \in EntryType /\ Leaked.at = "leaked"
    BY EmptyEntries DEF NoEntry, Leaked
  <2>2. issued \in 0 .. MaxToken /\ entry[n][r] \in EntryType
    BY DEF Own, TypeOK, EntryType
  <2>3. issued \in issued .. MaxToken
    BY <2>2, PoolAssumption
  <2>4. CASE Loses(n, r) \/ AcquireRaises(n, r) \/ InterruptRaises(n, r)
    BY <2>1, <2>3, <2>4 DEF Loses, AcquireRaises, InterruptRaises, SetEntry
  <2>5. CASE Leases(n, r)
    <3>1. issued + 1 \in 0 .. MaxToken /\ issued + 1 \in issued .. MaxToken
      BY <2>2, <2>5, PoolAssumption DEF Leases
    <3> DEFINE e == [at |-> "held", token |-> issued + 1]
    <3>2. e \in EntryType /\ e.token = issued + 1
      BY <3>1 DEF EntryType
    <3>3. entry' = [entry EXCEPT ![n][r] = e] /\ issued' = issued + 1
      BY <2>5 DEF Leases, SetEntry
    <3> HIDE DEF e
    <3> QED
      BY <3>1, <3>2, <3>3
  <2>6. CASE Begin(n, r)
    <3>1. [entry[n][r] EXCEPT !.at = "running"] \in EntryType
      BY <2>2 DEF EntryType
    <3>2. [entry[n][r] EXCEPT !.at = "running"].token = entry[n][r].token
      BY <2>2 DEF EntryType
    <3> QED
      BY <2>3, <2>6, <3>1, <3>2 DEF Begin, SetEntry, InHand
  <2>7. CASE Conclude(n, r)
    <3>1. entry' = [entry EXCEPT ![n][r] = entry[n][r]]
      BY <2>7 DEF Conclude, Own, TypeOK
    <3> QED
      BY <2>2, <2>3, <2>7, <3>1 DEF Conclude, InHand
  <2>8. CASE Report(n, r) \/ Interrupts(n, r)
    <3>1. /\ entry' \in {[entry EXCEPT ![n][r] = NoEntry], [entry EXCEPT ![n][r] = Leaked]}
          /\ issued' = issued
      BY <2>8 DEF Report, Interrupts, SetEntry
    <3> QED
      BY <2>1, <2>3, <3>1
  <2> QED
    BY <2>4, <2>5, <2>6, <2>7, <2>8 DEF Work
<1>4. TypeOK' /\ LeadershipInv' /\ UpIsRegistered'
  BY <1>1, <1>2, <1>3 DEF Own, TypeOK, RootRows, LeaseRows, EntryType, electionVars, ElectionTypeOK, LeadershipInv,
                          LeasesAreOwn, UpIsRegistered
<1>5. TokensAreOwn'
  <2>1. PICK e \in EntryType :
          /\ entry' = [entry EXCEPT ![n][r] = e]
          /\ e.at \in {"held", "running"} =>
               \/ InHand(n, r) /\ e.token = entry[n][r].token
               \/ e.token = issued + 1 /\ issued' = issued + 1
    BY <1>3
  <2>2. \A m \in Node, q \in Root :
          entry'[m][q] = IF m = n /\ q = r THEN e ELSE entry[m][q]
    BY <2>1 DEF Own, TypeOK
  <2>3. issued \in Nat /\ issued' \in Nat /\ issued <= issued'
    BY <1>3, PoolAssumption DEF Own, TypeOK
  <2>4. ASSUME NEW m \in Node, NEW q \in Root, InHand(m, q)'
        PROVE  /\ entry'[m][q].token \in 1 .. issued'
               /\ \/ InHand(m, q) /\ entry'[m][q].token = entry[m][q].token
                  \/ m = n /\ q = r /\ entry'[m][q].token = issued + 1
    BY <2>1, <2>2, <2>3, <2>4 DEF Own, TokensAreOwn, InHand
  <2> QED
    BY <2>3, <2>4 DEF Own, TokensAreOwn
<1> QED
  BY <1>4, <1>5 DEF Own

LEMMA ExpiryOwn ==
  ASSUME Own, NEW r \in Root, CleanUp(r) \/ ExpireRootLease(r)
  PROVE  Own'
<1>1. /\ root' \in RootRows /\ lease' \in LeaseRows
      /\ UNCHANGED <<electionVars, cached, entry, closing, registered, issued>>
  <2>1. /\ root \in RootRows /\ lease \in LeaseRows /\ Recovered(r) \in RootRows
        /\ [lease EXCEPT ![r] = Unheld] \in LeaseRows
    BY RowTypes DEF Own
  <2>2. [lease EXCEPT ![r].live = FALSE] \in LeaseRows
    BY <2>1 DEF LeaseRows
  <2> QED
    BY <2>1, <2>2 DEF CleanUp, ExpireRootLease
<1>2. TypeOK' /\ LeadershipInv' /\ UpIsRegistered'
  BY <1>1 DEF Own, TypeOK, RootRows, LeaseRows, electionVars, ElectionTypeOK, LeadershipInv,
              LeasesAreOwn, UpIsRegistered
<1>3. TokensAreOwn'
  BY <1>1 DEF Own, TokensAreOwn, InHand
<1> QED
  BY <1>2, <1>3 DEF Own

LEMMA OwnStep ==
  ASSUME Own, [Next]_vars
  PROVE  Own'
<1>1. LeadershipInv'
  BY PoolStepIsElectionStep, LeadershipStep DEF Own
<1>2. CASE UNCHANGED vars
  BY <1>1, <1>2 DEF vars, poolVars, electionVars, Own, TypeOK, ElectionTypeOK, TokensAreOwn, InHand,
                    UpIsRegistered
<1>3. CASE \E n \in Node : NodeStep(n) \/ Poll(n)
  BY <1>1, <1>3, NodeOwn, PollOwn
<1>4. CASE \E n \in Node, r \in Root : Work(n, r) \/ AcquireRaises(n, r) \/ InterruptRaises(n, r)
  BY <1>4, RootOwn
<1>5. CASE \E r \in Root : CleanUp(r) \/ ExpireRootLease(r)
  BY <1>5, ExpiryOwn
<1>6. CASE ExpireLeadership
  BY <1>1, <1>6 DEF ExpireLeadership, Expire, poolVars, Own, TypeOK, LeadershipInv, TokensAreOwn, InHand,
                    UpIsRegistered
<1> QED
  BY <1>2, <1>3, <1>4, <1>5, <1>6 DEF Next

-----------------------------------------------------------------------------
\* A coroutine leaves the entries of other roots and other nodes alone.
LEMMA WorkTouches ==
  ASSUME entry \in [Node -> [Root -> EntryType]], NEW n \in Node, NEW r \in Root,
         Work(n, r) \/ AcquireRaises(n, r) \/ InterruptRaises(n, r)
  PROVE  \A m \in Node, q \in Root : m # n \/ q # r => entry'[m][q] = entry[m][q]
<1>1. CASE Loses(n, r) \/ AcquireRaises(n, r) \/ InterruptRaises(n, r) \/ Interrupts(n, r)
  BY <1>1 DEF Loses, AcquireRaises, InterruptRaises, Interrupts, SetEntry
<1>2. CASE Leases(n, r) \/ Begin(n, r)
  BY <1>2 DEF Leases, Begin, SetEntry
<1>3. CASE Conclude(n, r)
  BY <1>3 DEF Conclude
<1>4. CASE Report(n, r)
  <2>1. entry' = [entry EXCEPT ![n][r] = NoEntry] \/ entry' = [entry EXCEPT ![n][r] = Leaked]
    BY <1>4 DEF Report, SetEntry
  <2> QED
    BY <2>1
<1> QED
  BY <1>1, <1>2, <1>3, <1>4 DEF Work

-----------------------------------------------------------------------------
(* The slots.                                                                  *)

LEMMA EntriesFinite ==
  ASSUME NEW n \in Node
  PROVE  IsFiniteSet(Entries(n)) /\ Cardinality(Entries(n)) \in Nat
<1>1. Entries(n) \subseteq Root
  BY DEF Entries
<1> QED
  BY <1>1, PoolAssumption, FS_Subset, FS_CardinalityType

\* Entries that are dropped only make room.
LEMMA FewerEntries ==
  ASSUME PoolIsBounded, NEW n \in Node, Entries(n)' \subseteq Entries(n)
  PROVE  Cardinality(Entries(n)') <= MaxParallel
<1>1. IsFiniteSet(Entries(n)) /\ Cardinality(Entries(n)) \in Nat
  BY EntriesFinite
<1>2. IsFiniteSet(Entries(n)') /\ Cardinality(Entries(n)') <= Cardinality(Entries(n))
  BY <1>1, FS_Subset
<1>3. Cardinality(Entries(n)') \in Nat
  BY <1>2, FS_CardinalityType
<1> QED
  BY <1>1, <1>2, <1>3, PoolAssumption DEF PoolIsBounded

\* A poll takes no more than there are free slots.
LEMMA PollBounded ==
  ASSUME Own, PoolIsBounded, NEW n \in Node, Poll(n)
  PROVE  PoolIsBounded'
<1>1. PICK batch \in SUBSET Executable(n) :
        /\ Cardinality(batch) <= Available(n)
        /\ entry' = [entry EXCEPT ![n] =
                       [r \in Root |-> IF r \in batch THEN [at |-> "queued", token |-> 0]
                                                      ELSE @[r]]]
  BY DEF Poll
<1>2. batch \subseteq Root
  BY DEF Executable
<1>3. \A r \in Root : entry'[n][r] = IF r \in batch THEN [at |-> "queued", token |-> 0]
                                                    ELSE entry[n][r]
  BY <1>1 DEF Own, TypeOK
<1>4. Entries(n)' = Entries(n) \cup batch
  BY <1>2, <1>3 DEF Entries, NoEntry
<1>5. IsFiniteSet(batch) /\ Cardinality(batch) \in Nat
  BY <1>2, PoolAssumption, FS_Subset, FS_CardinalityType
<1>6. IsFiniteSet(Entries(n)) /\ Cardinality(Entries(n)) \in Nat
  BY EntriesFinite
<1>7. /\ Cardinality(Entries(n)') <= Cardinality(Entries(n)) + Cardinality(batch)
      /\ Cardinality(Entries(n)') \in Nat
  <2>1. /\ IsFiniteSet(Entries(n) \cup batch) /\ IsFiniteSet(Entries(n) \cap batch)
        /\ Cardinality(Entries(n) \cup batch) =
             Cardinality(Entries(n)) + Cardinality(batch) - Cardinality(Entries(n) \cap batch)
    BY <1>5, <1>6, FS_Union, FS_Intersection
  <2>2. Cardinality(Entries(n) \cap batch) \in Nat /\ Cardinality(Entries(n) \cup batch) \in Nat
    BY <2>1, FS_CardinalityType
  <2> QED
    BY <1>4, <1>5, <1>6, <2>1, <2>2
<1>8. Cardinality(Entries(n)') <= MaxParallel
  BY <1>1, <1>5, <1>6, <1>7, PoolAssumption DEF Available
<1>9. ASSUME NEW m \in Node, m # n
      PROVE  Cardinality(Entries(m)') <= MaxParallel
  <2>1. Entries(m)' \subseteq Entries(m)
    BY <1>1, <1>9 DEF Own, TypeOK, Entries
  <2> QED
    BY <2>1, FewerEntries
<1> QED
  BY <1>8, <1>9 DEF PoolIsBounded

\* No other step makes an entry.
LEMMA OthersBounded ==
  ASSUME Own, PoolIsBounded, [Next]_vars, ~ \E n \in Node : Poll(n)
  PROVE  PoolIsBounded'
<1>1. \A m \in Node, q \in Root : entry[m][q] = NoEntry => entry'[m][q] = NoEntry
  <2>1. entry \in [Node -> [Root -> EntryType]]
    BY DEF Own, TypeOK, EntryType
  <2>2. CASE UNCHANGED vars
    BY <2>2 DEF vars, poolVars
  <2>3. ASSUME NEW n \in Node, NodeStep(n)
        PROVE  \A m \in Node, q \in Root : entry[m][q] = NoEntry => entry'[m][q] = NoEntry
    <3>1. CASE StartNode(n) \/ LeaderStep(n) \/ BecomeWorker(n) \/ LeaderGone(n)
      BY <3>1 DEF StartNode, LeaderStep, BecomeWorker, LeaderGone, poolVars
    <3>2. CASE BeginClose(n)
      <4>1. entry' = [entry EXCEPT ![n] =
                        [r \in Root |-> IF entry[n][r].at = "queued" THEN NoEntry ELSE entry[n][r]]]
        BY <3>2 DEF BeginClose
      <4> QED
        BY <2>1, <4>1
    <3>3. CASE Close(n) \/ Die(n)
      <4>1. entry' = [entry EXCEPT ![n] = Idle]
        BY <3>3 DEF Close, Die
      <4> QED
        BY <2>1, <4>1 DEF Idle
    <3> QED
      BY <2>3, <3>1, <3>2, <3>3 DEF NodeStep
  <2>4. ASSUME NEW n \in Node, NEW r \in Root,
               Work(n, r) \/ AcquireRaises(n, r) \/ InterruptRaises(n, r)
        PROVE  \A m \in Node, q \in Root : entry[m][q] = NoEntry => entry'[m][q] = NoEntry
    <3>1. entry[n][r] # NoEntry
      BY <2>4 DEF Work, Loses, Leases, Begin, Conclude, Report, Interrupts, AcquireRaises,
                  InterruptRaises, NoEntry
    <3>2. \A m \in Node, q \in Root : m # n \/ q # r => entry'[m][q] = entry[m][q]
      BY <2>1, <2>4, WorkTouches
    <3> QED
      BY <3>1, <3>2
  <2>5. CASE \E r \in Root : CleanUp(r) \/ ExpireRootLease(r)
    BY <2>5 DEF CleanUp, ExpireRootLease
  <2>6. CASE ExpireLeadership
    BY <2>6 DEF ExpireLeadership, poolVars
  <2> QED
    BY <2>2, <2>3, <2>4, <2>5, <2>6 DEF Next
<1>2. \A m \in Node : Entries(m)' \subseteq Entries(m)
  BY <1>1 DEF Entries
<1> QED
  BY <1>2, FewerEntries DEF PoolIsBounded

LEMMA BoundedInit == Init => PoolIsBounded
<1> SUFFICES ASSUME Init, NEW n \in Node
             PROVE  Cardinality(Entries(n)) <= MaxParallel
  BY DEF PoolIsBounded
<1>1. Entries(n) = {}
  BY DEF Init, Entries
<1> QED
  BY <1>1, FS_EmptySet, PoolAssumption

-----------------------------------------------------------------------------
\* Whatever nodes and coroutines do, a root has one durable owner at most, a worker no
\* more roots than slots, and a node that is up its row in the registry (worker.py,
\* _poll_loop and _execute_task; runtime.py, start, _demote and shutdown).
THEOREM Pools == Spec => []PoolInv
<1>1. Own => OneHolder
  BY DEF Own, TokensAreOwn, OneHolder, Holds, InHand
<1>2. Own /\ PoolIsBounded /\ [Next]_vars => (Own /\ PoolIsBounded)'
  BY OwnStep, PollBounded, OthersBounded
<1>3. Own /\ PoolIsBounded => PoolInv
  BY <1>1 DEF Own, PoolInv
<1> QED
  BY OwnInit, BoundedInit, <1>2, <1>3, PTL DEF Spec

\* A live lease goes with the entry that held it: no worker drops one and leaves it to
\* run out (worker.py, the finally clauses of _execute_task).
THEOREM LeasesGoBack == Spec => LeasesAreReturned
<1>1. ASSUME Own, [Next]_vars, NEW n \in Node, NEW r \in Root
      PROVE  GivenBack(n, r)
  <2> SUFFICES ASSUME Holds(n, r), entry'[n][r].token # lease[r].token,
                      n \notin Faulty, role'[n] # "down"
               PROVE  lease'[r].token # lease[r].token
    BY DEF GivenBack
  <2>1. InHand(n, r) /\ entry[n][r].token = lease[r].token
    BY DEF Holds, InHand
  <2>2. entry[n][r].token # 0
    <3>1. entry[n][r].token \in 1 .. issued
      BY <1>1, <2>1 DEF Own, TokensAreOwn
    <3>2. issued \in Int
      BY <1>1, PoolAssumption DEF Own, TypeOK
    <3> QED
      BY <3>1, <3>2
  <2>3. entry'[n][r] # entry[n][r] /\ entry[n][r].at \notin {"none", "queued", "leaked"}
    BY <2>1 DEF InHand
  <2>4. /\ entry \in [Node -> [Root -> EntryType]]
        /\ role \in [Node -> Role] /\ lease \in LeaseRows
    <3>1. entry \in [Node -> [Root -> EntryType]] /\ lease \in LeaseRows
      BY <1>1 DEF Own, TypeOK, EntryType, LeaseRows
    <3>2. role \in [Node -> Role]
      BY <1>1 DEF Own, TypeOK, ElectionTypeOK
    <3> QED
      BY <3>1, <3>2
  <2>5. ~ UNCHANGED entry
    BY <2>3
  <2>6. ASSUME NEW m \in Node, NodeStep(m)
        PROVE  FALSE
    <3>1. CASE BeginClose(m)
      <4>1. entry' = [entry EXCEPT ![m] =
                        [q \in Root |-> IF entry[m][q].at = "queued" THEN NoEntry
                                                                   ELSE entry[m][q]]]
        BY <3>1 DEF BeginClose
      <4> QED
        BY <2>3, <2>4, <4>1
    <3>2. CASE Close(m) \/ Die(m)
      <4>1. entry' = [entry EXCEPT ![m] = Idle] /\ role' = [role EXCEPT ![m] = "down"]
        BY <3>2 DEF Close, Die, Leave
      <4>2. m = n
        BY <2>3, <2>4, <4>1
      <4> QED
        BY <2>4, <4>1, <4>2
    <3>3. CASE StartNode(m) \/ LeaderStep(m) \/ BecomeWorker(m) \/ LeaderGone(m)
      BY <2>5, <3>3 DEF StartNode, LeaderStep, BecomeWorker, LeaderGone, poolVars
    <3> QED
      BY <2>6, <3>1, <3>2, <3>3 DEF NodeStep
  <2>7. ASSUME NEW m \in Node, Poll(m)
        PROVE  FALSE
    <3>1. PICK batch \in SUBSET Executable(m) :
            entry' = [entry EXCEPT ![m] =
                        [q \in Root |-> IF q \in batch THEN [at |-> "queued", token |-> 0]
                                                       ELSE @[q]]]
      BY <2>7 DEF Poll
    <3>2. \A q \in batch : entry[m][q].at = "none"
      BY DEF Executable, NoEntry
    <3> QED
      BY <2>3, <2>4, <3>1, <3>2
  <2>8. ASSUME NEW m \in Node, NEW q \in Root,
               Work(m, q) \/ AcquireRaises(m, q) \/ InterruptRaises(m, q)
        PROVE  lease'[r].token # lease[r].token
    <3>1. m = n /\ q = r
      BY <2>3, <2>4, <2>8, WorkTouches
    <3>2. Begin(n, r) \/ Report(n, r) \/ Interrupts(n, r)
      BY <2>3, <2>5, <2>8, <3>1 DEF Work, Loses, Leases, Conclude, AcquireRaises, InterruptRaises
    <3>3. CASE Begin(n, r)
      <4>1. entry'[n][r].token = entry[n][r].token
        BY <2>4, <3>3 DEF Begin, SetEntry, EntryType
      <4> QED
        BY <2>1, <4>1
    <3>4. CASE Report(n, r) \/ Interrupts(n, r)
      <4>1. lease' = [lease EXCEPT ![r] = Unheld]
        BY <2>1, <3>4 DEF Report, Interrupts
      <4> QED
        BY <2>1, <2>2, <2>4, <4>1 DEF Unheld, LeaseRows
    <3> QED
      BY <3>2, <3>3, <3>4
  <2>9. CASE UNCHANGED vars \/ (\E q \in Root : CleanUp(q) \/ ExpireRootLease(q)) \/ ExpireLeadership
    BY <2>5, <2>9 DEF vars, poolVars, CleanUp, ExpireRootLease, ExpireLeadership
  <2>10. CASE UNCHANGED vars
    BY <2>9, <2>10
  <2>11. CASE \E m \in Node : NodeStep(m) \/ Poll(m)
    BY <2>6, <2>7, <2>11
  <2>12. CASE \E m \in Node, q \in Root :
               Work(m, q) \/ AcquireRaises(m, q) \/ InterruptRaises(m, q)
    BY <2>8, <2>12
  <2>13. CASE (\E q \in Root : CleanUp(q) \/ ExpireRootLease(q)) \/ ExpireLeadership
    BY <2>9, <2>13
  <2>14. CASE Next
    BY <2>11, <2>12, <2>13, <2>14 DEF Next
  <2> QED
    BY <1>1, <2>10, <2>14
<1>2. Own /\ [Next]_vars => [\A n \in Node, r \in Root : GivenBack(n, r)]_vars
  BY <1>1
<1> QED
  BY <1>2, OwnInit, OwnStep, PTL DEF Spec, LeasesAreReturned

-----------------------------------------------------------------------------
(* The cache.                                                                  *)

\* A root that ended stays as it ended, whoever reports, recovers or cleans up late.
LEMMA EndsStay ==
  ASSUME Own, [Next]_vars, NEW r \in Root, root[r].status \in Terminal
  PROVE  root'[r] = root[r]
<1>1. root \in RootRows /\ "pending" \notin Terminal
  BY DEF Own, TypeOK, RootRows, Terminal
<1>2. Recovered(r) = root /\ \A q \in Root : Recovered(q)[r] = root[r]
  BY <1>1 DEF Recovered, RootRows
<1>3. CASE UNCHANGED root
  BY <1>3
<1>4. ASSUME NEW n \in Node, NEW q \in Root,
             Work(n, q) \/ AcquireRaises(n, q) \/ InterruptRaises(n, q)
      PROVE  root'[r] = root[r]
  <2>1. CASE Begin(n, q) \/ Conclude(n, q)
    BY <1>1, <2>1 DEF Begin, Conclude, RootRows
  <2>2. CASE Report(n, q)
    <3>1. PICK outcome \in Outcome(q) :
            root' = IF outcome = "nonterminal"
                    THEN IF lease[q].token = entry[n][q].token THEN Recovered(q) ELSE root
                    ELSE IF Holds(n, q) /\ root[q].status \notin Terminal
                         THEN [root EXCEPT ![q].status = outcome] ELSE root
      BY <2>2 DEF Report
    <3> QED
      BY <1>1, <1>2, <3>1 DEF RootRows
  <2>3. CASE Interrupts(n, q)
    BY <1>2, <2>3 DEF Interrupts
  <2>4. CASE Loses(n, q) \/ Leases(n, q) \/ AcquireRaises(n, q) \/ InterruptRaises(n, q)
    BY <1>3, <2>4 DEF Loses, Leases, AcquireRaises, InterruptRaises
  <2> QED
    BY <1>4, <2>1, <2>2, <2>3, <2>4 DEF Work
<1>5. CASE \E q \in Root : CleanUp(q) \/ ExpireRootLease(q)
  BY <1>2, <1>5 DEF CleanUp, ExpireRootLease
<1>6. CASE \E n \in Node : NodeStep(n) \/ Poll(n)
  BY <1>3, <1>6 DEF NodeStep, StartNode, LeaderStep, BecomeWorker, LeaderGone, BeginClose,
                    Close, Die, Poll, poolVars
<1>7. CASE ExpireLeadership \/ UNCHANGED vars
  BY <1>3, <1>7 DEF ExpireLeadership, vars, poolVars
<1> QED
  BY <1>4, <1>5, <1>6, <1>7 DEF Next

\* A report that is stored says how its root ends.
LEMMA ReportAgrees ==
  ASSUME Own, CacheAgrees, NEW n \in Node, NEW r \in Root, Report(n, r),
         cached'[r] # cached[r]
  PROVE  root'[r].status = cached'[r]
<1>1. PICK outcome \in Outcome(r) :
        /\ root' = IF outcome = "nonterminal"
                   THEN IF lease[r].token = entry[n][r].token THEN Recovered(r) ELSE root
                   ELSE IF Holds(n, r) /\ root[r].status \notin Terminal
                        THEN [root EXCEPT ![r].status = outcome] ELSE root
        /\ Caches(outcome) /\ Finalized(n, r, outcome)
        /\ cached' = [cached EXCEPT ![r] = Stored(@, outcome)]
  BY DEF Report
<1>2. root \in RootRows /\ cached \in [Root -> {"none", "failed", "completed"}]
  BY DEF Own, TypeOK, RootRows
<1>3. cached'[r] = outcome
  BY <1>1, <1>2 DEF Stored
<1>4. outcome # "nonterminal" /\ Holds(n, r)
  BY <1>1 DEF Caches, Finalized
<1>5. CASE root[r].status \in Terminal
  BY <1>1, <1>3, <1>4, <1>5 DEF Finalized
<1>6. CASE root[r].status \notin Terminal
  BY <1>1, <1>2, <1>3, <1>4, <1>6 DEF RootRows
<1> QED
  BY <1>5, <1>6

LEMMA CacheStep ==
  ASSUME Own, CacheAgrees, [Next]_vars
  PROVE  CacheAgrees'
<1> SUFFICES ASSUME NEW r \in Root, cached'[r] # "none"
             PROVE  root'[r].status = cached'[r]
  BY DEF CacheAgrees
<1>1. CASE cached'[r] = cached[r]
  <2>1. cached[r] \in Terminal /\ root[r].status = cached[r]
    BY <1>1 DEF CacheAgrees, Own, TypeOK, Terminal
  <2> QED
    BY <1>1, <2>1, EndsStay
<1>2. CASE cached'[r] # cached[r]
  <2>1. \E n \in Node, q \in Root : Report(n, q)
    BY <1>2 DEF vars, poolVars, Next, NodeStep, StartNode, LeaderStep, BecomeWorker, LeaderGone,
                BeginClose, Close, Die, Poll, Work, Loses, Leases, Begin, Conclude, Interrupts,
                AcquireRaises, InterruptRaises, CleanUp, ExpireRootLease, ExpireLeadership
  <2>2. PICK n \in Node, q \in Root : Report(n, q)
    BY <2>1
  <2>3. q = r
    <3>1. cached' = cached \/ \E v : cached' = [cached EXCEPT ![q] = v]
      BY <2>2 DEF Report
    <3> QED
      BY <1>2, <3>1 DEF Own, TypeOK
  <2> QED
    BY <1>2, <2>2, <2>3, ReportAgrees
<1> QED
  BY <1>1, <1>2

\* The cache never says of a root what its row does not, however late its writer is
\* (worker.py, _execute_and_report and _finalize_task; idempotency.py, store_result).
THEOREM CacheIsTrue == Spec => []CacheAgrees
<1>1. Init => CacheAgrees
  BY DEF Init, CacheAgrees
<1> QED
  BY <1>1, OwnInit, OwnStep, CacheStep, PTL DEF Spec
=============================================================================
