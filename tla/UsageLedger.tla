----------------------------- MODULE UsageLedger -----------------------------
(***************************************************************************)
(* Who pays for an invocation: a shared token account, one reservation per *)
(* invocation, and the usage events its consumption is reported in.        *)
(*                                                                         *)
(* An invocation is recorded, reserves its bound, runs, reports snapshots  *)
(* of what it consumed and is finished, each in a transaction of its own;  *)
(* recovery, a late executor and an operator with a provider's receipt may *)
(* come between any two of them.  A transaction locks the task and the     *)
(* invocation it writes, so an action is one whole transaction, and a      *)
(* refused report is one that leaves the rows as they were.                *)
(***************************************************************************)
EXTENDS Integers, FiniteSets, Functions

CONSTANTS
  Invocation,   \* physical invocations, each the id of its own reservation
  Task,
  TaskOf,       \* the task an invocation executes
  Leased,       \* tasks executed under a dispatch row or a worker lease
  Limit,        \* limits a scope may be configured with
  Amount,       \* token amounts that are reserved and reported
  NoUsage       \* an executor that reports no counters

ASSUME InvocationAssumption ==
  IsFiniteSet(Invocation) /\ TaskOf \in [Invocation -> Task] /\ Leased \subseteq Task
ASSUME AmountAssumption == Limit \subseteq Nat /\ Amount \subseteq Nat /\ NoUsage \notin Amount

VARIABLES
  account,      \* BudgetAccount: limit and the three columns that encumber it
  reservation,  \* BudgetReservation of each invocation
  inv,          \* ExecutionAttempt.status
  events,       \* UsageEvents of each invocation
  usage,        \* task.token_usage, the projection of the events
  client,       \* how far the executor of the invocation is
  recovered     \* tasks whose interrupted run recovery has closed

vars == <<account, reservation, inv, events, usage, client, recovered>>

NoReservation == [state |-> "none", held |-> 0, actual |-> 0]
Kind == {"partial", "final", "late", "reconcile"}

Account == [exists: BOOLEAN, limit: Nat, spent: Int, reserved: Int, unknown: Int]
Reservation == [state: {"none", "reserved", "unknown", "settled"},
                held: Amount \cup {0}, actual: Amount \cup {0}]

HeldBy(S) == SumFunctionOnSet([i \in S |-> reservation[i].held], S)

TypeOK ==
  /\ account \in Account
  /\ reservation \in [Invocation -> Reservation]
  /\ inv \in [Invocation -> {"none", "running", "ended", "unknown"}]
  /\ DOMAIN events = Invocation
  /\ \A i \in Invocation : \A e \in events[i] :
       e.kind \in Kind /\ e.reported \in Amount /\ e.evidence \in BOOLEAN
  /\ client \in [Invocation -> {"idle", "started", "refused", "executing", "gone"}]
  /\ recovered \subseteq Leased

Init ==
  /\ account = [exists |-> FALSE, limit |-> 0, spent |-> 0, reserved |-> 0, unknown |-> 0]
  /\ reservation = [i \in Invocation |-> NoReservation]
  /\ inv = [i \in Invocation |-> "none"]
  /\ events = [i \in Invocation |-> {}]
  /\ usage = [t \in Task |-> 0]
  /\ client = [i \in Invocation |-> "idle"]
  /\ recovered = {}

-----------------------------------------------------------------------------
(* The ledger.                                                              *)

Committed(a) == a.spent + a.reserved + a.unknown

\* Faulty variant: unknown liabilities are taken for free capacity.
HoldForgettingUnknown(tokens) ==
  /\ account.exists /\ account.spent + account.reserved + tokens <= account.limit
  /\ account' = [account EXCEPT !.reserved = @ + tokens]

\* _hold_tokens: one conditional UPDATE of the account.
HoldTokens(tokens) ==
  /\ account.exists /\ Committed(account) + tokens <= account.limit
  /\ account' = [account EXCEPT !.reserved = @ + tokens]

\* BudgetLedger.reserve: the reservation of an invocation and its hold, or neither.
ReserveTokens(i, tokens) ==
  /\ HoldTokens(tokens)
  /\ reservation' = [reservation EXCEPT ![i].state = "reserved", ![i].held = tokens]

\* Faulty variant: the charge replaces the hold whatever column it is in.
SettleFromReserved(i, tokens) ==
  /\ reservation[i].state \in {"reserved", "unknown"}
  /\ reservation' = [reservation EXCEPT ![i].state = "settled", ![i].actual = tokens]
  /\ account' = [account EXCEPT !.spent = @ + tokens, !.reserved = @ - reservation[i].held]

\* _transition_reservation to settled: from either state the hold moves to spent.
Settle(i, tokens) ==
  /\ reservation[i].state \in {"reserved", "unknown"}
  /\ reservation' = [reservation EXCEPT ![i].state = "settled", ![i].actual = tokens]
  /\ account' = IF reservation[i].state = "reserved"
                THEN [account EXCEPT !.spent = @ + tokens, !.reserved = @ - reservation[i].held]
                ELSE [account EXCEPT !.spent = @ + tokens, !.unknown = @ - reservation[i].held]

\* Faulty variant: the state of the reservation is not asked.
HoldWhatever(unsettled) ==
  LET open == {i \in unsettled : reservation[i].state # "none"}
  IN \E held \in 0 .. account.reserved :
       /\ held = HeldBy(open)
       /\ reservation' = [i \in Invocation |->
            IF i \in open THEN [reservation[i] EXCEPT !.state = "unknown"] ELSE reservation[i]]
       /\ account' = [account EXCEPT !.reserved = @ - held, !.unknown = @ + held]

\* _transition_reservation to unknown, and _hold_unknown_reservations: the hold of
\* every reservation still reserved becomes a liability.
Hold(unsettled) ==
  LET open == {i \in unsettled : reservation[i].state = "reserved"}
  IN \E held \in 0 .. account.reserved :
       /\ held = HeldBy(open)
       /\ reservation' = [i \in Invocation |->
            IF i \in open THEN [reservation[i] EXCEPT !.state = "unknown"] ELSE reservation[i]]
       /\ account' = [account EXCEPT !.reserved = @ - held, !.unknown = @ + held]

\* _correct_settlement: evidence changes what a settled reservation cost.
Correct(i, tokens) ==
  /\ reservation[i].state = "settled" /\ reservation[i].actual # tokens
  /\ reservation' = [reservation EXCEPT ![i].actual = tokens]
  /\ account' = [account EXCEPT !.spent = @ + tokens - reservation[i].actual]

\* What confirmed usage does to the reservation, if the invocation has one.
Charge(i, tokens) ==
  \/ Settle(i, tokens)
  \/ Correct(i, tokens)
  \/ /\ \/ reservation[i].state = "none"
        \/ reservation[i].state = "settled" /\ reservation[i].actual = tokens
     /\ UNCHANGED <<account, reservation>>

\* configure_scope creates the account once: a limit is never changed.
ConfigureScope ==
  /\ ~account.exists
  /\ \E limit \in Limit : account' = [account EXCEPT !.exists = TRUE, !.limit = limit]
  /\ UNCHANGED <<reservation, inv, events, usage, client, recovered>>

-----------------------------------------------------------------------------
(* Usage events.                                                            *)

Total(reports) == SumFunctionOnSet([e \in reports |-> e.delta], reports)
Reported(i, kind) == \E e \in events[i] : e.kind = kind
Evidenced(i) == \E e \in events[i] : e.evidence

\* increment_token_usage: one UPDATE of the task's counters, by what is added.
Increment(t, delta) == usage' = [usage EXCEPT ![t] = @ + delta]

\* Faulty variant: the task counts every snapshot in full.
AppendWhole(i, kind, n, evidence) ==
  /\ events' = [events EXCEPT ![i] = @ \cup
       {[kind |-> kind, reported |-> n, delta |-> n - Total(events[i]), evidence |-> evidence]}]
  /\ Increment(TaskOf[i], n)

\* _record and _append, in the lock of the invocation: a snapshot contributes what it
\* adds to the total; the task's counters move in the same transaction.
Append(i, kind, n, evidence) ==
  LET delta == n - Total(events[i])
  IN /\ events' = [events EXCEPT ![i] = @ \cup
          {[kind |-> kind, reported |-> n, delta |-> delta, evidence |-> evidence]}]
     /\ Increment(TaskOf[i], delta)

-----------------------------------------------------------------------------
(* The executor of an invocation.                                           *)

\* AttemptRecorder.start: the invocations of a task follow each other.  Nothing
\* asks whether the task was given up in the meantime.
Start(i) ==
  /\ client[i] = "idle"
  /\ \A j \in Invocation : TaskOf[j] = TaskOf[i] /\ j # i => client[j] \in {"idle", "gone"}
  /\ client' = [client EXCEPT ![i] = "started"]
  /\ inv' = [inv EXCEPT ![i] = "running"]
  /\ UNCHANGED <<account, reservation, events, usage, recovered>>

\* BudgetManager.execute_with_reservation reserves before the executor is called;
\* a scope without headroom, or an executor without a bound, is refused.
Reserve(i) ==
  /\ client[i] = "started"
  /\ \/ \E tokens \in Amount :
          /\ ReserveTokens(i, tokens)
          /\ client' = [client EXCEPT ![i] = "executing"]
     \/ client' = [client EXCEPT ![i] = "refused"] /\ UNCHANGED <<account, reservation>>
  /\ UNCHANGED <<inv, events, usage, recovered>>

\* record_partial: a cumulative report of a cancelled executor.  Repeated, it has
\* no effect; smaller than what was confirmed, or too late, it is refused.
RecordPartial(i) ==
  /\ client[i] = "executing" /\ inv[i] = "running"
  /\ \E n \in Amount :
       /\ ~\E e \in events[i] : e.kind = "partial" /\ e.reported = n
       /\ n >= Total(events[i])
       /\ Append(i, "partial", n, FALSE)
  /\ UNCHANGED <<account, reservation, inv, client, recovered>>

\* finish of a running invocation: final usage, settlement and status at once.
\* Without counters the reservation stays held as unknown.
FinishRunning(i, n) ==
  /\ inv[i] = "running"
  /\ \/ n # NoUsage /\ n >= Total(events[i])
        /\ Append(i, "final", n, FALSE)
        /\ \E total \in Amount : total = Total(events'[i]) /\ Charge(i, total)
     \/ n = NoUsage /\ Hold({i}) /\ UNCHANGED <<events, usage>>
  /\ \E status \in {"ended", "unknown"} : inv' = [inv EXCEPT ![i] = status]

\* Faulty variant: a late report settles whatever an operator confirmed.
LateOverrides(i, n) ==
  /\ inv[i] # "running" /\ n # NoUsage
  /\ n >= Total(events[i])
  /\ Append(i, "late", n, TRUE)
  /\ \E total \in Amount : total = Total(events'[i]) /\ Charge(i, total)
  /\ UNCHANGED inv

\* _record_late_usage: the invocation was recovered meanwhile; its counters are
\* evidence, unless there is evidence already.
FinishLate(i, n) ==
  /\ inv[i] # "running" /\ n # NoUsage
  /\ ~Evidenced(i) /\ n >= Total(events[i])
  /\ Append(i, "late", n, TRUE)
  /\ \E total \in Amount : total = Total(events'[i]) /\ Charge(i, total)
  /\ UNCHANGED inv

\* A finish that has nothing to say, or that is refused and rolled back.
FinishRefused(i, n) ==
  /\ \/ n = NoUsage /\ inv[i] # "running"
     \/ n # NoUsage /\ n < Total(events[i])
     \/ n # NoUsage /\ inv[i] # "running" /\ Evidenced(i)
  /\ UNCHANGED <<account, reservation, inv, events, usage>>

\* AttemptRecorder.finish, called once, whatever the invocation ended in.
Finish(i) ==
  /\ client[i] \in {"refused", "executing"}
  /\ \E n \in IF client[i] = "executing" THEN Amount \cup {NoUsage} ELSE {NoUsage} :
       FinishRunning(i, n) \/ FinishLate(i, n) \/ FinishRefused(i, n)
  /\ client' = [client EXCEPT ![i] = "gone"]
  /\ UNCHANGED recovered

Crash(i) ==
  /\ client[i] \notin {"idle", "gone"}
  /\ client' = [client EXCEPT ![i] = "gone"]
  /\ UNCHANGED <<account, reservation, inv, events, usage, recovered>>

-----------------------------------------------------------------------------
(* Recovery and reconciliation.                                             *)

OfTask(t) == {i \in Invocation : TaskOf[i] = t}

\* Faulty variant: recovery closes what no lease was lost for.
RecoverAny(t) ==
  /\ t \notin recovered
  /\ \E i \in OfTask(t) : inv[i] # "none"
  /\ recovered' = recovered \cup {t}
  /\ inv' = [i \in Invocation |->
       IF i \in OfTask(t) /\ inv[i] = "running" THEN "unknown" ELSE inv[i]]
  /\ Hold(OfTask(t))
  /\ UNCHANGED <<events, usage, client>>

\* An interrupted tree is closed as uncertain once, by the dispatcher's recovery or
\* by whoever removes the worker's lease.  A task executed by a request has neither.
Recover(t) ==
  /\ t \in Leased \ recovered
  /\ \E i \in OfTask(t) : inv[i] # "none"
  /\ recovered' = recovered \cup {t}
  /\ inv' = [i \in Invocation |->
       IF i \in OfTask(t) /\ inv[i] = "running" THEN "unknown" ELSE inv[i]]
  /\ Hold(OfTask(t))
  /\ UNCHANGED <<events, usage, client>>

\* budget.reconcile with a provider's receipt: the first receipt stands, and an
\* invocation recorded as running is refused.
OperatorReconcile(i) ==
  /\ reservation[i].state # "none" /\ inv[i] # "running"
  /\ ~Reported(i, "reconcile")
  /\ \E n \in Amount :
       /\ Append(i, "reconcile", n, TRUE)
       /\ \E total \in Amount : total = Total(events'[i]) /\ Charge(i, total)
  /\ UNCHANGED <<inv, client, recovered>>

Execute(i) == Start(i) \/ Reserve(i) \/ RecordPartial(i) \/ Finish(i) \/ Crash(i)

Next ==
  \/ ConfigureScope
  \/ \E i \in Invocation : Execute(i) \/ OperatorReconcile(i)
  \/ \E t \in Task : Recover(t)

Spec == Init /\ [][Next]_vars

-----------------------------------------------------------------------------
(* Properties.                                                              *)

InState(state) == {i \in Invocation : reservation[i].state = state}

\* The columns of the account are the sums of its reservations, whoever settled,
\* held or corrected them, in whatever order.
AccountBalances ==
  /\ account.reserved = HeldBy(InState("reserved"))
  /\ account.unknown = HeldBy(InState("unknown"))
  /\ LET charged == InState("settled")
     IN account.spent = SumFunctionOnSet([i \in charged |-> reservation[i].actual], charged)

\* What a settled reservation was charged is what its usage events add up to, and
\* what a task shows is what the events of its invocations add up to.
ChargedAsReported ==
  /\ \A i \in InState("settled") : reservation[i].actual = Total(events[i])
  /\ \A t \in Task :
       usage[t] = SumFunctionOnSet([i \in OfTask(t) |-> Total(events[i])], OfTask(t))

\* Commitments pass the limit only by consumption already incurred: a charge above
\* its reservation, or a correction of one.  Admission alone never does it, also
\* while liabilities are unknown.
NeverOverAdmitted ==
  Committed(account') > Committed(account) /\ Committed(account') > account'.limit =>
    \E i \in Invocation :
      /\ reservation'[i].state = "settled"
      /\ \/ reservation'[i].actual > reservation[i].held
         \/ reservation[i].state = "settled" /\ reservation'[i].actual > reservation[i].actual
HeadroomRespected == [][NeverOverAdmitted]_vars

\* A receipt an operator confirmed is final: no executor that comes back late
\* changes the charge or the counters.
KeepsReceipts ==
  \A i \in Invocation : Reported(i, "reconcile") =>
    /\ reservation'[i] = reservation[i]
    /\ events'[i] = events[i]
ReceiptIsFinal == [][KeepsReceipts]_vars

\* A reservation only advances, and what is held as unknown is released only with
\* new evidence of what was consumed, never by recovery, a crash or a retry.
Stage(state) == CASE state = "none" -> 0 [] state = "reserved" -> 1
                  [] state = "unknown" -> 2 [] state = "settled" -> 3
Advances ==
  \A i \in Invocation :
    /\ Stage(reservation[i].state) <= Stage(reservation'[i].state)
    /\ reservation[i].state # "none" => reservation'[i].held = reservation[i].held
    /\ reservation[i].state = "unknown" /\ reservation'[i].state = "settled" =>
         \E e \in events'[i] \ events[i] : e.evidence
ReservationsAdvance == [][Advances]_vars

-----------------------------------------------------------------------------
\* Why a receipt is final: usage is confirmed only once the invocation is over, and
\* an invocation that was confirmed keeps its evidence and its settlement.
ConfirmedOnceOver ==
  \A i \in Invocation :
    /\ client[i] = "idle" => inv[i] = "none"
    /\ client[i] \in {"idle", "started"} => reservation[i].state = "none" /\ events[i] = {}
    /\ inv[i] = "running" =>
         ~Reported(i, "reconcile") /\ reservation[i].state \in {"none", "reserved"}
    /\ Reported(i, "reconcile") => Evidenced(i) /\ reservation[i].state = "settled"

\* The inductive invariant behind ReceiptIsFinal and ReservationsAdvance.
AccountingInv == TypeOK /\ ConfirmedOnceOver

\* No order of reports, receipts, crashes and recoveries makes the account, the
\* charges, the events and the counters disagree (ledger.py; usage.py).
AccountsAddUp == AccountingInv /\ AccountBalances /\ ChargedAsReported

-----------------------------------------------------------------------------
(* What the documentation says and the code does not do.                    *)

\* What is held when its process is gone and no recovery will come can be settled
\* by an operator, who is refused while the invocation counts as running.
HeldCanBeReconciled ==
  \A i \in Invocation :
    /\ client[i] = "gone"
    /\ reservation[i].state = "reserved" /\ reservation[i].held > 0
    /\ TaskOf[i] \notin Leased
    => inv[i] # "running"
=============================================================================
