----------------------- MODULE RootExecution_proofs -----------------------
(* Proofs about RootExecution, for any tree, any processes, any bound.      *)
EXTENDS RootExecution, TLAPS

LEMMA SummaryType == Summary \in {"accepted"} \cup TerminalRun
BY DEF Summary, TerminalRun, Reconcile

LEMMA FinishType == FinishStatus \in TerminalRun
BY SummaryType DEF FinishStatus, TerminalRun, Reconcile

LEMMA EnsuredType ==
  ASSUME run \in RunStatus
  PROVE  EnsuredRun \in RunStatus \ {"none"}
BY SummaryType DEF EnsuredRun, RunStatus, TerminalRun, Reconcile

LEMMA ReconciledType ==
  ASSUME run \in RunStatus
  PROVE  ReconciledRun \in RunStatus \ {"none"}
BY SummaryType DEF ReconciledRun, RecoveredRun, RunStatus, TerminalRun, Reconcile

LEMMA ReconciledInvType ==
  ASSUME inv \in [Task -> InvStatus]
  PROVE  ReconciledInv \in [Task -> InvStatus]
BY DEF ReconciledInv, InvStatus

LEMMA FinishedType ==
  ASSUME run \in RunStatus, NEW status \in TerminalRun
  PROVE  Finished(status) \in RunStatus
BY DEF Finished, RunStatus

USE DEF NoToken, Token, Proc, Reconcile, TerminalRun, RunStatus, InvStatus,
        SettledDispatch, DispatchState, Place, Verdict, Outcome, TaskStatus,
        NoLease, Idle, NoPoll

LEMMA InitLease == Init => LeaseInv
<1>. SUFFICES ASSUME Init PROVE LeaseInv OBVIOUS
<1>. USE MaxTokenAssumption, TreeAssumption DEF Init
<1>1. TypeOK BY DEF TypeOK
<1>2. VerdictOK BY DEF VerdictOK
<1>3. TokensDrawn BY DEF TokensDrawn
<1>4. DispatchOwned /\ OneDurableOwner BY DEF DispatchOwned, OneDurableOwner
<1>. QED BY <1>1, <1>2, <1>3, <1>4 DEF LeaseInv

LEMMA AcceptLease == LeaseInv /\ Accept => LeaseInv'
<1>. SUFFICES ASSUME LeaseInv, Accept PROVE LeaseInv' OBVIOUS
<1>. USE DEF LeaseInv, Accept
<1>1. TypeOK' BY EnsuredType DEF TypeOK
<1>2. VerdictOK' BY DEF VerdictOK
<1>3. TokensDrawn' BY DEF TokensDrawn, TypeOK
<1>4. DispatchOwned' /\ OneDurableOwner' BY DEF DispatchOwned, OneDurableOwner, TypeOK
<1>. QED BY <1>1, <1>2, <1>3, <1>4

LEMMA RecoverReadLease == ASSUME NEW d \in Dispatcher PROVE LeaseInv /\ RecoverRead(d) => LeaseInv'
<1>. SUFFICES ASSUME LeaseInv, RecoverRead(d) PROVE LeaseInv' OBVIOUS
<1>. USE DEF LeaseInv, RecoverRead
<1>0. RecoveryVerdict \in {"accepted"} \cup SettledDispatch BY DEF RecoveryVerdict
<1>1. TypeOK' BY <1>0 DEF TypeOK
<1>2. VerdictOK' BY DEF VerdictOK
<1>3. TokensDrawn' BY DEF TokensDrawn, TypeOK, DispatchOwned
<1>4. DispatchOwned' /\ OneDurableOwner' BY DEF DispatchOwned, OneDurableOwner
<1>. QED BY <1>1, <1>2, <1>3, <1>4

LEMMA ClaimLease == ASSUME NEW d \in Dispatcher PROVE LeaseInv /\ Claim(d) => LeaseInv'
<1>. SUFFICES ASSUME LeaseInv, Claim(d) PROVE LeaseInv' OBVIOUS
<1>. USE MaxTokenAssumption DEF LeaseInv, Claim
<1>1. TypeOK' BY DEF TypeOK
<1>2. VerdictOK' BY DEF VerdictOK, TypeOK
<1>3. TokensDrawn' BY DEF TokensDrawn, TypeOK
<1>4. DispatchOwned' /\ OneDurableOwner' BY DEF DispatchOwned, OneDurableOwner, TypeOK
<1>. QED BY <1>1, <1>2, <1>3, <1>4

-----------------------------------------------------------------------------
(* Steps of one process, as far as its own memory is concerned.             *)

ProcOK ==
  /\ proc \in [Proc -> [at: Place, token: Token, verdict: Verdict]]
  /\ VerdictOK /\ TokensDrawn

\* A verdict a process may carry to a place.
Carries(p, place, verdict) ==
  /\ place \in {"finishing", "settling"} => verdict \in TerminalRun
  /\ place = "reporting" /\ p \in Dispatcher => verdict \in SettledDispatch
  /\ place = "reporting" /\ p \in Worker => verdict \in TerminalRun \cup {"raised", "refused"}

LEMMA GotoKeeps ==
  ASSUME LeaseInv, NEW p \in Proc, proc[p].at \notin {"idle", "found"},
         NEW place \in Place \ {"idle", "found"}, NEW verdict \in Verdict,
         Carries(p, place, verdict), Goto(p, place, verdict),
         UNCHANGED <<claimedBy, poll, nextToken>>, dispatch'.owner \in {dispatch.owner, NoToken}
  PROVE  ProcOK'
<1>. USE DEF LeaseInv, Goto
<1>1. proc' \in [Proc -> [at: Place, token: Token, verdict: Verdict]] BY DEF TypeOK
<1>2. VerdictOK' BY DEF VerdictOK, Carries, TypeOK
<1>3. TokensDrawn' BY DEF TokensDrawn, TypeOK
<1>. QED BY <1>1, <1>2, <1>3 DEF ProcOK

LEMMA LeaveKeeps ==
  ASSUME LeaseInv, NEW p \in Proc, Leave(p), UNCHANGED <<claimedBy, nextToken>>,
         \A d \in Dispatcher : poll'[d] \in {poll[d], NoPoll},
         dispatch'.owner \in {dispatch.owner, NoToken}
  PROVE  ProcOK'
<1>. USE DEF LeaseInv, Leave
<1>1. proc' \in [Proc -> [at: Place, token: Token, verdict: Verdict]]
  BY MaxTokenAssumption DEF TypeOK
<1>2. VerdictOK' BY DEF VerdictOK, TypeOK
<1>3. TokensDrawn' BY DEF TokensDrawn, TypeOK
<1>. QED BY <1>1, <1>2, <1>3 DEF ProcOK

LEMMA StayKeeps ==
  ASSUME LeaseInv, UNCHANGED <<proc, claimedBy, nextToken, poll>>,
         dispatch'.owner \in {dispatch.owner, NoToken}
  PROVE  ProcOK'
BY DEF LeaseInv, ProcOK, VerdictOK, TokensDrawn, TypeOK

LEMMA RaisedKeeps ==
  ASSUME LeaseInv, NEW p \in Proc, proc[p].at \notin {"idle", "found"}, Raised(p),
         UNCHANGED <<claimedBy, poll, nextToken, dispatch>>
  PROVE  ProcOK'
<1>1. CASE p \in Dispatcher /\ Goto(p, "reporting", Reconcile)
  BY <1>1, GotoKeeps, ProcessAssumption DEF Carries
<1>2. CASE p \in Worker /\ Goto(p, "reporting", "raised")
  BY <1>2, GotoKeeps, ProcessAssumption DEF Carries
<1>3. CASE p \in Local /\ Leave(p) BY <1>3, LeaveKeeps
<1>. QED BY <1>1, <1>2, <1>3 DEF Raised

LEMMA RefusedKeeps ==
  ASSUME LeaseInv, NEW p \in Proc, proc[p].at \notin {"idle", "found"}, Refused(p),
         UNCHANGED <<claimedBy, poll, nextToken, dispatch>>
  PROVE  ProcOK'
<1>1. CASE p \in Dispatcher /\ Goto(p, "checking", "none")
  BY <1>1, GotoKeeps, ProcessAssumption DEF Carries
<1>2. CASE p \in Worker /\ Goto(p, "reporting", "refused")
  BY <1>2, GotoKeeps, ProcessAssumption DEF Carries
<1>3. CASE p \in Local /\ Leave(p) BY <1>3, LeaveKeeps
<1>. QED BY <1>1, <1>2, <1>3 DEF Refused

\* The rows: what a step has to keep besides.
LEMMA RowsKeep ==
  ASSUME ProcOK',
         task' \in [Task -> [status: TaskStatus, cancel: BOOLEAN, unknown: BOOLEAN]],
         claimedBy' \in [Task -> Token], inv' \in [Task -> InvStatus],
         run' \in RunStatus, dispatch' \in [state: DispatchState, owner: Token, live: BOOLEAN],
         lease' \in [owner: Token, live: BOOLEAN],
         poll' \in [Dispatcher -> [token: Token, verdict: {"none", "accepted"} \cup SettledDispatch]],
         flight' \in [Task -> {"none", "claimed", "invoking"} \cup Outcome],
         nextToken' \in Token,
         DispatchOwned', OneDurableOwner'
  PROVE  LeaseInv'
BY DEF LeaseInv, TypeOK, ProcOK

-----------------------------------------------------------------------------
(* Every action keeps LeaseInv.                                             *)

LEMMA NoLeaseType == NoLease \in [owner: Token, live: BOOLEAN]
BY MaxTokenAssumption

LEMMA SetStatusType ==
  ASSUME TypeOK, NEW t \in Task, NEW status \in TaskStatus, SetStatus(t, status)
  PROVE  task' \in [Task -> [status: TaskStatus, cancel: BOOLEAN, unknown: BOOLEAN]]
BY DEF TypeOK, SetStatus

LEMMA RecoverCommitLease ==
  ASSUME LeaseInv, NEW d \in Dispatcher, RecoverCommit(d) PROVE LeaseInv'
<1>. USE MaxTokenAssumption DEF LeaseInv, RecoverCommit
<1>1. CASE dispatch.owner = poll[d].token /\ ~dispatch.live
  <2>1. poll[d].verdict \in {"accepted"} \cup SettledDispatch /\ dispatch' =
          [state |-> poll[d].verdict, owner |-> NoToken, live |-> FALSE]
    BY <1>1 DEF TypeOK
  <2>2. dispatch.state = "running" BY <1>1 DEF TokensDrawn, DispatchOwned
  <2>3. VerdictOK' BY DEF VerdictOK
  <2>4. TokensDrawn' BY <2>1 DEF TokensDrawn, TypeOK
  <2>5. ProcOK' BY <2>3, <2>4 DEF ProcOK, TypeOK
  <2>6. DispatchOwned' /\ OneDurableOwner' BY <2>1, <2>2 DEF DispatchOwned, OneDurableOwner
  <2>7. run' \in RunStatus BY <1>1, FinishedType DEF TypeOK
  <2>8. inv' \in [Task -> InvStatus] BY <1>1, ReconciledInvType DEF TypeOK
  <2>9. /\ dispatch' \in [state: DispatchState, owner: Token, live: BOOLEAN]
        /\ poll' \in [Dispatcher -> [token: Token,
                                     verdict: {"none", "accepted"} \cup SettledDispatch]]
    BY <2>1 DEF TypeOK
  <2>. QED BY <2>5, <2>6, <2>7, <2>8, <2>9, RowsKeep DEF TypeOK
<1>2. CASE ~(dispatch.owner = poll[d].token /\ ~dispatch.live)
  <2>1. UNCHANGED <<task, claimedBy, inv, run, dispatch, lease, proc, flight, nextToken>>
    BY <1>2
  <2>2. poll' = [poll EXCEPT ![d] = NoPoll] OBVIOUS
  <2>. HIDE DEF RecoverCommit
  <2>3. ProcOK' BY <2>1, <2>2 DEF ProcOK, VerdictOK, TokensDrawn, TypeOK
  <2>4. DispatchOwned' /\ OneDurableOwner' BY <2>1 DEF DispatchOwned, OneDurableOwner
  <2>. QED BY <2>1, <2>2, <2>3, <2>4, RowsKeep DEF TypeOK
<1>. QED BY <1>1, <1>2

LEMMA FindLease ==
  ASSUME LeaseInv, NEW w \in Worker, Find(w) PROVE LeaseInv'
<1>. USE ProcessAssumption DEF LeaseInv, Find
<1>1. TypeOK' BY DEF TypeOK
<1>2. VerdictOK' BY DEF VerdictOK, TypeOK
<1>3. TokensDrawn' BY DEF TokensDrawn, TypeOK
<1>4. DispatchOwned' /\ OneDurableOwner' BY DEF DispatchOwned, OneDurableOwner
<1>. QED BY <1>1, <1>2, <1>3, <1>4

LEMMA AcquireLease ==
  ASSUME LeaseInv, NEW w \in Worker, Acquire(w) PROVE LeaseInv'
<1>. USE MaxTokenAssumption DEF LeaseInv, Acquire
<1>0. /\ nextToken + 1 \in Token
      /\ run' \in RunStatus
      /\ inv' \in [Task -> InvStatus]
  BY ReconciledType, ReconciledInvType DEF TypeOK
<1>1. proc' \in [Proc -> [at: Place, token: Token, verdict: Verdict]] BY <1>0 DEF TypeOK
<1>2. VerdictOK' BY DEF VerdictOK, TypeOK
<1>3. TokensDrawn' BY DEF TokensDrawn, TypeOK
<1>4. DispatchOwned' /\ OneDurableOwner'
  BY DEF DispatchOwned, OneDurableOwner, AcquireRefused
<1>. QED BY <1>0, <1>1, <1>2, <1>3, <1>4, RowsKeep DEF TypeOK, ProcOK

LEMMA AcquireFailsLease ==
  ASSUME LeaseInv, NEW w \in Worker, AcquireFails(w) PROVE LeaseInv'
<1>. USE MaxTokenAssumption DEF LeaseInv
<1>0. /\ run' \in RunStatus
      /\ inv' \in [Task -> InvStatus]
      /\ UNCHANGED lease \/ lease' = NoLease
  BY ReconciledType, ReconciledInvType DEF TypeOK, AcquireFails
<1>1. /\ Leave(w)
      /\ UNCHANGED <<task, claimedBy, dispatch, poll, flight, nextToken>>
  BY DEF AcquireFails
<1>2. ProcOK' BY <1>1, LeaveKeeps
<1>3. DispatchOwned' /\ OneDurableOwner' BY <1>0, <1>1 DEF DispatchOwned, OneDurableOwner
<1>4. lease' \in [owner: Token, live: BOOLEAN] BY <1>0, NoLeaseType DEF TypeOK
<1>. QED BY <1>0, <1>1, <1>2, <1>3, <1>4, RowsKeep DEF TypeOK

LEMMA RequestLease ==
  ASSUME LeaseInv, NEW l \in Local, Request(l) PROVE LeaseInv'
<1>. USE MaxTokenAssumption DEF LeaseInv, Request
<1>1. TypeOK' BY DEF TypeOK
<1>2. VerdictOK' BY DEF VerdictOK, TypeOK
<1>3. TokensDrawn' BY DEF TokensDrawn, TypeOK
<1>4. DispatchOwned' /\ OneDurableOwner' BY DEF DispatchOwned, OneDurableOwner
<1>. QED BY <1>1, <1>2, <1>3, <1>4

\* Most steps touch no lease and no token but the memory of their process.
LEMMA OtherRowsKeep ==
  ASSUME LeaseInv, ProcOK', UNCHANGED <<claimedBy, dispatch, lease, poll, nextToken>>,
         task' \in [Task -> [status: TaskStatus, cancel: BOOLEAN, unknown: BOOLEAN]],
         inv' \in [Task -> InvStatus], run' \in RunStatus,
         flight' \in [Task -> {"none", "claimed", "invoking"} \cup Outcome]
  PROVE  LeaseInv'
<1>1. DispatchOwned' /\ OneDurableOwner' BY DEF LeaseInv, DispatchOwned, OneDurableOwner
<1>. QED BY <1>1, RowsKeep DEF LeaseInv, TypeOK

LEMMA StartRunLease ==
  ASSUME LeaseInv, NEW p \in Proc, proc[p].at \in {"entering", "admitted"}, StartRun(p)
  PROVE  LeaseInv'
<1>1. UNCHANGED <<task, claimedBy, inv, dispatch, lease, poll, flight, nextToken>>
  BY DEF StartRun
<1>2. run' \in RunStatus BY DEF StartRun, LeaseInv, TypeOK
<1>3. ProcOK'
  <2>1. CASE Raised(p) BY <1>1, <2>1, RaisedKeeps
  <2>2. CASE Goto(p, "executing", "none") BY <1>1, <2>2, GotoKeeps DEF Carries
  <2>. QED BY <2>1, <2>2 DEF StartRun
<1>. QED BY <1>1, <1>2, <1>3, OtherRowsKeep DEF LeaseInv, TypeOK

LEMMA EnterLease ==
  ASSUME LeaseInv, NEW p \in Proc, Enter(p) PROVE LeaseInv'
<1>1. CASE StartRun(p) BY <1>1, StartRunLease DEF Enter
<1>2. CASE ~StartRun(p)
  <2>1. UNCHANGED <<task, claimedBy, inv, dispatch, lease, poll, flight, nextToken>>
    BY <1>2 DEF Enter
  <2>2. run' \in RunStatus BY <1>2, EnsuredType DEF Enter, LeaseInv, TypeOK
  <2>3. CASE Refused(p)
    BY <2>1, <2>2, <2>3, RefusedKeeps, OtherRowsKeep DEF Enter, LeaseInv, TypeOK
  <2>4. CASE Goto(p, "admitted", "none")
    <3>1. ProcOK' BY <2>1, <2>4, GotoKeeps DEF Enter, Carries
    <3>. QED BY <2>1, <2>2, <3>1, OtherRowsKeep DEF LeaseInv, TypeOK
  <2>. QED BY <1>2, <2>3, <2>4 DEF Enter
<1>. QED BY <1>1, <1>2

LEMMA ClaimTaskLease ==
  ASSUME LeaseInv, NEW p \in Proc, NEW t \in Task, ClaimTask(p, t) PROVE LeaseInv'
<1>. USE DEF LeaseInv, ClaimTask, SetStatus, Land
<1>1. TypeOK' BY DEF TypeOK
<1>2. ProcOK' BY DEF ProcOK, VerdictOK, TokensDrawn, TypeOK
<1>3. DispatchOwned' /\ OneDurableOwner' BY DEF DispatchOwned, OneDurableOwner
<1>. QED BY <1>1, <1>2, <1>3 DEF ProcOK

LEMMA BeginInvocationLease ==
  ASSUME LeaseInv, NEW p \in Proc, NEW t \in Task, BeginInvocation(p, t) PROVE LeaseInv'
<1>1. ProcOK' BY StayKeeps DEF BeginInvocation
<1>. QED BY <1>1, OtherRowsKeep DEF LeaseInv, TypeOK, BeginInvocation, Land

LEMMA CancelClaimedLease ==
  ASSUME LeaseInv, NEW p \in Proc, NEW t \in Task, CancelClaimed(p, t) PROVE LeaseInv'
<1>1. ProcOK' BY StayKeeps DEF CancelClaimed
<1>2. task' \in [Task -> [status: TaskStatus, cancel: BOOLEAN, unknown: BOOLEAN]]
  BY SetStatusType DEF CancelClaimed, LeaseInv, TypeOK
<1>. QED BY <1>1, <1>2, OtherRowsKeep DEF LeaseInv, TypeOK, CancelClaimed, Land

LEMMA FailNodeType ==
  ASSUME TypeOK, NEW p, NEW t \in Task, NEW unknown \in BOOLEAN, FailNode(p, t, unknown)
  PROVE  task' \in [Task -> [status: TaskStatus, cancel: BOOLEAN, unknown: BOOLEAN]]
<1>1. CASE UNCHANGED task BY <1>1 DEF TypeOK
<1>2. CASE task' = [task EXCEPT ![t] = [status |-> "failed", cancel |-> FALSE,
                                        unknown |-> unknown]]
  BY <1>2 DEF TypeOK
<1>. QED BY <1>1, <1>2 DEF FailNode

LEMMA FailBeforeInvocationLease ==
  ASSUME LeaseInv, NEW p \in Proc, NEW t \in Task, FailBeforeInvocation(p, t) PROVE LeaseInv'
<1>1. ProcOK' BY StayKeeps DEF FailBeforeInvocation
<1>2. task' \in [Task -> [status: TaskStatus, cancel: BOOLEAN, unknown: BOOLEAN]]
  BY FailNodeType DEF LeaseInv, FailBeforeInvocation
<1>. QED BY <1>1, <1>2, OtherRowsKeep DEF LeaseInv, TypeOK, FailBeforeInvocation, Land

LEMMA FinishInvocationLease ==
  ASSUME LeaseInv, NEW p \in Proc, NEW t \in Task, FinishInvocation(p, t) PROVE LeaseInv'
<1>1. ProcOK' BY StayKeeps DEF FinishInvocation
<1>2. ASSUME NEW outcome \in Outcome PROVE Recordings(t, outcome) \subseteq InvStatus
  BY DEF Recordings
<1>3. inv' \in [Task -> InvStatus] BY <1>2 DEF FinishInvocation, LeaseInv, TypeOK
<1>4. PICK outcome \in Outcome : Land(t, outcome) BY DEF FinishInvocation
<1>5. flight' \in [Task -> {"none", "claimed", "invoking"} \cup Outcome]
  BY <1>4 DEF Land, LeaseInv, TypeOK
<1>6. UNCHANGED <<task, claimedBy, run, dispatch, lease, proc, poll, nextToken>>
  BY DEF FinishInvocation
<1>. QED BY <1>1, <1>3, <1>5, <1>6, OtherRowsKeep DEF LeaseInv, TypeOK

LEMMA RecordOutcomeLease ==
  ASSUME LeaseInv, NEW p \in Proc, NEW t \in Task, RecordOutcome(p, t) PROVE LeaseInv'
<1>1. ProcOK' BY StayKeeps DEF RecordOutcome
<1>2. task' \in [Task -> [status: TaskStatus, cancel: BOOLEAN, unknown: BOOLEAN]]
  <2>1. CASE FailNode(p, t, flight[t] = "unknown") BY <2>1, FailNodeType DEF LeaseInv
  <2>2. CASE SetStatus(t, "cancelled") BY <2>2, SetStatusType DEF LeaseInv
  <2>3. CASE SetStatus(t, "completed") BY <2>3, SetStatusType DEF LeaseInv
  <2>4. CASE UNCHANGED task BY <2>4 DEF LeaseInv, TypeOK
  <2>. QED BY <2>1, <2>2, <2>3, <2>4 DEF RecordOutcome
<1>. QED BY <1>1, <1>2, OtherRowsKeep DEF LeaseInv, TypeOK, RecordOutcome, Land

LEMMA CancelLease ==
  ASSUME LeaseInv, NEW t \in Task, Cancel(t) PROVE LeaseInv'
<1>1. ProcOK' BY StayKeeps DEF Cancel, RequestCancel, CancelPending, ConfirmStop
<1>2. task' \in [Task -> [status: TaskStatus, cancel: BOOLEAN, unknown: BOOLEAN]]
  <2>1. CASE RequestCancel(t)
    <3>1. task' = [task EXCEPT ![t].cancel = TRUE] BY <2>1 DEF RequestCancel
    <3>2. task[t] \in [status: TaskStatus, cancel: BOOLEAN, unknown: BOOLEAN]
      BY DEF LeaseInv, TypeOK
    <3>3. [task[t] EXCEPT !.cancel = TRUE]
            \in [status: TaskStatus, cancel: BOOLEAN, unknown: BOOLEAN]
      BY <3>2
    <3>. QED BY <3>1, <3>3, Zenon DEF LeaseInv, TypeOK
  <2>2. CASE SetStatus(t, "cancelled") BY <2>2, SetStatusType DEF LeaseInv
  <2>. QED BY <2>1, <2>2 DEF Cancel, CancelPending, ConfirmStop
<1>. QED BY <1>1, <1>2, OtherRowsKeep
     DEF LeaseInv, TypeOK, Cancel, RequestCancel, CancelPending, ConfirmStop

LEMMA ReadOutcomeLease ==
  ASSUME LeaseInv, NEW p \in Proc, ReadOutcome(p) PROVE LeaseInv'
<1>1. ProcOK' BY FinishType, GotoKeeps DEF ReadOutcome, Carries
<1>. QED BY <1>1, OtherRowsKeep DEF LeaseInv, TypeOK, ReadOutcome

LEMMA FinishWriteLease ==
  ASSUME LeaseInv, NEW p \in Proc, FinishWrite(p) PROVE LeaseInv'
<1>0. proc[p].at = "finishing" /\ proc[p].verdict \in TerminalRun
  BY DEF FinishWrite, LeaseInv, VerdictOK
<1>1. ProcOK'
  <2>1. CASE p \in Dispatcher BY <1>0, <2>1, GotoKeeps, ProcessAssumption DEF FinishWrite, Carries
  <2>2. CASE p \in Worker BY <1>0, <2>2, GotoKeeps, ProcessAssumption DEF FinishWrite, Carries
  <2>3. CASE p \in Local BY <2>3, LeaveKeeps, ProcessAssumption DEF FinishWrite
  <2>. QED BY <2>1, <2>2, <2>3
<1>2. run' \in RunStatus BY <1>0, FinishedType DEF FinishWrite, LeaseInv, TypeOK
<1>. QED BY <1>1, <1>2, OtherRowsKeep DEF LeaseInv, TypeOK, FinishWrite

LEMMA ExecutorErrorLease ==
  ASSUME LeaseInv, NEW p \in Proc, ExecutorError(p) PROVE LeaseInv'
<1>1. ProcOK' BY RaisedKeeps DEF ExecutorError
<1>2. run' \in RunStatus BY FinishedType DEF ExecutorError, LeaseInv, TypeOK
<1>. QED BY <1>1, <1>2, OtherRowsKeep DEF LeaseInv, TypeOK, ExecutorError

LEMMA CheckReadLease ==
  ASSUME LeaseInv, NEW d \in Proc, CheckRead(d) PROVE LeaseInv'
<1>1. ProcOK' BY FinishType, GotoKeeps DEF CheckRead, Carries
<1>. QED BY <1>1, OtherRowsKeep DEF LeaseInv, TypeOK, CheckRead

LEMMA CheckWriteLease ==
  ASSUME LeaseInv, NEW d \in Proc, CheckWrite(d) PROVE LeaseInv'
<1>0. proc[d].verdict \in TerminalRun BY DEF CheckWrite, LeaseInv, VerdictOK
<1>1. ProcOK' BY GotoKeeps, ProcessAssumption DEF CheckWrite, Carries
<1>2. run' \in RunStatus BY <1>0, FinishedType DEF CheckWrite, LeaseInv, TypeOK
<1>. QED BY <1>1, <1>2, OtherRowsKeep DEF LeaseInv, TypeOK, CheckWrite

LEMMA ReportDispatchLease ==
  ASSUME LeaseInv, NEW d \in Proc, ReportDispatch(d) PROVE LeaseInv'
<1>. USE MaxTokenAssumption
<1>1. proc[d].verdict \in SettledDispatch /\ proc[d].token # NoToken
  BY DEF ReportDispatch, LeaseInv, VerdictOK, TokensDrawn
<1>2. \/ UNCHANGED dispatch
      \/ /\ dispatch' = [state |-> proc[d].verdict, owner |-> NoToken, live |-> FALSE]
         /\ dispatch.state = "running"
  BY <1>1 DEF ReportDispatch, LeaseInv, DispatchOwned
<1>3. ProcOK' BY <1>2, LeaveKeeps DEF ReportDispatch
<1>4. dispatch' \in [state: DispatchState, owner: Token, live: BOOLEAN]
  <2>1. CASE UNCHANGED dispatch BY <2>1 DEF LeaseInv, TypeOK
  <2>2. CASE dispatch' = [state |-> proc[d].verdict, owner |-> NoToken, live |-> FALSE]
    BY <1>1, <2>2
  <2>. QED BY <1>2, <2>1, <2>2
<1>5. DispatchOwned' /\ OneDurableOwner'
  BY <1>1, <1>2 DEF LeaseInv, DispatchOwned, OneDurableOwner, ReportDispatch
<1>. QED BY <1>3, <1>4, <1>5, RowsKeep DEF LeaseInv, TypeOK, ReportDispatch

LEMMA FinalizeLease ==
  ASSUME LeaseInv, NEW w \in Proc, Finalize(w) PROVE LeaseInv'
<1>. USE MaxTokenAssumption, TreeAssumption
<1>1. proc[w].verdict \in {"completed", "failed", "cancelled", "raised"}
  BY DEF Finalize, LeaseInv, VerdictOK
<1>2. ProcOK' BY LeaveKeeps DEF Finalize
<1>3. task' \in [Task -> [status: TaskStatus, cancel: BOOLEAN, unknown: BOOLEAN]]
  BY <1>1 DEF Finalize, SetStatus, LeaseInv, TypeOK
<1>4. (UNCHANGED lease \/ lease' = NoLease) /\ UNCHANGED dispatch BY DEF Finalize
<1>5. lease' \in [owner: Token, live: BOOLEAN] BY <1>4, NoLeaseType DEF LeaseInv, TypeOK
<1>6. DispatchOwned' /\ OneDurableOwner' BY <1>4 DEF LeaseInv, DispatchOwned, OneDurableOwner
<1>. QED BY <1>2, <1>3, <1>5, <1>6, RowsKeep DEF LeaseInv, TypeOK, Finalize

LEMMA RecoverLeaseLease ==
  ASSUME LeaseInv, NEW w \in Proc, RecoverLease(w) PROVE LeaseInv'
<1>. USE MaxTokenAssumption
<1>1. ProcOK' BY LeaveKeeps DEF RecoverLease
<1>2. (UNCHANGED lease \/ lease' = NoLease) /\ UNCHANGED dispatch BY DEF RecoverLease
<1>3. lease' \in [owner: Token, live: BOOLEAN] BY <1>2, NoLeaseType DEF LeaseInv, TypeOK
<1>4. run' \in RunStatus /\ inv' \in [Task -> InvStatus]
  BY ReconciledType, ReconciledInvType DEF RecoverLease, LeaseInv, TypeOK
<1>5. DispatchOwned' /\ OneDurableOwner' BY <1>2 DEF LeaseInv, DispatchOwned, OneDurableOwner
<1>. QED BY <1>1, <1>3, <1>4, <1>5, RowsKeep DEF LeaseInv, TypeOK, RecoverLease

LEMMA InterruptType ==
  ASSUME TypeOK, NEW p \in Proc, Interrupt(p)
  PROVE  /\ task' \in [Task -> [status: TaskStatus, cancel: BOOLEAN, unknown: BOOLEAN]]
         /\ inv' \in [Task -> InvStatus]
         /\ flight' \in [Task -> {"none", "claimed", "invoking"} \cup Outcome]
<1>1. task' \in [Task -> [status: TaskStatus, cancel: BOOLEAN, unknown: BOOLEAN]]
  BY SMTT(30) DEF Interrupt, TypeOK
<1>2. inv' \in [Task -> InvStatus] BY DEF Interrupt, TypeOK
<1>3. flight' \in [Task -> {"none", "claimed", "invoking"} \cup Outcome] BY DEF Interrupt, TypeOK
<1>. QED BY <1>1, <1>2, <1>3

LEMMA LoseLeaseLease ==
  ASSUME LeaseInv, NEW p \in Proc, LoseLease(p) PROVE LeaseInv'
<1>1. ProcOK'
  <2>1. CASE p \in Dispatcher /\ Goto(p, "reporting", Reconcile)
    BY <2>1, GotoKeeps, ProcessAssumption DEF LoseLease, Walking, Carries
  <2>2. CASE p \in Worker /\ Goto(p, "reporting", "refused")
    BY <2>2, GotoKeeps, ProcessAssumption DEF LoseLease, Walking, Carries
  <2>3. CASE UNCHANGED proc BY <2>3, StayKeeps DEF LoseLease
  <2>. QED BY <2>1, <2>2, <2>3 DEF LoseLease
<1>. QED BY <1>1, InterruptType, OtherRowsKeep DEF LeaseInv, TypeOK, LoseLease

LEMMA ShutdownLease ==
  ASSUME LeaseInv, NEW p \in Proc, Shutdown(p) PROVE LeaseInv'
<1>1. ProcOK'
  <2>1. CASE Leave(p) BY <2>1, LeaveKeeps DEF Shutdown
  <2>2. CASE p \in Worker /\ Goto(p, "reporting", "refused")
    BY <2>2, GotoKeeps, ProcessAssumption DEF Shutdown, Walking, Carries
  <2>. QED BY <2>1, <2>2 DEF Shutdown
<1>. QED BY <1>1, InterruptType, OtherRowsKeep DEF LeaseInv, TypeOK, Shutdown

LEMMA CrashLease ==
  ASSUME LeaseInv, NEW p \in Proc, Crash(p) PROVE LeaseInv'
<1>. USE MaxTokenAssumption
<1>1. ProcOK' BY LeaveKeeps DEF Crash, LeaseInv, TypeOK
<1>2. DispatchOwned' /\ OneDurableOwner' BY DEF Crash, LeaseInv, DispatchOwned, OneDurableOwner
<1>3. /\ flight' \in [Task -> {"none", "claimed", "invoking"} \cup Outcome]
      /\ poll' \in [Dispatcher -> [token: Token,
                                   verdict: {"none", "accepted"} \cup SettledDispatch]]
  BY DEF Crash, LeaseInv, TypeOK
<1>. QED BY <1>1, <1>2, <1>3, RowsKeep DEF LeaseInv, TypeOK, Crash

LEMMA ExpiryLease ==
  ASSUME LeaseInv, ExpireDispatch \/ ExpireLease \/ CleanupExpiredLeases \/ CancelFinish
  PROVE  LeaseInv'
<1>. USE MaxTokenAssumption DEF LeaseInv
<1>1. CASE ExpireDispatch
  BY <1>1 DEF ExpireDispatch, TypeOK, VerdictOK, TokensDrawn, DispatchOwned, OneDurableOwner
<1>2. CASE ExpireLease
  BY <1>2 DEF ExpireLease, TypeOK, VerdictOK, TokensDrawn, DispatchOwned, OneDurableOwner
<1>3. CASE CleanupExpiredLeases
  BY <1>3, ReconciledType, ReconciledInvType
  DEF CleanupExpiredLeases, TypeOK, VerdictOK, TokensDrawn, DispatchOwned, OneDurableOwner
<1>4. CASE CancelFinish
  BY <1>4, FinishType, FinishedType
  DEF CancelFinish, TypeOK, VerdictOK, TokensDrawn, DispatchOwned, OneDurableOwner
<1>. QED BY <1>1, <1>2, <1>3, <1>4

LEMMA ProgressLease ==
  ASSUME LeaseInv, NEW p \in Proc, Progress(p) PROVE LeaseInv'
<1>1. ASSUME NEW t \in Task, RunNode(p, t) PROVE LeaseInv'
  BY <1>1, ClaimTaskLease, BeginInvocationLease, CancelClaimedLease,
     FailBeforeInvocationLease, FinishInvocationLease, RecordOutcomeLease DEF RunNode
<1>2. CASE Start(p) BY <1>2, StartRunLease DEF Start
<1>. QED BY <1>1, <1>2, EnterLease, ReadOutcomeLease, FinishWriteLease, CheckReadLease,
         CheckWriteLease, ReportDispatchLease, FinalizeLease, RecoverLeaseLease DEF Progress

LEMMA StopLease ==
  ASSUME LeaseInv, NEW p \in Proc, Stop(p) PROVE LeaseInv'
BY ExecutorErrorLease, LoseLeaseLease, ShutdownLease, CrashLease DEF Stop

LEMMA NextLease == LeaseInv /\ [Next]_vars => LeaseInv'
<1>. SUFFICES ASSUME LeaseInv, [Next]_vars PROVE LeaseInv' OBVIOUS
<1>1. CASE Accept BY <1>1, AcceptLease
<1>2. ASSUME NEW d \in Dispatcher, Poll(d) PROVE LeaseInv'
  BY <1>2, RecoverReadLease, RecoverCommitLease, ClaimLease DEF Poll
<1>3. ASSUME NEW w \in Worker, Take(w) PROVE LeaseInv'
  BY <1>3, FindLease, AcquireLease, AcquireFailsLease DEF Take
<1>4. CASE UNCHANGED vars
  BY <1>4 DEF vars, LeaseInv, TypeOK, VerdictOK, TokensDrawn, DispatchOwned, OneDurableOwner
<1>. QED BY <1>1, <1>2, <1>3, <1>4, RequestLease, ProgressLease, StopLease, CancelLease,
         ExpiryLease DEF Next

\* Type correctness, and everything the lease tables promise on their own.
THEOREM LeaseInvariant == Spec => []LeaseInv
BY InitLease, NextLease, PTL DEF Spec

\* A submitted root is never under a live worker lease: the two admission paths
\* exclude one another however many dispatchers, workers and requests there are.
THEOREM DurableOwnership == Spec => []OneDurableOwner
<1>1. LeaseInv => OneDurableOwner BY DEF LeaseInv
<1>. QED BY <1>1, LeaseInvariant, PTL

-----------------------------------------------------------------------------
(* One executor per tree.                                                   *)

OwnershipRest ==
  /\ SingleExecutor
  /\ NotYetClaiming /\ ClaimantOwns /\ StartedShows
  /\ LeasedRunStarted /\ ReportedIsClosed /\ PollIsCurrent

LEMMA RestUnaffected ==
  ASSUME OwnershipInv, UNCHANGED <<claimedBy, run, dispatch, lease, proc, poll>>
  PROVE  OwnershipRest'
BY DEF OwnershipInv, OwnershipRest, SingleExecutor, NotYetClaiming, ClaimantOwns, StartedShows,
       LeasedRunStarted, ReportedIsClosed, PollIsCurrent, Started

\* The status of a run that ended, and how recovery leaves a started one.
LEMMA FinishedStatus ==
  ASSUME run \in RunStatus, NEW status \in TerminalRun
  PROVE  /\ run \in TerminalRun => Finished(status) \in TerminalRun
         /\ run # "none" => Finished(status) \in TerminalRun
         /\ run = "none" => Finished(status) = "none"
BY DEF Finished

LEMMA ReconciledStatus ==
  ASSUME run \in RunStatus
  PROVE  /\ run \in TerminalRun => ReconciledRun \in TerminalRun
         /\ run # "none" /\ (\E t \in Task : Started(t)) => ReconciledRun \in TerminalRun
BY DEF ReconciledRun, RecoveredRun, TreeStarted

LEMMA StartedStays ==
  ASSUME UNCHANGED claimedBy PROVE \A t \in Task : Started(t)' <=> Started(t)
BY DEF Started

LEMMA AcceptRest ==
  ASSUME Local = {}, OwnershipInv, Accept PROVE OwnershipRest'
<1>. USE DEF OwnershipInv, LeaseInv, Accept
<1>1. SingleExecutor' BY DEF SingleExecutor, TypeOK, Started
<1>2. NotYetClaiming' BY DEF NotYetClaiming, TypeOK, Started
<1>3. ClaimantOwns' BY DEF ClaimantOwns, StartedShows, EnsuredRun, TypeOK, Started, DispatchOwned
<1>4. StartedShows' BY DEF StartedShows, TypeOK, Started
<1>5. LeasedRunStarted' BY DEF LeasedRunStarted, TypeOK, Started
<1>6. ReportedIsClosed' BY DEF ReportedIsClosed, TypeOK, Started
<1>7. PollIsCurrent' BY DEF PollIsCurrent, DispatchOwned, TokensDrawn, TypeOK
<1>. QED BY <1>1, <1>2, <1>3, <1>4, <1>5, <1>6, <1>7 DEF OwnershipRest

LEMMA RecoverReadRest ==
  ASSUME Local = {}, OwnershipInv, NEW d \in Dispatcher, RecoverRead(d) PROVE OwnershipRest'
<1>. USE DEF OwnershipInv, LeaseInv, RecoverRead
<1>1. SingleExecutor' BY DEF SingleExecutor, TypeOK, Started
<1>2. NotYetClaiming' BY DEF NotYetClaiming, TypeOK, Started
<1>3. ClaimantOwns' BY DEF ClaimantOwns, TypeOK, Started
<1>4. StartedShows' BY DEF StartedShows, TypeOK, Started
<1>5. LeasedRunStarted' BY DEF LeasedRunStarted, TypeOK, Started
<1>6. ReportedIsClosed' BY DEF ReportedIsClosed, TypeOK, Started
<1>7. PollIsCurrent' BY DEF PollIsCurrent, TypeOK, RecoveryVerdict, Started
<1>. QED BY <1>1, <1>2, <1>3, <1>4, <1>5, <1>6, <1>7 DEF OwnershipRest

LEMMA ClaimRest ==
  ASSUME Local = {}, OwnershipInv, NEW d \in Dispatcher, Claim(d) PROVE OwnershipRest'
<1>. USE ProcessAssumption, MaxTokenAssumption DEF OwnershipInv, LeaseInv, Claim
<1>1. SingleExecutor' BY DEF SingleExecutor, TypeOK, Started
<1>2. NotYetClaiming' BY DEF NotYetClaiming, TokensDrawn, TypeOK
<1>3. ClaimantOwns' BY DEF ClaimantOwns, TypeOK, Started
<1>4. StartedShows' BY DEF StartedShows, TypeOK, Started
<1>5. LeasedRunStarted' BY DEF LeasedRunStarted, TypeOK, Started
<1>6. ReportedIsClosed' BY DEF ReportedIsClosed, TypeOK, Started
<1>7. PollIsCurrent' BY DEF PollIsCurrent, TokensDrawn, TypeOK
<1>. QED BY <1>1, <1>2, <1>3, <1>4, <1>5, <1>6, <1>7 DEF OwnershipRest

LEMMA RecoverCommitRest ==
  ASSUME Local = {}, OwnershipInv, NEW d \in Dispatcher, RecoverCommit(d) PROVE OwnershipRest'
<1>. USE DEF OwnershipInv, LeaseInv, RecoverCommit
<1>. USE DEF TokensDrawn, DispatchOwned
<1>0. (dispatch' = dispatch /\ run' = run) \/ dispatch'.state \in {"accepted"} \cup SettledDispatch
  BY DEF TypeOK
<1>1. SingleExecutor' BY DEF SingleExecutor, TypeOK, Started
<1>2. NotYetClaiming' BY DEF NotYetClaiming, TypeOK, Started
<1>3. ClaimantOwns' BY FinishedStatus DEF ClaimantOwns, PollIsCurrent, TypeOK, Started
<1>4. StartedShows' BY <1>0 DEF StartedShows, TypeOK, Started
<1>5. LeasedRunStarted' BY <1>0 DEF LeasedRunStarted, TypeOK
<1>6. ReportedIsClosed' BY <1>0 DEF ReportedIsClosed, TypeOK, Started
<1>7. PollIsCurrent' BY DEF PollIsCurrent, TypeOK, Started
<1>. QED BY <1>1, <1>2, <1>3, <1>4, <1>5, <1>6, <1>7 DEF OwnershipRest

LEMMA FindRest ==
  ASSUME Local = {}, OwnershipInv, NEW w \in Worker, Find(w) PROVE OwnershipRest'
<1>. USE ProcessAssumption DEF OwnershipInv, LeaseInv, Find
<1>1. SingleExecutor' BY DEF SingleExecutor, TypeOK, Started
<1>2. NotYetClaiming' BY DEF NotYetClaiming, TypeOK, Started
<1>3. ClaimantOwns' BY DEF ClaimantOwns, TypeOK, Started
<1>4. StartedShows' BY DEF StartedShows, TypeOK, Started
<1>5. LeasedRunStarted' BY DEF LeasedRunStarted, TypeOK, Started
<1>6. ReportedIsClosed' BY DEF ReportedIsClosed, TypeOK, Started
<1>7. PollIsCurrent' BY DEF PollIsCurrent, TypeOK, Started
<1>. QED BY <1>1, <1>2, <1>3, <1>4, <1>5, <1>6, <1>7 DEF OwnershipRest

LEMMA AcquireRest ==
  ASSUME Local = {}, OwnershipInv, NEW w \in Worker, Acquire(w) PROVE OwnershipRest'
<1>. USE ProcessAssumption, MaxTokenAssumption DEF OwnershipInv, LeaseInv, Acquire
<1>0. dispatch.state = "none" /\ \A t \in Task : ~Started(t) BY DEF AcquireRefused, StartedShows
<1>. USE DEF TokensDrawn
<1>1. SingleExecutor' BY DEF SingleExecutor, TypeOK, Started
<1>2. NotYetClaiming' BY DEF NotYetClaiming, TypeOK, Started
<1>3. ClaimantOwns' BY <1>0 DEF ClaimantOwns, Started
<1>4. StartedShows' BY <1>0 DEF StartedShows, Started
<1>5. LeasedRunStarted' BY DEF LeasedRunStarted, TypeOK, Started
<1>6. ReportedIsClosed' BY <1>0 DEF ReportedIsClosed, TypeOK, Started
<1>7. PollIsCurrent' BY DEF PollIsCurrent, TypeOK, Started
<1>. QED BY <1>1, <1>2, <1>3, <1>4, <1>5, <1>6, <1>7 DEF OwnershipRest

LEMMA AcquireFailsRest ==
  ASSUME Local = {}, OwnershipInv, NEW w \in Worker, AcquireFails(w) PROVE OwnershipRest'
<1>. USE DEF OwnershipInv, LeaseInv, AcquireFails, Leave
<1>0. \/ UNCHANGED <<run, lease>>
      \/ lease' = NoLease /\ \A t \in Task : ~Started(t)
  BY DEF StartedShows
<1>1. SingleExecutor' BY DEF SingleExecutor, TypeOK, Started
<1>2. NotYetClaiming' BY DEF NotYetClaiming, TypeOK, Started
<1>3. ClaimantOwns' BY <1>0 DEF ClaimantOwns, Started
<1>4. StartedShows' BY <1>0 DEF StartedShows, Started
<1>5. LeasedRunStarted' BY <1>0 DEF LeasedRunStarted, TypeOK, TokensDrawn
<1>6. ReportedIsClosed' BY <1>0 DEF ReportedIsClosed, TypeOK, Started
<1>7. PollIsCurrent' BY DEF PollIsCurrent, TypeOK, Started
<1>. QED BY <1>1, <1>2, <1>3, <1>4, <1>5, <1>6, <1>7 DEF OwnershipRest

\* With no request around, a refusal and an error are reports like any other.
LEMMA RefusedGoto ==
  ASSUME Local = {}, NEW p \in Proc, Refused(p)
  PROVE  \E place \in {"checking", "reporting"}, verdict \in {"none", "refused"} :
           Goto(p, place, verdict) /\ (p \in Worker => verdict = "refused")
BY ProcessAssumption DEF Refused

LEMMA RaisedGoto ==
  ASSUME Local = {}, NEW p \in Proc, Raised(p)
  PROVE  \E verdict \in {Reconcile, "raised"} : Goto(p, "reporting", verdict)
BY ProcessAssumption DEF Raised

\* A report leaves alone what the invariant says of processes that go on.
LEMMA ReportKeeps ==
  ASSUME OwnershipInv, NEW p \in Proc, proc[p].at \notin {"idle", "found"},
         NEW place \in {"checking", "reporting"}, NEW verdict, Goto(p, place, verdict),
         UNCHANGED <<claimedBy, dispatch, lease, poll>>, run' \in TerminalRun \/ run' = run
  PROVE  NotYetClaiming' /\ LeasedRunStarted'
<1>1. NotYetClaiming' BY DEF OwnershipInv, LeaseInv, NotYetClaiming, TypeOK, Goto
<1>2. LeasedRunStarted' BY DEF OwnershipInv, LeaseInv, LeasedRunStarted, TypeOK, Goto
<1>. QED BY <1>1, <1>2

LEMMA StartRunRest ==
  ASSUME Local = {}, OwnershipInv, NEW p \in Proc, proc[p].at \in {"entering", "admitted"},
         StartRun(p)
  PROVE  OwnershipRest'
<1>. USE DEF OwnershipInv, LeaseInv
<1>0. UNCHANGED <<claimedBy, dispatch, lease, poll>> BY DEF StartRun
<1>1. run' # run => run = "accepted" /\ run' \in {"running", Reconcile} BY DEF StartRun
<1>2. \/ Goto(p, "executing", "none") /\ run' = "running"
      \/ \E verdict \in {Reconcile, "raised"} : Goto(p, "reporting", verdict)
  BY RaisedGoto DEF StartRun
<1>3. SingleExecutor' /\ ClaimantOwns' /\ StartedShows' /\ PollIsCurrent'
  BY <1>0, <1>1 DEF SingleExecutor, ClaimantOwns, StartedShows, PollIsCurrent, Started
<1>4. NotYetClaiming' BY <1>0, <1>2 DEF NotYetClaiming, TypeOK, Goto
<1>5. LeasedRunStarted' BY <1>0, <1>1, <1>2 DEF LeasedRunStarted, TypeOK, Goto
<1>6. ReportedIsClosed'
  <2>. SUFFICES ASSUME NEW w \in Worker, NEW t \in Task, Started(t),
                       proc'[w].at = "reporting", proc'[w].verdict \notin {"refused", Reconcile},
                       lease = [owner |-> proc'[w].token, live |-> TRUE], dispatch.state = "none"
                PROVE  run' \in TerminalRun
    BY <1>0 DEF ReportedIsClosed, Started
  <2>0. PICK place, verdict : Goto(p, place, verdict) BY <1>2
  <2>1. proc'[w].token = proc[w].token BY <2>0 DEF Goto, TypeOK
  <2>2. CASE w = p
    <3>1. claimedBy[t] # lease.owner BY <2>1, <2>2 DEF NotYetClaiming
    <3>. QED BY <1>1, <3>1 DEF ClaimantOwns
  <2>3. CASE w # p
    <3>1. proc'[w] = proc[w] BY <1>2, <2>3 DEF Goto, TypeOK
    <3>. QED BY <1>1, <3>1 DEF ReportedIsClosed
  <2>. QED BY <2>2, <2>3
<1>. QED BY <1>3, <1>4, <1>5, <1>6 DEF OwnershipRest

LEMMA EnterRest ==
  ASSUME Local = {}, OwnershipInv, NEW p \in Proc, Enter(p) PROVE OwnershipRest'
<1>1. CASE Refused(p) /\ UNCHANGED run
  <2>. USE <1>1, ProcessAssumption DEF OwnershipInv, LeaseInv
  <2>0. UNCHANGED <<claimedBy, dispatch, lease, poll>> /\ proc[p].at = "entering"
    BY DEF Enter, StartRun
  <2>1. SingleExecutor' /\ ClaimantOwns' /\ StartedShows' /\ PollIsCurrent'
    BY <2>0 DEF SingleExecutor, ClaimantOwns, StartedShows, PollIsCurrent, Started
  <2>2. PICK place \in {"checking", "reporting"}, verdict \in {"none", "refused"} :
          Goto(p, place, verdict) /\ (p \in Worker => verdict = "refused")
    BY RefusedGoto
  <2>3. NotYetClaiming' /\ LeasedRunStarted' BY <2>0, <2>2, ReportKeeps
  <2>4. ReportedIsClosed' BY <2>0, <2>2 DEF ReportedIsClosed, TypeOK, Started, Goto
  <2>. QED BY <2>1, <2>3, <2>4 DEF OwnershipRest
<1>2. CASE run' = EnsuredRun /\ Goto(p, "admitted", "none")
  <2>. USE <1>2, ProcessAssumption DEF OwnershipInv, LeaseInv, Enter, Goto
  <2>0. UNCHANGED <<claimedBy, dispatch, lease, poll>> BY DEF StartRun
  <2>1. run' \in RunStatus \ {"none"} /\ (run # "none" => run' = run)
    BY EnsuredType DEF EnsuredRun, TypeOK
  <2>5. proc[p].at = "entering" OBVIOUS
  <2>. HIDE DEF Enter
  <2>2. SingleExecutor' /\ ClaimantOwns' /\ StartedShows' /\ PollIsCurrent'
    BY <2>0, <2>1 DEF SingleExecutor, ClaimantOwns, StartedShows, PollIsCurrent, Started
  <2>3. NotYetClaiming' BY <2>0, <2>5 DEF NotYetClaiming, TypeOK
  <2>4. LeasedRunStarted' /\ ReportedIsClosed'
    BY <2>0, <2>1 DEF LeasedRunStarted, ReportedIsClosed, TypeOK, Started
  <2>. QED BY <2>2, <2>3, <2>4 DEF OwnershipRest
<1>. QED BY <1>1, <1>2 DEF Enter

LEMMA ClaimTaskRest ==
  ASSUME Local = {}, OwnershipInv, NEW p \in Proc, NEW s \in Task, ClaimTask(p, s) PROVE OwnershipRest'
<1>. USE ProcessAssumption DEF OwnershipInv, LeaseInv, ClaimTask, Claimable, Fence, BusinessOpen
<1>0. /\ claimedBy' = [claimedBy EXCEPT ![s] = proc[p].token]
      /\ UNCHANGED <<run, dispatch, lease, proc, poll>>
      /\ proc[p].token # NoToken
      /\ run \notin TerminalRun
      /\ proc[p].at = "executing"
  BY DEF TokensDrawn
<1>8. \A t \in Task : Started(t) => claimedBy[t] = proc[p].token
  BY DEF ClaimantOwns
<1>9. \A t \in Task : Started(t)' => claimedBy'[t] = proc[p].token
  BY <1>0, <1>8 DEF Started, TypeOK
<1>1. SingleExecutor' BY <1>9 DEF SingleExecutor
<1>2. NotYetClaiming' BY <1>0 DEF NotYetClaiming, TokensDrawn, TypeOK
<1>3. ClaimantOwns' BY <1>0, <1>9 DEF ClaimantOwns
<1>4. StartedShows' BY <1>0 DEF StartedShows, LeasedRunStarted
<1>5. LeasedRunStarted' BY <1>0 DEF LeasedRunStarted
<1>6. ReportedIsClosed' BY <1>0 DEF ReportedIsClosed, TokensDrawn
<1>7. PollIsCurrent' BY <1>0 DEF PollIsCurrent, DispatchOwned, TokensDrawn, TypeOK
<1>. QED BY <1>1, <1>2, <1>3, <1>4, <1>5, <1>6, <1>7 DEF OwnershipRest

LEMMA ReadOutcomeRest ==
  ASSUME Local = {}, OwnershipInv, NEW p \in Proc, ReadOutcome(p) PROVE OwnershipRest'
<1>. USE ProcessAssumption DEF OwnershipInv, LeaseInv, ReadOutcome, Goto
<1>1. SingleExecutor' BY DEF SingleExecutor, TypeOK, Started
<1>2. NotYetClaiming' BY DEF NotYetClaiming, TypeOK, Started
<1>3. ClaimantOwns' BY DEF ClaimantOwns, TypeOK, Started
<1>4. StartedShows' BY DEF StartedShows, TypeOK, Started
<1>5. LeasedRunStarted' BY DEF LeasedRunStarted, TypeOK, Started
<1>6. ReportedIsClosed' BY DEF ReportedIsClosed, TypeOK, Started
<1>7. PollIsCurrent' BY DEF PollIsCurrent, TypeOK, Started
<1>. QED BY <1>1, <1>2, <1>3, <1>4, <1>5, <1>6, <1>7 DEF OwnershipRest

LEMMA CheckReadRest ==
  ASSUME Local = {}, OwnershipInv, NEW p \in Proc, CheckRead(p) PROVE OwnershipRest'
<1>. USE ProcessAssumption DEF OwnershipInv, LeaseInv, CheckRead, Goto
<1>1. SingleExecutor' BY DEF SingleExecutor, TypeOK, Started
<1>2. NotYetClaiming' BY DEF NotYetClaiming, TypeOK, Started
<1>3. ClaimantOwns' BY DEF ClaimantOwns, TypeOK, Started
<1>4. StartedShows' BY DEF StartedShows, TypeOK, Started
<1>5. LeasedRunStarted' BY DEF LeasedRunStarted, TypeOK, Started
<1>6. ReportedIsClosed' BY DEF ReportedIsClosed, TypeOK, Started
<1>7. PollIsCurrent' BY DEF PollIsCurrent, TypeOK, Started
<1>. QED BY <1>1, <1>2, <1>3, <1>4, <1>5, <1>6, <1>7 DEF OwnershipRest

LEMMA FinishWriteRest ==
  ASSUME Local = {}, OwnershipInv, NEW p \in Proc, FinishWrite(p) PROVE OwnershipRest'
<1>. USE ProcessAssumption DEF OwnershipInv, LeaseInv, FinishWrite, Goto
<1>0. /\ proc[p].verdict \in TerminalRun
      /\ run \in TerminalRun => run' \in TerminalRun
      /\ run' \in TerminalRun \/ run' = run
      /\ Owns(p) /\ run # "none" => run' \in TerminalRun
  BY FinishedStatus DEF VerdictOK, TypeOK
<1>8. p \in Worker => /\ proc[p].at = "finishing"
                     /\ proc' = [proc EXCEPT ![p] = [at |-> "reporting", token |-> proc[p].token,
                                                     verdict |-> proc[p].verdict]]
  OBVIOUS
<1>9. UNCHANGED <<claimedBy, dispatch, lease, poll>> OBVIOUS
<1>1. SingleExecutor' /\ PollIsCurrent' BY DEF SingleExecutor, PollIsCurrent, Started
<1>2. NotYetClaiming' BY SMTT(30) DEF NotYetClaiming, TypeOK
<1>3. ClaimantOwns' /\ StartedShows' BY <1>0 DEF ClaimantOwns, StartedShows, Started
<1>10. \A w \in Worker : proc'[w].at \in {"executing", "finishing"} => w # p
  BY DEF TypeOK
<1>11. \A w \in Worker \ {p} : proc'[w] = proc[w] BY DEF TypeOK, Leave
<1>. HIDE DEF FinishWrite
<1>4. LeasedRunStarted' BY <1>0, <1>9, <1>10, <1>11 DEF LeasedRunStarted, TerminalRun, Reconcile
<1>5. ReportedIsClosed'
  <2>. SUFFICES ASSUME NEW w \in Worker, NEW t \in Task, Started(t),
                       proc'[w].at = "reporting", proc'[w].verdict \notin {"refused", Reconcile},
                       lease = [owner |-> proc'[w].token, live |-> TRUE], dispatch.state = "none"
                PROVE  run' \in TerminalRun
    BY <1>9 DEF ReportedIsClosed, Started
  <2>1. CASE w = p
    <3>1. proc'[p].token = proc[p].token /\ proc[p].at = "finishing" BY <1>8, <2>1 DEF TypeOK
    <3>2. Owns(p) BY <2>1, <3>1 DEF Owns
    <3>3. run # "none" BY <2>1, <3>1 DEF LeasedRunStarted
    <3>. QED BY <1>0, <3>2, <3>3
  <2>2. CASE w # p
    <3>1. proc'[w] = proc[w] BY <2>2 DEF FinishWrite, Goto, TypeOK
    <3>. QED BY <1>0, <3>1 DEF ReportedIsClosed
  <2>. QED BY <2>1, <2>2
<1>. QED BY <1>1, <1>2, <1>3, <1>4, <1>5 DEF OwnershipRest

LEMMA CheckWriteRest ==
  ASSUME Local = {}, OwnershipInv, NEW p \in Proc, CheckWrite(p) PROVE OwnershipRest'
<1>. USE ProcessAssumption DEF OwnershipInv, LeaseInv, CheckWrite, Goto
<1>0. /\ run \in TerminalRun => run' \in TerminalRun
      /\ run' \in TerminalRun \/ run' = run
  BY FinishedStatus DEF VerdictOK, TypeOK
<1>1. SingleExecutor' BY DEF SingleExecutor, TypeOK, Started
<1>2. NotYetClaiming' BY DEF NotYetClaiming, TypeOK, Started
<1>3. ClaimantOwns' BY <1>0 DEF ClaimantOwns, Started
<1>4. StartedShows' BY <1>0 DEF StartedShows, Started
<1>5. LeasedRunStarted' BY <1>0 DEF LeasedRunStarted, TypeOK
<1>6. ReportedIsClosed' BY <1>0 DEF ReportedIsClosed, TypeOK, Started
<1>7. PollIsCurrent' BY DEF PollIsCurrent, TypeOK, Started
<1>. QED BY <1>1, <1>2, <1>3, <1>4, <1>5, <1>6, <1>7 DEF OwnershipRest

LEMMA ExecutorErrorRest ==
  ASSUME Local = {}, OwnershipInv, NEW p \in Proc, ExecutorError(p) PROVE OwnershipRest'
<1>. USE DEF OwnershipInv, LeaseInv
<1>0. /\ run \in TerminalRun => run' \in TerminalRun
      /\ run' \in TerminalRun \/ run' = run
      /\ Owns(p) /\ run # "none" => run' \in TerminalRun
  BY FinishedStatus DEF ExecutorError, TypeOK
<1>1. UNCHANGED <<claimedBy, dispatch, lease, poll>> /\ proc[p].at = "executing"
  BY DEF ExecutorError
<1>2. PICK verdict \in {Reconcile, "raised"} : Goto(p, "reporting", verdict)
  BY RaisedGoto DEF ExecutorError
<1>3. SingleExecutor' /\ PollIsCurrent' BY <1>1 DEF SingleExecutor, PollIsCurrent, Started
<1>4. ClaimantOwns' /\ StartedShows' BY <1>0, <1>1 DEF ClaimantOwns, StartedShows, Started
<1>5. NotYetClaiming' /\ LeasedRunStarted' BY <1>0, <1>1, <1>2, ReportKeeps
<1>6. ReportedIsClosed'
  <2>. SUFFICES ASSUME NEW w \in Worker, NEW t \in Task, Started(t),
                       proc'[w].at = "reporting", proc'[w].verdict \notin {"refused", Reconcile},
                       lease = [owner |-> proc'[w].token, live |-> TRUE], dispatch.state = "none"
                PROVE  run' \in TerminalRun
    BY <1>1 DEF ReportedIsClosed, Started
  <2>1. CASE w = p BY <1>0, <1>1, <1>2, <2>1 DEF LeasedRunStarted, Owns, TypeOK, Goto
  <2>2. CASE w # p
    <3>1. proc'[w] = proc[w] BY <1>2, <2>2 DEF Goto, TypeOK
    <3>. QED BY <1>0, <3>1 DEF ReportedIsClosed
  <2>. QED BY <2>1, <2>2
<1>. QED BY <1>3, <1>4, <1>5, <1>6 DEF OwnershipRest

LEMMA ReportDispatchRest ==
  ASSUME Local = {}, OwnershipInv, NEW p \in Proc, ReportDispatch(p) PROVE OwnershipRest'
<1>1. /\ UNCHANGED <<claimedBy, run, lease, poll>> /\ Leave(p)
      /\ p \in Dispatcher /\ proc[p].at = "reporting"
      /\ dispatch' = IF dispatch.owner = proc[p].token
                     THEN [state |-> proc[p].verdict, owner |-> NoToken, live |-> FALSE]
                     ELSE dispatch
  BY DEF ReportDispatch
<1>2. proc[p].verdict \in SettledDispatch /\ proc[p].token # NoToken
  BY <1>1 DEF OwnershipInv, LeaseInv, VerdictOK, TokensDrawn
<1>3. \/ dispatch' = dispatch
      \/ /\ dispatch.state = "running" /\ dispatch'.state \in SettledDispatch
         /\ dispatch'.owner = NoToken
  BY <1>1, <1>2 DEF OwnershipInv, LeaseInv, DispatchOwned
<1>. USE <1>1, <1>3 DEF OwnershipInv, LeaseInv, Leave
<1>4. SingleExecutor' BY DEF SingleExecutor, Started
<1>5. NotYetClaiming' BY DEF NotYetClaiming, TypeOK
<1>6. ClaimantOwns' BY DEF ClaimantOwns, Started
<1>7. StartedShows' BY DEF StartedShows, Started, SettledDispatch, Reconcile
<1>8. LeasedRunStarted' BY DEF LeasedRunStarted, TypeOK, SettledDispatch, Reconcile
<1>9. ReportedIsClosed' BY DEF ReportedIsClosed, TypeOK, Started, SettledDispatch, Reconcile
<1>10. PollIsCurrent' BY DEF PollIsCurrent, TokensDrawn, NoPoll, Started
<1>. QED BY <1>4, <1>5, <1>6, <1>7, <1>8, <1>9, <1>10 DEF OwnershipRest

LEMMA FinalizeRest ==
  ASSUME Local = {}, OwnershipInv, NEW p \in Proc, Finalize(p) PROVE OwnershipRest'
<1>. USE ProcessAssumption DEF OwnershipInv, LeaseInv
<1>0. UNCHANGED <<claimedBy, run, dispatch, poll>> /\ Leave(p) /\ p \in Worker
  BY DEF Finalize
<1>1. \/ UNCHANGED lease
      \/ lease' = NoLease /\ (run \in TerminalRun \/ \A t \in Task : ~Started(t))
  BY DEF Finalize, ReportedIsClosed
<1>2. SingleExecutor' /\ StartedShows' /\ PollIsCurrent'
  BY <1>0 DEF SingleExecutor, StartedShows, PollIsCurrent, Started
<1>3. NotYetClaiming' BY <1>0 DEF NotYetClaiming, TypeOK, Leave
<1>4. ClaimantOwns' BY <1>0, <1>1 DEF ClaimantOwns, Started
<1>5. LeasedRunStarted' BY <1>0, <1>1 DEF LeasedRunStarted, TokensDrawn, TypeOK, Leave
<1>6. ReportedIsClosed' BY <1>0, <1>1 DEF ReportedIsClosed, TypeOK, Leave, Started
<1>. QED BY <1>2, <1>3, <1>4, <1>5, <1>6 DEF OwnershipRest

\* Giving a lease up: started work is closed as uncertain with it.
LEMMA LeaseGivenUp ==
  ASSUME OwnershipInv, NotYetClaiming', lease' = NoLease, run' = ReconciledRun,
         UNCHANGED <<claimedBy, dispatch, poll>>,
         \A w \in Worker : proc'[w].at \in {"executing", "finishing", "reporting"} =>
                          proc'[w].token # NoToken
  PROVE  OwnershipRest'
<1>. USE DEF OwnershipInv, LeaseInv
<1>1. /\ run \in TerminalRun => run' \in TerminalRun
      /\ dispatch.state = "none" /\ (\E t \in Task : Started(t)) => run' \in TerminalRun
  BY ReconciledStatus DEF StartedShows, TypeOK
<1>2. SingleExecutor' /\ PollIsCurrent' BY DEF SingleExecutor, PollIsCurrent, Started
<1>3. ClaimantOwns' BY <1>1 DEF ClaimantOwns, Started
<1>4. StartedShows' BY <1>1 DEF StartedShows, Started
<1>5. LeasedRunStarted' /\ ReportedIsClosed' BY DEF LeasedRunStarted, ReportedIsClosed
<1>. QED BY <1>2, <1>3, <1>4, <1>5 DEF OwnershipRest

LEMMA CleanupRest ==
  ASSUME OwnershipInv, CleanupExpiredLeases PROVE OwnershipRest'
<1>1. NotYetClaiming' BY DEF OwnershipInv, NotYetClaiming, CleanupExpiredLeases
<1>. QED BY <1>1, LeaseGivenUp DEF CleanupExpiredLeases, OwnershipInv, LeaseInv, TokensDrawn

\* A process that stops, or is told to report, changes no row of these.
LEMMA StoppedRest ==
  ASSUME Local = {}, OwnershipInv, NEW p \in Proc,
         UNCHANGED <<claimedBy, run, dispatch, lease>>,
         \A d \in Dispatcher : poll'[d] \in {poll[d], NoPoll},
         \/ UNCHANGED proc
         \/ Leave(p)
         \/ p \in Dispatcher /\ Goto(p, "reporting", Reconcile)
         \/ p \in Worker /\ Goto(p, "reporting", "refused")
  PROVE  OwnershipRest'
<1>. USE ProcessAssumption DEF OwnershipInv, LeaseInv
<1>1. SingleExecutor' /\ ClaimantOwns' /\ StartedShows'
  BY DEF SingleExecutor, ClaimantOwns, StartedShows, Started
<1>2. PollIsCurrent' BY DEF PollIsCurrent, Started
<1>3. NotYetClaiming' BY DEF NotYetClaiming, TypeOK, Goto, Leave
<1>4. LeasedRunStarted' BY DEF LeasedRunStarted, TypeOK, Goto, Leave
<1>5. ReportedIsClosed' BY DEF ReportedIsClosed, TypeOK, Goto, Leave, Started
<1>. QED BY <1>1, <1>2, <1>3, <1>4, <1>5 DEF OwnershipRest

LEMMA RecoverLeaseRest ==
  ASSUME Local = {}, OwnershipInv, NEW p \in Proc, RecoverLease(p) PROVE OwnershipRest'
<1>1. CASE UNCHANGED <<lease, run>> BY <1>1, StoppedRest DEF RecoverLease, OwnershipInv, LeaseInv, TypeOK
<1>2. CASE lease' = NoLease /\ run' = ReconciledRun
  <2>1. Leave(p) /\ UNCHANGED <<claimedBy, dispatch, poll>> BY DEF RecoverLease
  <2>2. NotYetClaiming' BY <2>1 DEF OwnershipInv, LeaseInv, TypeOK, NotYetClaiming, Leave
  <2>3. \A w \in Worker : proc'[w].at \in {"executing", "finishing", "reporting"} =>
                          proc'[w].token # NoToken
    BY <2>1 DEF OwnershipInv, LeaseInv, TypeOK, TokensDrawn, Leave
  <2>. QED BY <1>2, <2>1, <2>2, <2>3, LeaseGivenUp
<1>. QED BY <1>1, <1>2 DEF RecoverLease

LEMMA CancelFinishRest ==
  ASSUME OwnershipInv, CancelFinish PROVE OwnershipRest'
<1>. USE DEF OwnershipInv, LeaseInv
<1>0. /\ run \in TerminalRun => run' \in TerminalRun
      /\ run' \in TerminalRun \/ run' = run
      /\ UNCHANGED <<claimedBy, dispatch, lease, proc, poll>>
  BY FinishType, FinishedStatus DEF CancelFinish, TypeOK
<1>. QED BY <1>0 DEF OwnershipRest, SingleExecutor, NotYetClaiming, ClaimantOwns, StartedShows,
         LeasedRunStarted, ReportedIsClosed, PollIsCurrent, Started

LEMMA RunNodeRest ==
  ASSUME Local = {}, OwnershipInv, NEW p \in Proc, NEW t \in Task, RunNode(p, t)
  PROVE  OwnershipRest'
<1>1. CASE ClaimTask(p, t) BY <1>1, ClaimTaskRest
<1>2. CASE ~ClaimTask(p, t)
  <2>1. UNCHANGED <<claimedBy, run, dispatch, lease, proc, poll>>
    BY <1>2 DEF RunNode, BeginInvocation, CancelClaimed, FailBeforeInvocation,
               FinishInvocation, RecordOutcome
  <2>. QED BY <2>1, RestUnaffected
<1>. QED BY <1>1, <1>2

LEMMA ProgressRest ==
  ASSUME Local = {}, OwnershipInv, NEW p \in Proc, Progress(p) PROVE OwnershipRest'
<1>1. CASE Start(p) BY <1>1, StartRunRest DEF Start
<1>. QED BY <1>1, EnterRest, RunNodeRest, ReadOutcomeRest, FinishWriteRest, CheckReadRest,
         CheckWriteRest, ReportDispatchRest, FinalizeRest, RecoverLeaseRest DEF Progress

LEMMA StopRest ==
  ASSUME Local = {}, OwnershipInv, NEW p \in Proc, Stop(p) PROVE OwnershipRest'
<1>1. CASE ExecutorError(p) BY <1>1, ExecutorErrorRest
<1>2. CASE LoseLease(p) BY <1>2, StoppedRest DEF LoseLease
<1>3. CASE Shutdown(p) BY <1>3, StoppedRest DEF Shutdown
<1>4. CASE Crash(p) BY <1>4, StoppedRest DEF Crash, OwnershipInv, LeaseInv, TypeOK
<1>. QED BY <1>1, <1>2, <1>3, <1>4 DEF Stop

LEMMA ExpireRest ==
  ASSUME OwnershipInv, ExpireDispatch \/ ExpireLease PROVE OwnershipRest'
BY DEF OwnershipInv, LeaseInv, TypeOK, ExpireDispatch, ExpireLease, OwnershipRest, SingleExecutor,
       NotYetClaiming, ClaimantOwns, StartedShows, LeasedRunStarted, ReportedIsClosed,
       PollIsCurrent, Started

LEMMA CancelRest ==
  ASSUME OwnershipInv, NEW t \in Task, Cancel(t) PROVE OwnershipRest'
<1>1. UNCHANGED <<claimedBy, run, dispatch, lease, proc, poll>>
  BY DEF Cancel, RequestCancel, CancelPending, ConfirmStop
<1>. QED BY <1>1, RestUnaffected

LEMMA NextOwnership == Local = {} /\ OwnershipInv /\ [Next]_vars => OwnershipInv'
<1>. SUFFICES ASSUME Local = {}, OwnershipInv, [Next]_vars PROVE OwnershipRest'
  BY NextLease DEF OwnershipInv, OwnershipRest
<1>1. CASE Accept BY <1>1, AcceptRest
<1>2. ASSUME NEW d \in Dispatcher, Poll(d) PROVE OwnershipRest'
  BY <1>2, RecoverReadRest, RecoverCommitRest, ClaimRest DEF Poll
<1>3. ASSUME NEW w \in Worker, Take(w) PROVE OwnershipRest'
  BY <1>3, FindRest, AcquireRest, AcquireFailsRest DEF Take
<1>4. CASE UNCHANGED vars BY <1>4, RestUnaffected DEF vars
<1>. QED BY <1>1, <1>2, <1>3, <1>4, ProgressRest, StopRest, CancelRest, ExpireRest,
         CleanupRest, CancelFinishRest DEF Next

LEMMA InitOwnership == Init => OwnershipInv
<1>. SUFFICES ASSUME Init PROVE OwnershipInv OBVIOUS
<1>1. \A t \in Task : ~Started(t) BY DEF Init, Started
<1>2. OwnershipRest
  BY <1>1 DEF Init, OwnershipRest, SingleExecutor, NotYetClaiming, ClaimantOwns, StartedShows,
       LeasedRunStarted, ReportedIsClosed, PollIsCurrent
<1>. QED BY <1>2, InitLease DEF OwnershipInv, OwnershipRest

\* While every execution is by a dispatcher or a worker, the invariant that ties
\* what was claimed to the rows that still authorise claiming is kept by every
\* step, recovery and late writers included.
THEOREM Ownership == Local = {} /\ Spec => []OwnershipInv
<1>. SUFFICES ASSUME Local = {} PROVE Spec => []OwnershipInv OBVIOUS
<1>1. OwnershipInv /\ [Next]_vars => OwnershipInv' BY NextOwnership
<1>. QED BY <1>1, InitOwnership, PTL DEF Spec

-----------------------------------------------------------------------------
(* One executor where no worker leases the root.                            *)

\* What a step does not do to a process: let it execute, or queue up with a token used.
ProcessesStay ==
  \A p \in Proc :
    /\ proc'[p].at \in {"entering", "admitted"} =>
         \/ proc'[p].token > nextToken
         \/ proc[p].at \in {"entering", "admitted"} /\ proc'[p].token = proc[p].token
    /\ p \in Local /\ proc'[p].at = "admitted" => Dispatcher = {}
    /\ proc'[p].at \in {"executing", "finishing"} =>
         /\ proc[p].at \in {"executing", "finishing"} /\ proc'[p].token = proc[p].token
         /\ proc'[p].at = "executing" => proc[p].at = "executing"

\* What it does to the rows: only untouched work goes back to the queue.
RowsMoveOn ==
  /\ lease'.owner = NoToken
  /\ run' = "none" => run = "none"
  /\ run' \in {"none", "accepted"} =>
       \/ run \in {"none", "accepted"}
       \/ /\ Dispatcher # {} /\ dispatch.state = "running" /\ dispatch'.state # "running"
          /\ \A t \in Task : ~Started(t)
  /\ \/ /\ dispatch'.state = dispatch.state /\ dispatch'.owner = dispatch.owner
        /\ dispatch'.live => dispatch.live
     \/ dispatch.state = "running" /\ dispatch'.state \in SettledDispatch
     \/ /\ dispatch'.state = "accepted" /\ \A t \in Task : ~Started(t)
        /\ dispatch.state = "running" \/ run \in {"none", "accepted"}
  /\ \A d \in Dispatcher : poll'[d] \in {poll[d], NoPoll}

LEMMA InProcessKept ==
  ASSUME InProcessInv, LeaseInv', UNCHANGED claimedBy, ProcessesStay, RowsMoveOn
  PROVE  InProcessInv'
<1>. USE DEF InProcessInv
<1>0. \A t \in Task : Started(t)' <=> Started(t) BY StartedStays
<1>1. dispatch'.state # "running" => dispatch'.owner = NoToken BY DEF LeaseInv, DispatchOwned
<1>2. SingleExecutor' BY <1>0 DEF SingleExecutor
<1>3. NotYetClaiming' BY DEF NotYetClaiming, ProcessesStay, LeaseInv, TokensDrawn, TypeOK
<1>4. PollIsCurrent'
  <2>. SUFFICES ASSUME NEW d \in Dispatcher, poll'[d].verdict = "accepted",
                       poll'[d].token = dispatch'.owner
                PROVE  ~dispatch'.live /\ \A t \in Task : ~Started(t)
    BY <1>0 DEF PollIsCurrent
  <2>1. poll'[d] = poll[d] /\ poll[d].token # NoToken
    BY DEF RowsMoveOn, NoPoll, LeaseInv, TokensDrawn
  <2>2. dispatch'.state = "running" BY <1>1, <2>1
  <2>3. dispatch'.owner = dispatch.owner /\ (dispatch'.live => dispatch.live)
    BY <2>2 DEF RowsMoveOn, SettledDispatch, Reconcile
  <2>. QED BY <2>1, <2>3 DEF PollIsCurrent
<1>5. WaitingIsUntouched' BY <1>0 DEF WaitingIsUntouched, RowsMoveOn, SettledDispatch, Reconcile
<1>6. DispatchOwns'
  <2>. SUFFICES ASSUME dispatch'.state = "running" PROVE DispatchOwns' BY DEF DispatchOwns
  <2>1. dispatch.state = "running" /\ dispatch'.owner = dispatch.owner
    BY DEF RowsMoveOn, SettledDispatch, Reconcile
  <2>2. run' \in {"none", "accepted"} => run \in {"none", "accepted"} BY DEF RowsMoveOn
  <2>3. \A d \in Dispatcher : proc'[d].at = "executing" =>
          proc[d].at = "executing" /\ proc'[d].token = proc[d].token
    BY DEF ProcessesStay, Proc
  <2>. QED BY <1>0, <2>1, <2>2, <2>3 DEF DispatchOwns
<1>7. RequestOwns'
  <2>. SUFFICES ASSUME NEW l \in Local, proc'[l].at \in {"executing", "finishing"}
                PROVE  /\ run' \notin {"none", "accepted"}
                       /\ dispatch'.state \in {"none", "finished"} \/ Dispatcher = {}
                       /\ \A t \in Task : Started(t) => claimedBy[t] = proc'[l].token
                       /\ \A m \in Local \ {l} : proc'[m].at \notin {"executing", "finishing"}
    BY <1>0 DEF RequestOwns, ProcessesStay, Proc
  <2>1. /\ proc[l].at \in {"executing", "finishing"} /\ proc'[l].token = proc[l].token
        /\ \A m \in Local : proc'[m].at \in {"executing", "finishing"} =>
             proc[m].at \in {"executing", "finishing"}
    BY DEF ProcessesStay, Proc
  <2>2. /\ run \notin {"none", "accepted"}
        /\ dispatch.state \in {"none", "finished"} \/ Dispatcher = {}
        /\ \A t \in Task : Started(t) => claimedBy[t] = proc[l].token
        /\ \A m \in Local \ {l} : proc[m].at \notin {"executing", "finishing"}
    BY <2>1 DEF RequestOwns
  <2>3. run' \notin {"none", "accepted"} BY <2>2 DEF RowsMoveOn
  <2>4. dispatch'.state \in {"none", "finished"} \/ Dispatcher = {} BY <2>2 DEF RowsMoveOn
  <2>. QED BY <2>1, <2>2, <2>3, <2>4
<1>8. lease'.owner = NoToken /\ (Enrolled => run' # "none") BY DEF RowsMoveOn
<1>. QED BY <1>2, <1>3, <1>4, <1>5, <1>6, <1>7, <1>8

\* A step to another place than those, and a step that leaves.
LEMMA GotoStays ==
  ASSUME LeaseInv, NEW p \in Proc, NEW place, NEW verdict, Goto(p, place, verdict),
         \/ place \notin {"entering", "admitted", "executing", "finishing"}
         \/ /\ place = "admitted" /\ proc[p].at = "entering" /\ (p \in Local => Dispatcher = {})
         \/ /\ place = "finishing" /\ proc[p].at = "executing",
         \A l \in Local : proc[l].at = "admitted" => Dispatcher = {}
  PROVE  ProcessesStay
BY DEF LeaseInv, TypeOK, Goto, ProcessesStay

LEMMA LeaveStays ==
  ASSUME LeaseInv, NEW p \in Proc, Leave(p),
         \A l \in Local : proc[l].at = "admitted" => Dispatcher = {}
  PROVE  ProcessesStay
BY DEF LeaseInv, TypeOK, Leave, ProcessesStay

LEMMA StoppedStays ==
  ASSUME LeaseInv, NEW p \in Proc, Raised(p) \/ Refused(p),
         \A l \in Local : proc[l].at = "admitted" => Dispatcher = {}
  PROVE  ProcessesStay
BY GotoStays, LeaveStays DEF Raised, Refused

\* A step that writes no dispatch row and finishes the run or leaves it.
LEMMA RunMovesOn ==
  ASSUME InProcessInv, UNCHANGED <<dispatch, lease, poll>>,
         run' = run \/ run' \notin {"none", "accepted"} \/ (run = "none" /\ run' # "none")
  PROVE  RowsMoveOn
BY DEF InProcessInv, RowsMoveOn

LEMMA RequestPlaces ==
  ASSUME InProcessInv
  PROVE  LeaseInv /\ \A l \in Local : proc[l].at = "admitted" => Dispatcher = {}
BY DEF InProcessInv, RequestOwns

\* The run is started once: nobody executes an accepted one.
LEMMA StartedInProcess ==
  ASSUME InProcessInv, LeaseInv', NEW p \in Proc, proc[p].at \in {"entering", "admitted"},
         p \in Local => dispatch.state \in {"none", "finished"} \/ Dispatcher = {},
         run = "accepted", run' = "running", Goto(p, "executing", "none"),
         UNCHANGED <<claimedBy, dispatch, lease, poll>>
  PROVE  InProcessInv'
<1>. USE ProcessAssumption DEF InProcessInv
<1>1. \A t \in Task : ~Started(t) /\ ~Started(t)'
  BY StartedStays DEF WaitingIsUntouched
<1>2. /\ proc'[p].at = "executing" /\ proc'[p].token = proc[p].token
      /\ \A q \in Proc \ {p} : proc'[q] = proc[q]
  BY DEF LeaseInv, TypeOK, Goto
<1>3. SingleExecutor' /\ WaitingIsUntouched' BY <1>1 DEF SingleExecutor, WaitingIsUntouched
<1>4. NotYetClaiming' BY <1>2 DEF NotYetClaiming
<1>5. PollIsCurrent' BY <1>1 DEF PollIsCurrent
<1>6. DispatchOwns' BY <1>1 DEF DispatchOwns
<1>7. RequestOwns'
  <2>1. \A l \in Local : proc[l].at \notin {"executing", "finishing"} BY DEF RequestOwns
  <2>2. \A l \in Local \ {p} : proc'[l].at \notin {"executing", "finishing"}
    BY <1>2, <2>1 DEF Proc
  <2>3. \A l \in Local : proc'[l].at = "admitted" => Dispatcher = {}
    BY <1>2 DEF Proc, RequestOwns
  <2>. QED BY <1>1, <2>2, <2>3 DEF RequestOwns
<1>. QED BY <1>3, <1>4, <1>5, <1>6, <1>7

LEMMA StartRunInProcess ==
  ASSUME InProcessInv, LeaseInv', NEW p \in Proc, proc[p].at \in {"entering", "admitted"},
         p \in Local => dispatch.state \in {"none", "finished"} \/ Dispatcher = {}, StartRun(p)
  PROVE  InProcessInv'
<1>1. UNCHANGED <<claimedBy, dispatch, lease, poll>> BY DEF StartRun
<1>2. CASE run = "accepted" /\ run' = "running" /\ Goto(p, "executing", "none")
  BY <1>1, <1>2, StartedInProcess
<1>3. CASE Raised(p) /\ run' \in {run, Reconcile}
  <2>1. RowsMoveOn BY <1>1, <1>3, RunMovesOn DEF Reconcile
  <2>2. ProcessesStay BY <1>3, RequestPlaces, StoppedStays
  <2>. QED BY <1>1, <2>1, <2>2, InProcessKept
<1>. QED BY <1>2, <1>3 DEF StartRun

LEMMA EnterInProcess ==
  ASSUME InProcess, InProcessInv, LeaseInv', NEW p \in Proc, Enter(p) PROVE InProcessInv'
<1>. USE ProcessAssumption
<1>1. CASE Refused(p) /\ UNCHANGED <<claimedBy, run, dispatch, lease, poll>>
  BY <1>1, RunMovesOn, RequestPlaces, StoppedStays, InProcessKept
<1>2. CASE Fence(p) /\ p \in Local /\ StartRun(p)
  BY <1>2, StartRunInProcess DEF Enter, Fence
<1>3. CASE /\ proc[p].at = "entering"
           /\ p \in Local => run = "none"
           /\ run' = EnsuredRun /\ Goto(p, "admitted", "none")
           /\ UNCHANGED <<claimedBy, dispatch, lease, poll>>
  <2>1. p \in Local => Dispatcher = {}
    BY <1>3, EnrolledAssumption DEF InProcess, InProcessInv
  <2>2. run' # "none" /\ (run # "none" => run' = run)
    BY <1>3, EnsuredType DEF EnsuredRun, InProcessInv, LeaseInv, TypeOK
  <2>3. ProcessesStay BY <1>3, <2>1, RequestPlaces, GotoStays
  <2>4. RowsMoveOn BY <1>3, <2>2, RunMovesOn
  <2>. QED BY <1>3, <2>3, <2>4, InProcessKept
<1>. QED BY <1>1, <1>2, <1>3 DEF Enter

LEMMA StartInProcess ==
  ASSUME InProcessInv, LeaseInv', NEW p \in Proc, Start(p) PROVE InProcessInv'
BY StartRunInProcess, RequestPlaces DEF Start

\* A node is claimed by the one process that may, which claimed all others.
LEMMA ClaimTaskInProcess ==
  ASSUME InProcess, InProcessInv, LeaseInv', NEW p \in Proc, NEW s \in Task, ClaimTask(p, s)
  PROVE  InProcessInv'
<1>. USE ProcessAssumption DEF InProcessInv
<1>0. /\ claimedBy' = [claimedBy EXCEPT ![s] = proc[p].token]
      /\ UNCHANGED <<run, dispatch, lease, proc, poll>>
      /\ proc[p].at = "executing" /\ Fence(p) /\ proc[p].token # NoToken
  BY DEF ClaimTask, Claimable, LeaseInv, TokensDrawn
<1>1. \/ /\ p \in Dispatcher
         /\ dispatch = [state |-> "running", owner |-> proc[p].token, live |-> TRUE]
      \/ p \in Local /\ dispatch.state \in {"none", "finished"} /\ dispatch.owner = NoToken
  BY <1>0 DEF Fence, InProcess, LeaseInv, DispatchOwned
<1>2. \A t \in Task : Started(t) => claimedBy[t] = proc[p].token
  BY <1>0, <1>1 DEF DispatchOwns, RequestOwns
<1>3. \A t \in Task : Started(t)' => claimedBy'[t] = proc[p].token
  BY <1>0, <1>2 DEF Started, LeaseInv, TypeOK
<1>4. SingleExecutor' BY <1>3 DEF SingleExecutor
<1>5. NotYetClaiming' BY <1>0 DEF NotYetClaiming, LeaseInv, TokensDrawn, TypeOK
<1>6. PollIsCurrent' BY <1>0, <1>1 DEF PollIsCurrent, LeaseInv, TokensDrawn, NoPoll
<1>7. WaitingIsUntouched'
  BY <1>0, <1>1 DEF WaitingIsUntouched, DispatchOwns, RequestOwns
<1>8. DispatchOwns' BY <1>0, <1>1, <1>3 DEF DispatchOwns
<1>9. RequestOwns'
  <2>1. \A l \in Local : proc[l].at \in {"executing", "finishing"} => l = p
    BY <1>0, <1>1 DEF RequestOwns
  <2>. QED BY <1>0, <1>3, <2>1 DEF RequestOwns
<1>. QED BY <1>0, <1>4, <1>5, <1>6, <1>7, <1>8, <1>9

LEMMA RunNodeInProcess ==
  ASSUME InProcess, InProcessInv, LeaseInv', NEW p \in Proc, NEW t \in Task, RunNode(p, t)
  PROVE  InProcessInv'
<1>1. CASE ClaimTask(p, t) BY <1>1, ClaimTaskInProcess
<1>2. CASE ~ClaimTask(p, t)
  <2>1. UNCHANGED <<claimedBy, run, dispatch, lease, proc, poll>>
    BY <1>2 DEF RunNode, BeginInvocation, CancelClaimed, FailBeforeInvocation,
               FinishInvocation, RecordOutcome
  <2>2. ProcessesStay BY <2>1, RequestPlaces DEF ProcessesStay
  <2>. QED BY <2>1, <2>2, RunMovesOn, InProcessKept
<1>. QED BY <1>1, <1>2

\* A run that is finished is not accepted again.
LEMMA FinishedMovesOn ==
  ASSUME InProcessInv, NEW p, NEW status \in TerminalRun,
         run' = IF Owns(p) THEN Finished(status) ELSE run, UNCHANGED <<dispatch, lease, poll>>
  PROVE  RowsMoveOn
BY RunMovesOn DEF Finished, TerminalRun, Reconcile

LEMMA EndingInProcess ==
  ASSUME InProcess, InProcessInv, LeaseInv', NEW p \in Proc,
         \/ ReadOutcome(p) \/ FinishWrite(p) \/ CheckRead(p) \/ CheckWrite(p)
         \/ ReportDispatch(p) \/ ExecutorError(p)
  PROVE  InProcessInv'
<1>. USE RequestPlaces
<1>1. CASE ReadOutcome(p) \/ CheckRead(p)
  <2>1. UNCHANGED <<claimedBy, run, dispatch, lease, poll>> BY <1>1 DEF ReadOutcome, CheckRead
  <2>2. ProcessesStay BY <1>1, GotoStays DEF ReadOutcome, CheckRead
  <2>. QED BY <2>1, <2>2, RunMovesOn, InProcessKept
<1>2. CASE FinishWrite(p) \/ CheckWrite(p)
  <2>1. UNCHANGED <<claimedBy, dispatch, lease, poll>> BY <1>2 DEF FinishWrite, CheckWrite
  <2>2. proc[p].verdict \in TerminalRun
    BY <1>2 DEF FinishWrite, CheckWrite, InProcessInv, LeaseInv, VerdictOK
  <2>3. RowsMoveOn BY <1>2, <2>1, <2>2, FinishedMovesOn DEF FinishWrite, CheckWrite
  <2>4. ProcessesStay BY <1>2, GotoStays, LeaveStays DEF FinishWrite, CheckWrite
  <2>. QED BY <2>1, <2>3, <2>4, InProcessKept
<1>3. CASE ReportDispatch(p)
  <2>1. /\ UNCHANGED <<claimedBy, run, lease, poll>> /\ Leave(p)
        /\ p \in Dispatcher /\ proc[p].at = "reporting"
        /\ dispatch' = IF dispatch.owner = proc[p].token
                       THEN [state |-> proc[p].verdict, owner |-> NoToken, live |-> FALSE]
                       ELSE dispatch
    BY <1>3 DEF ReportDispatch
  <2>2. proc[p].verdict \in SettledDispatch /\ proc[p].token # NoToken
    BY <2>1 DEF InProcessInv, LeaseInv, VerdictOK, TokensDrawn
  <2>3. \/ dispatch' = dispatch
        \/ dispatch.state = "running" /\ dispatch'.state \in SettledDispatch
    BY <2>1, <2>2 DEF InProcessInv, LeaseInv, DispatchOwned
  <2>4. RowsMoveOn BY <2>1, <2>3 DEF InProcessInv, RowsMoveOn
  <2>. QED BY <2>1, <2>4, LeaveStays, InProcessKept
<1>4. CASE ExecutorError(p)
  <2>1. UNCHANGED <<claimedBy, dispatch, lease, poll>> BY <1>4 DEF ExecutorError
  <2>2. RowsMoveOn BY <1>4, <2>1, FinishedMovesOn DEF ExecutorError, TerminalRun
  <2>3. ProcessesStay BY <1>4, StoppedStays DEF ExecutorError
  <2>. QED BY <2>1, <2>2, <2>3, InProcessKept
<1>. QED BY <1>1, <1>2, <1>3, <1>4

LEMMA StopInProcess ==
  ASSUME InProcess, InProcessInv, LeaseInv', NEW p \in Proc,
         LoseLease(p) \/ Shutdown(p) \/ Crash(p)
  PROVE  InProcessInv'
<1>. USE RequestPlaces
<1>1. UNCHANGED <<claimedBy, run, dispatch, lease>> BY DEF LoseLease, Shutdown, Crash
<1>2. \A d \in Dispatcher : poll'[d] \in {poll[d], NoPoll}
  BY DEF LoseLease, Shutdown, Crash, InProcessInv, LeaseInv, TypeOK
<1>3. UNCHANGED proc => ProcessesStay BY DEF ProcessesStay
<1>4. ProcessesStay BY <1>3, GotoStays, LeaveStays DEF LoseLease, Shutdown, Crash
<1>5. RowsMoveOn BY <1>1, <1>2 DEF RowsMoveOn, InProcessInv
<1>. QED BY <1>1, <1>4, <1>5, InProcessKept

LEMMA PollInProcess ==
  ASSUME InProcessInv, LeaseInv', NEW d \in Dispatcher, Poll(d) PROVE InProcessInv'
<1>. USE RequestPlaces, ProcessAssumption
<1>1. CASE RecoverRead(d)
  <2>. USE <1>1 DEF InProcessInv, RecoverRead
  <2>1. UNCHANGED <<claimedBy, run, dispatch, lease, proc>> OBVIOUS
  <2>2. PollIsCurrent' BY DEF PollIsCurrent, LeaseInv, TypeOK, RecoveryVerdict, Started
  <2>3. SingleExecutor' /\ NotYetClaiming' BY <2>1 DEF SingleExecutor, NotYetClaiming, Started
  <2>4. WaitingIsUntouched' /\ DispatchOwns' /\ RequestOwns'
    BY <2>1 DEF WaitingIsUntouched, DispatchOwns, RequestOwns, Started
  <2>. QED BY <2>1, <2>2, <2>3, <2>4
<1>2. CASE RecoverCommit(d)
  <2>1. UNCHANGED <<claimedBy, lease, proc>> /\ \A e \in Dispatcher : poll'[e] \in {poll[e], NoPoll}
    BY <1>2 DEF RecoverCommit, InProcessInv, LeaseInv, TypeOK
  <2>2. ProcessesStay BY <2>1 DEF ProcessesStay
  <2>3. CASE UNCHANGED <<dispatch, run>>
    BY <2>1, <2>2, <2>3, InProcessKept DEF RowsMoveOn, InProcessInv
  <2>4. CASE dispatch.owner = poll[d].token /\ ~dispatch.live /\ dispatch'.state = poll[d].verdict
    <3>1. dispatch.state = "running"
      BY <1>2, <2>4 DEF RecoverCommit, InProcessInv, LeaseInv, TokensDrawn, DispatchOwned
    <3>2. poll[d].verdict \in {"accepted"} \cup SettledDispatch
      BY <1>2, <2>4 DEF RecoverCommit, SettledDispatch
    <3>3. poll[d].verdict = "accepted" => \A t \in Task : ~Started(t)
      BY <2>4 DEF InProcessInv, PollIsCurrent
    <3>4. /\ run' = "none" => run = "none"
          /\ run' \in {"none", "accepted"} =>
               run \in {"none", "accepted"} \/ poll[d].verdict = "accepted"
      BY <1>2, <2>4 DEF RecoverCommit, Finished, Reconcile
    <3>5. RowsMoveOn
      BY <2>1, <2>4, <3>1, <3>2, <3>3, <3>4 DEF RowsMoveOn, InProcessInv, SettledDispatch, Reconcile
    <3>. QED BY <2>1, <2>2, <3>5, InProcessKept
  <2>. QED BY <1>2, <2>3, <2>4 DEF RecoverCommit
<1>3. CASE Claim(d)
  <2>. USE <1>3, MaxTokenAssumption DEF InProcessInv, Claim
  <2>1. UNCHANGED <<claimedBy, run, lease, poll>> OBVIOUS
  <2>2. /\ dispatch.state = "accepted"
        /\ dispatch' = [state |-> "running", owner |-> nextToken + 1, live |-> TRUE]
        /\ proc' = [proc EXCEPT ![d] = [at |-> "entering", token |-> nextToken + 1,
                                        verdict |-> "none"]]
    OBVIOUS
  <2>3. \A t \in Task : ~Started(t) /\ ~Started(t)' BY <2>1, <2>2, StartedStays DEF WaitingIsUntouched
  <2>4. nextToken \in Nat /\ proc \in [Proc -> [at: Place, token: Token, verdict: Verdict]]
    BY DEF LeaseInv, TypeOK
  <2>. HIDE DEF Claim
  <2>5. SingleExecutor' /\ WaitingIsUntouched' BY <2>3 DEF SingleExecutor, WaitingIsUntouched
  <2>6. NotYetClaiming' BY <2>1, <2>2, <2>4 DEF NotYetClaiming, LeaseInv, TokensDrawn
  <2>7. PollIsCurrent' BY <2>1, <2>2, <2>4 DEF PollIsCurrent, LeaseInv, TokensDrawn, TypeOK
  <2>8. DispatchOwns' BY <2>2, <2>3, <2>4 DEF DispatchOwns, LeaseInv, TokensDrawn
  <2>9. RequestOwns'
    <3>1. \A l \in Local : proc'[l] = proc[l] BY <2>2, <2>4
    <3>2. \A l \in Local : proc[l].at \notin {"executing", "finishing"} BY <2>2 DEF RequestOwns
    <3>. QED BY <3>1, <3>2 DEF RequestOwns
  <2>. QED BY <2>1, <2>5, <2>6, <2>7, <2>8, <2>9
<1>. QED BY <1>1, <1>2, <1>3 DEF Poll

LEMMA NextInProcess ==
  InProcess /\ InProcessInv /\ [Next]_vars => InProcessInv'
<1>. SUFFICES ASSUME InProcess, InProcessInv, [Next]_vars PROVE InProcessInv' OBVIOUS
<1>. USE RequestPlaces
<1>0. LeaseInv' BY NextLease
<1>1. ASSUME UNCHANGED <<claimedBy, run, dispatch, lease, proc, poll>> PROVE InProcessInv'
  <2>1. ProcessesStay BY <1>1 DEF ProcessesStay
  <2>. QED BY <1>0, <1>1, <2>1, RunMovesOn, InProcessKept
<1>2. CASE Accept
  <2>1. UNCHANGED <<claimedBy, lease, proc, poll>> BY <1>2 DEF Accept
  <2>2. dispatch.state = "none" /\ dispatch'.state = "accepted" /\ run' = "accepted"
        /\ run \in {"none", "accepted"}
    BY <1>2 DEF Accept, EnsuredRun, InProcessInv, LeaseInv, TypeOK
  <2>3. ProcessesStay BY <2>1 DEF ProcessesStay
  <2>4. RowsMoveOn BY <2>1, <2>2 DEF RowsMoveOn, InProcessInv, WaitingIsUntouched
  <2>. QED BY <1>0, <2>1, <2>3, <2>4, InProcessKept
<1>3. ASSUME NEW l \in Local, Request(l) PROVE InProcessInv'
  <2>1. UNCHANGED <<claimedBy, run, dispatch, lease, poll>> BY <1>3 DEF Request
  <2>2. ProcessesStay
    BY <1>3, ProcessAssumption, MaxTokenAssumption
    DEF Request, ProcessesStay, LeaseInv, TypeOK, Proc
  <2>. QED BY <1>0, <2>1, <2>2, RunMovesOn, InProcessKept
<1>4. ASSUME NEW p \in Proc, Progress(p) PROVE InProcessInv'
  <2>1. ~Finalize(p) /\ ~RecoverLease(p) BY DEF InProcess, Finalize, RecoverLease
  <2>. QED BY <1>0, <1>4, <2>1, EnterInProcess, StartInProcess, RunNodeInProcess, EndingInProcess
       DEF Progress
<1>5. ASSUME NEW p \in Proc, Stop(p) PROVE InProcessInv'
  BY <1>0, <1>5, EndingInProcess, StopInProcess DEF Stop
<1>6. CASE ExpireDispatch
  <2>1. UNCHANGED <<claimedBy, run, lease, proc, poll>> /\ dispatch'.state = dispatch.state
        /\ dispatch'.owner = dispatch.owner /\ ~dispatch'.live
    BY <1>6 DEF ExpireDispatch, LeaseInv, TypeOK
  <2>2. ProcessesStay BY <2>1 DEF ProcessesStay
  <2>3. RowsMoveOn BY <2>1 DEF RowsMoveOn, InProcessInv
  <2>. QED BY <1>0, <2>1, <2>2, <2>3, InProcessKept
<1>7. CASE ExpireLease
  <2>1. UNCHANGED <<claimedBy, run, dispatch, proc, poll>> /\ lease'.owner = lease.owner
    BY <1>7 DEF ExpireLease, LeaseInv, TypeOK
  <2>2. ProcessesStay BY <2>1 DEF ProcessesStay
  <2>3. RowsMoveOn BY <2>1 DEF RowsMoveOn, InProcessInv
  <2>. QED BY <1>0, <2>1, <2>2, <2>3, InProcessKept
<1>8. ~CleanupExpiredLeases BY DEF CleanupExpiredLeases, InProcessInv
<1>9. ASSUME NEW t \in Task, Cancel(t) PROVE InProcessInv'
  BY <1>1, <1>9 DEF Cancel, RequestCancel, CancelPending, ConfirmStop
<1>10. CASE CancelFinish
  <2>1. UNCHANGED <<claimedBy, dispatch, lease, proc, poll>> BY <1>10 DEF CancelFinish
  <2>2. ProcessesStay BY <2>1 DEF ProcessesStay
  <2>3. run' = run \/ run' \notin {"none", "accepted"}
    BY <1>10, FinishType DEF CancelFinish, Finished, TerminalRun, Reconcile
  <2>. QED BY <1>0, <2>1, <2>2, <2>3, RunMovesOn, InProcessKept
<1>11. CASE UNCHANGED vars BY <1>1, <1>11 DEF vars
<1>. QED BY <1>0, <1>2, <1>3, <1>4, <1>5, <1>6, <1>7, <1>8, <1>9, <1>10, <1>11, PollInProcess
     DEF Next, InProcess

LEMMA InitInProcess == Init => InProcessInv
<1>. SUFFICES ASSUME Init PROVE InProcessInv OBVIOUS
<1>1. \A t \in Task : ~Started(t) BY DEF Init, Started
<1>2. \A p \in Proc : proc[p].at = "idle" BY DEF Init, Idle
<1>3. SingleExecutor /\ NotYetClaiming /\ WaitingIsUntouched
  BY <1>1, <1>2 DEF SingleExecutor, NotYetClaiming, WaitingIsUntouched
<1>4. PollIsCurrent BY <1>1 DEF Init, PollIsCurrent
<1>5. DispatchOwns /\ RequestOwns BY <1>1, <1>2 DEF Init, DispatchOwns, RequestOwns, Proc
<1>. QED BY <1>3, <1>4, <1>5, InitLease DEF InProcessInv, Init, NoLease

\* Where requests execute a root that no worker leases, and its run row came first or
\* no dispatcher is around: who started the run is the one that claims its nodes.
THEOREM InProcessExecution == InProcess /\ Spec => []InProcessInv
<1>. SUFFICES ASSUME InProcess PROVE Spec => []InProcessInv OBVIOUS
<1>1. InProcessInv /\ [Next]_vars => InProcessInv' BY NextInProcess
<1>. QED BY <1>1, InitInProcess, PTL DEF Spec

\* No two executors ever claim nodes of one tree: leases may expire under a
\* running executor and its root be recovered, requeued or cancelled meanwhile.
THEOREM OneExecutor == (Local = {} \/ InProcess) /\ Spec => []SingleExecutor
<1>1. Local = {} /\ Spec => []SingleExecutor
  <2>1. OwnershipInv => SingleExecutor BY DEF OwnershipInv
  <2>. QED BY <2>1, Ownership, PTL
<1>2. InProcess /\ Spec => []SingleExecutor
  <2>1. InProcessInv => SingleExecutor BY DEF InProcessInv
  <2>. QED BY <2>1, InProcessExecution, PTL
<1>. QED BY <1>1, <1>2

-----------------------------------------------------------------------------
(* A run is completed only on evidence.                                     *)

\* A result in its executor's hands is recorded, as long as it may still count.
ResultRecorded ==
  \A t \in Task :
    task[t].status = "in_progress" /\ ~task[t].cancel /\ BusinessOpen(t) =>
      /\ flight[t] = "invoking" => inv[t] = "running"
      /\ flight[t] = "ok" => inv[t] = "completed"

NodesEvidenced ==
  \A t \in Task : task[t].status = "completed" =>
    flight[t] = "none" /\ (t \in Frozen \/ inv[t] = "completed")

\* Nobody says that a tree is completed, or carries that verdict, unless it is.
CompletedIsSeen ==
  /\ run = "completed" => AllCompleted
  /\ \A p \in Proc : proc[p].verdict = "completed" => AllCompleted
  /\ \A d \in Dispatcher : poll[d].verdict = "finished" => AllCompleted

SubmittedHasRun == dispatch.state # "none" => run # "none"

EvidenceInv == ResultRecorded /\ NodesEvidenced /\ CompletedIsSeen /\ SubmittedHasRun

\* Whoever reads "completed" from the tree reads it of every node.
LEMMA CompletedSummary ==
  /\ FinishStatus = "completed" => AllCompleted
  /\ EnsuredRun = "completed" => run = "completed" \/ AllCompleted
  /\ ReconciledRun = "completed" => run = "completed" \/ AllCompleted
BY DEF Summary, FinishStatus, EnsuredRun, ReconciledRun, RecoveredRun

\* A recovery that takes the result of an invocation away closes its run.
LEMMA ReconciledCloses ==
  ASSUME TypeOK PROVE ReconciledInv = inv \/ ReconciledRun \in TerminalRun
<1>1. CASE TreeStarted BY <1>1, SummaryType DEF TypeOK, ReconciledRun, RecoveredRun
<1>2. CASE ~TreeStarted
  <2>1. \A t \in Task : inv[t] = "none" BY <1>2 DEF TreeStarted
  <2>. QED BY <2>1 DEF ReconciledInv, TypeOK
<1>. QED BY <1>1, <1>2

\* Closed runs stay closed, whoever writes them.
LEMMA TerminalStays ==
  ASSUME run \in TerminalRun
  PROVE  /\ EnsuredRun = run /\ ReconciledRun = run
         /\ \A status \in TerminalRun : Finished(status) = run
BY DEF EnsuredRun, ReconciledRun, RecoveredRun, Finished

\* A step that writes no node.
LEMMA EvidenceKept ==
  ASSUME LeaseInv, EvidenceInv, UNCHANGED task,
         \A t \in Task : flight'[t] \in {flight[t], "none"},
         run \in TerminalRun => run' \in TerminalRun,
         inv' = inv \/ (inv' = ReconciledInv /\ run' \in TerminalRun),
         run' = "completed" => run = "completed" \/ AllCompleted,
         \A p \in Proc : proc'[p].verdict = "completed" =>
           proc[p].verdict = "completed" \/ AllCompleted,
         \A d \in Dispatcher : poll'[d].verdict = "finished" =>
           poll[d].verdict = "finished" \/ AllCompleted,
         dispatch'.state # "none" /\ dispatch.state = "none" => run' # "none",
         run # "none" => run' # "none"
  PROVE  EvidenceInv'
<1>. USE DEF EvidenceInv
<1>1. ResultRecorded' BY DEF ResultRecorded, BusinessOpen
<1>2. NodesEvidenced' BY DEF NodesEvidenced, ReconciledInv, LeaseInv, TypeOK
<1>3. CompletedIsSeen' BY DEF CompletedIsSeen, AllCompleted
<1>4. SubmittedHasRun' BY DEF SubmittedHasRun
<1>. QED BY <1>1, <1>2, <1>3, <1>4

\* A step that writes nodes which are not completed, and keeps the verdicts.
LEMMA NodesKept ==
  ASSUME LeaseInv, EvidenceInv, UNCHANGED <<run, dispatch, poll>>,
         \A p \in Proc : proc'[p].verdict = "completed" => proc[p].verdict = "completed",
         \A t \in Task : task[t].status = "completed" => task'[t].status = "completed",
         ResultRecorded', NodesEvidenced'
  PROVE  EvidenceInv'
BY DEF EvidenceInv, CompletedIsSeen, AllCompleted, SubmittedHasRun

LEMMA InitEvidence == Init => EvidenceInv
<1>. SUFFICES ASSUME Init PROVE EvidenceInv OBVIOUS
<1>. USE TreeAssumption DEF Init
<1>1. ResultRecorded /\ NodesEvidenced BY DEF ResultRecorded, NodesEvidenced
<1>2. CompletedIsSeen BY DEF CompletedIsSeen, AllCompleted
<1>. QED BY <1>1, <1>2 DEF EvidenceInv, SubmittedHasRun

LEMMA GotoVerdict ==
  ASSUME LeaseInv, NEW p \in Proc, NEW place, NEW verdict, Goto(p, place, verdict)
  PROVE  \A q \in Proc : proc'[q].verdict \in {proc[q].verdict, verdict}
BY DEF LeaseInv, TypeOK, Goto

LEMMA LeaveVerdict ==
  ASSUME LeaseInv, NEW p \in Proc, Leave(p)
  PROVE  \A q \in Proc : proc'[q].verdict \in {proc[q].verdict, "none"}
BY DEF LeaseInv, TypeOK, Leave

LEMMA StoppedVerdict ==
  ASSUME LeaseInv, NEW p \in Proc, Raised(p) \/ Refused(p)
  PROVE  \A q \in Proc : proc'[q].verdict = "completed" => proc[q].verdict = "completed"
<1>1. CASE Leave(p) BY <1>1, LeaveVerdict
<1>2. ASSUME NEW place, NEW verdict \in {"none", "raised", "refused", Reconcile},
             Goto(p, place, verdict)
      PROVE  \A q \in Proc : proc'[q].verdict = "completed" => proc[q].verdict = "completed"
  BY <1>2, GotoVerdict
<1>. QED BY <1>1, <1>2 DEF Raised, Refused

LEMMA AcceptEvidence == ASSUME LeaseInv, EvidenceInv, Accept PROVE EvidenceInv'
BY EvidenceKept, CompletedSummary, TerminalStays DEF Accept

LEMMA PollEvidence ==
  ASSUME LeaseInv, EvidenceInv, NEW d \in Dispatcher, Poll(d) PROVE EvidenceInv'
<1>1. CASE RecoverRead(d)
  <2>1. RecoveryVerdict = "finished" => AllCompleted BY DEF RecoveryVerdict
  <2>2. \A e \in Dispatcher : poll'[e].verdict = "finished" =>
          poll[e].verdict = "finished" \/ AllCompleted
    BY <1>1, <2>1 DEF RecoverRead, LeaseInv, TypeOK
  <2>3. UNCHANGED <<task, claimedBy, inv, run, dispatch, lease, proc, flight, nextToken>>
    BY <1>1 DEF RecoverRead
  <2>. QED BY <2>2, <2>3, EvidenceKept
<1>2. CASE RecoverCommit(d)
  <2>1. \A e \in Dispatcher : poll'[e].verdict = "finished" => poll[e].verdict = "finished"
    BY <1>2 DEF RecoverCommit, LeaseInv, TypeOK
  <2>2. CASE UNCHANGED <<dispatch, inv, run>>
    BY <1>2, <2>1, <2>2, EvidenceKept DEF RecoverCommit
  <2>3. CASE dispatch.owner = poll[d].token /\ ~dispatch.live
    <3>1. run # "none"
      BY <1>2, <2>3 DEF RecoverCommit, LeaseInv, TokensDrawn, DispatchOwned, EvidenceInv,
                        SubmittedHasRun
    <3>2. run \in TerminalRun => run' \in TerminalRun
      BY <1>2, <2>3, TerminalStays DEF RecoverCommit
    <3>3. inv' = inv \/ (inv' = ReconciledInv /\ run' \in TerminalRun)
      BY <1>2, <2>3, <3>1, FinishedStatus DEF RecoverCommit, LeaseInv, TypeOK
    <3>4. run' = "completed" => run = "completed" \/ AllCompleted
      BY <1>2, <2>3 DEF RecoverCommit, Finished, EvidenceInv, CompletedIsSeen
    <3>5. run' # "none" BY <1>2, <2>3, <3>1 DEF RecoverCommit, Finished
    <3>. QED BY <1>2, <2>1, <3>2, <3>3, <3>4, <3>5, EvidenceKept DEF RecoverCommit
  <2>. QED BY <1>2, <2>2, <2>3 DEF RecoverCommit
<1>3. CASE Claim(d)
  <2>1. \A q \in Proc : proc'[q].verdict = "completed" => proc[q].verdict = "completed"
    BY <1>3 DEF Claim, LeaseInv, TypeOK
  <2>2. run # "none" BY <1>3 DEF Claim, EvidenceInv, SubmittedHasRun
  <2>. QED BY <1>3, <2>1, <2>2, EvidenceKept DEF Claim
<1>. QED BY <1>1, <1>2, <1>3 DEF Poll

\* What recovering a worker's lease does to the rows.
LEMMA RecoveryRows ==
  ASSUME LeaseInv, EvidenceInv,
         \/ run' = ReconciledRun /\ inv' = ReconciledInv
         \/ UNCHANGED <<run, inv>>
  PROVE  /\ run \in TerminalRun => run' \in TerminalRun
         /\ inv' = inv \/ (inv' = ReconciledInv /\ run' \in TerminalRun)
         /\ run' = "completed" => run = "completed" \/ AllCompleted
         /\ run # "none" => run' # "none"
BY ReconciledCloses, TerminalStays, CompletedSummary, ReconciledType DEF LeaseInv, TypeOK

LEMMA TakeEvidence ==
  ASSUME LeaseInv, EvidenceInv, NEW w \in Worker, Take(w) PROVE EvidenceInv'
<1>1. CASE Find(w)
  <2>1. \A q \in Proc : proc'[q].verdict = proc[q].verdict
    BY <1>1 DEF Find, LeaseInv, TypeOK
  <2>. QED BY <1>1, <2>1, EvidenceKept DEF Find
<1>2. CASE Acquire(w)
  <2>1. \A q \in Proc : proc'[q].verdict = "completed" => proc[q].verdict = "completed"
    BY <1>2 DEF Acquire, LeaseInv, TypeOK
  <2>. QED BY <1>2, <2>1, RecoveryRows, EvidenceKept DEF Acquire
<1>3. CASE AcquireFails(w)
  BY <1>3, LeaveVerdict, RecoveryRows, EvidenceKept DEF AcquireFails
<1>. QED BY <1>1, <1>2, <1>3 DEF Take

LEMMA EnterEvidence ==
  ASSUME LeaseInv, EvidenceInv, NEW p \in Proc, Enter(p) \/ Start(p) PROVE EvidenceInv'
<1>0. UNCHANGED <<task, claimedBy, inv, dispatch, lease, poll, flight, nextToken>>
  BY DEF Enter, Start, StartRun
<1>1. CASE StartRun(p)
  <2>1. \/ UNCHANGED run
        \/ run = "accepted" /\ run' \in {"running", Reconcile}
    BY <1>1 DEF StartRun
  <2>2. CASE Raised(p) BY <1>0, <2>1, <2>2, StoppedVerdict, EvidenceKept
  <2>3. CASE Goto(p, "executing", "none") BY <1>0, <2>1, <2>3, GotoVerdict, EvidenceKept
  <2>. QED BY <1>1, <2>2, <2>3 DEF StartRun
<1>2. CASE Refused(p) /\ UNCHANGED run BY <1>0, <1>2, StoppedVerdict, EvidenceKept
<1>3. CASE run' = EnsuredRun /\ Goto(p, "admitted", "none")
  <2>1. run' # "none" BY <1>3, EnsuredType DEF LeaseInv, TypeOK
  <2>. QED BY <1>0, <1>3, <2>1, GotoVerdict, CompletedSummary, TerminalStays, EvidenceKept
<1>. QED BY <1>1, <1>2, <1>3 DEF Enter, Start

LEMMA RunNodeEvidence ==
  ASSUME LeaseInv, EvidenceInv, NEW p \in Proc, NEW t \in Task, RunNode(p, t)
  PROVE  EvidenceInv'
<1>. USE DEF EvidenceInv
<1>0. UNCHANGED <<run, dispatch, proc, poll>>
  BY DEF RunNode, ClaimTask, BeginInvocation, CancelClaimed, FailBeforeInvocation,
         FinishInvocation, RecordOutcome
<1>. USE DEF LeaseInv, TypeOK
<1>1. CASE ClaimTask(p, t)
  BY <1>0, <1>1, NodesKept
  DEF ClaimTask, Claimable, SetStatus, Land, ResultRecorded, NodesEvidenced, BusinessOpen
<1>2. CASE BeginInvocation(p, t)
  BY <1>0, <1>2, NodesKept
  DEF BeginInvocation, InFlight, Land, ResultRecorded, NodesEvidenced, BusinessOpen
<1>3. CASE CancelClaimed(p, t)
  BY <1>0, <1>3, NodesKept
  DEF CancelClaimed, InFlight, SetStatus, Land, ResultRecorded, NodesEvidenced, BusinessOpen
<1>4. CASE FailBeforeInvocation(p, t)
  BY <1>0, <1>4, NodesKept
  DEF FailBeforeInvocation, FailNode, InFlight, Land, ResultRecorded, NodesEvidenced, BusinessOpen
<1>5. CASE FinishInvocation(p, t)
  BY <1>0, <1>5, NodesKept
  DEF FinishInvocation, Recordings, InFlight, Land, ResultRecorded, NodesEvidenced, BusinessOpen
<1>6. CASE RecordOutcome(p, t)
  BY <1>0, <1>6, NodesKept
  DEF RecordOutcome, FailNode, SetStatus, InFlight, Land, ResultRecorded, NodesEvidenced,
      BusinessOpen
<1>. QED BY <1>1, <1>2, <1>3, <1>4, <1>5, <1>6 DEF RunNode

LEMMA EndingEvidence ==
  ASSUME LeaseInv, EvidenceInv, NEW p \in Proc,
         ReadOutcome(p) \/ FinishWrite(p) \/ ExecutorError(p) \/ CheckRead(p) \/ CheckWrite(p)
           \/ ReportDispatch(p) \/ RecoverLease(p)
  PROVE  EvidenceInv'
<1>0. proc[p].verdict = "completed" => AllCompleted BY DEF EvidenceInv, CompletedIsSeen
<1>1. CASE ReadOutcome(p) BY <1>1, GotoVerdict, CompletedSummary, EvidenceKept DEF ReadOutcome
<1>2. CASE FinishWrite(p)
  <2>1. \A q \in Proc : proc'[q].verdict \in {proc[q].verdict, "none", proc[p].verdict}
    BY <1>2, GotoVerdict, LeaveVerdict DEF FinishWrite
  <2>2. run' = run \/ run' = Finished(proc[p].verdict) BY <1>2 DEF FinishWrite
  <2>3. UNCHANGED <<task, inv, flight, poll, dispatch>> BY <1>2 DEF FinishWrite
  <2>4. proc[p].verdict \in TerminalRun BY <1>2 DEF FinishWrite, LeaseInv, VerdictOK
  <2>. QED BY <1>0, <2>1, <2>2, <2>3, <2>4, EvidenceKept DEF Finished
<1>3. CASE ExecutorError(p)
  BY <1>3, StoppedVerdict, EvidenceKept DEF ExecutorError, Finished
<1>4. CASE CheckRead(p) BY <1>4, GotoVerdict, CompletedSummary, EvidenceKept DEF CheckRead
<1>5. CASE CheckWrite(p)
  <2>1. \A q \in Proc : proc'[q].verdict \in {proc[q].verdict, Reconcile, "finished"}
    BY <1>5, GotoVerdict DEF CheckWrite
  <2>2. proc[p].verdict \in TerminalRun BY <1>5 DEF CheckWrite, LeaseInv, VerdictOK
  <2>. QED BY <1>0, <1>5, <2>1, <2>2, EvidenceKept DEF CheckWrite, Finished
<1>6. CASE ReportDispatch(p)
  <2>1. dispatch'.state # "none" => run # "none"
    BY <1>6 DEF ReportDispatch, EvidenceInv, SubmittedHasRun, LeaseInv, TokensDrawn, DispatchOwned
  <2>. QED BY <1>6, <2>1, LeaveVerdict, EvidenceKept DEF ReportDispatch
<1>7. CASE RecoverLease(p)
  BY <1>7, LeaveVerdict, RecoveryRows, EvidenceKept DEF RecoverLease
<1>. QED BY <1>1, <1>2, <1>3, <1>4, <1>5, <1>6, <1>7

LEMMA FinalizeEvidence ==
  ASSUME LeaseInv, EvidenceInv, NEW w \in Proc, Finalize(w) PROVE EvidenceInv'
<1>. USE TreeAssumption
<1>0. Leave(w) /\ UNCHANGED <<claimedBy, inv, run, dispatch, poll, flight, nextToken>>
  BY DEF Finalize
<1>1. proc[w].verdict = "completed" => task[Root].status = "completed"
  BY DEF EvidenceInv, CompletedIsSeen, AllCompleted
<1>2. \/ UNCHANGED task
      \/ /\ task[Root].status \in {"pending", "in_progress"}
         /\ \E status \in {"failed", "cancelled"} : SetStatus(Root, status)
  BY <1>1 DEF Finalize, LeaseInv, VerdictOK
<1>3. \A t \in Task :
        \/ task'[t] = task[t]
        \/ task[t].status # "completed" /\ task'[t].status \in {"failed", "cancelled"}
  BY <1>2 DEF SetStatus, LeaseInv, TypeOK
<1>4. ResultRecorded' BY <1>0, <1>3 DEF EvidenceInv, ResultRecorded, BusinessOpen
<1>5. NodesEvidenced' BY <1>0, <1>3 DEF EvidenceInv, NodesEvidenced
<1>. QED BY <1>0, <1>3, <1>4, <1>5, LeaveVerdict, NodesKept

LEMMA InterruptEvidence ==
  ASSUME LeaseInv, EvidenceInv, NEW p \in Proc, Interrupt(p), UNCHANGED run
  PROVE  /\ ResultRecorded' /\ NodesEvidenced'
         /\ \A t \in Task : task[t].status = "completed" => task'[t].status = "completed"
<1>. USE DEF Interrupt, EvidenceInv, LeaseInv, TypeOK
<1>1. \A t \in Task : \/ flight'[t] = flight[t] /\ inv'[t] = inv[t] /\ task'[t] = task[t]
                      \/ flight'[t] = "none" /\ inv[t] \in {inv'[t], "running"}
                           /\ (task[t].status = "completed" <=> task'[t].status = "completed")
  OBVIOUS
<1>2. ResultRecorded' BY <1>1 DEF ResultRecorded, BusinessOpen
<1>3. NodesEvidenced' BY <1>1 DEF NodesEvidenced
<1>. QED BY <1>1, <1>2, <1>3

LEMMA StopEvidence ==
  ASSUME LeaseInv, EvidenceInv, NEW p \in Proc, Stop(p) PROVE EvidenceInv'
<1>1. CASE LoseLease(p)
  <2>1. \A q \in Proc : proc'[q].verdict = "completed" => proc[q].verdict = "completed"
    BY <1>1, GotoVerdict DEF LoseLease
  <2>. QED BY <1>1, <2>1, InterruptEvidence, NodesKept DEF LoseLease
<1>2. CASE Shutdown(p)
  <2>1. \A q \in Proc : proc'[q].verdict = "completed" => proc[q].verdict = "completed"
    BY <1>2, GotoVerdict, LeaveVerdict DEF Shutdown
  <2>. QED BY <1>2, <2>1, InterruptEvidence, NodesKept DEF Shutdown
<1>3. CASE Crash(p)
  <2>1. \A d \in Dispatcher : poll'[d].verdict = "finished" => poll[d].verdict = "finished"
    BY <1>3 DEF Crash
  <2>2. \A t \in Task : flight'[t] \in {flight[t], "none"} BY <1>3 DEF Crash
  <2>. QED BY <1>3, <2>1, <2>2, LeaveVerdict, EvidenceKept DEF Crash
<1>. QED BY <1>1, <1>2, <1>3, EndingEvidence DEF Stop

LEMMA CancelEvidence ==
  ASSUME LeaseInv, EvidenceInv, NEW t \in Task, Cancel(t) PROVE EvidenceInv'
<1>0. UNCHANGED <<claimedBy, inv, run, dispatch, lease, proc, poll, flight, nextToken>>
  BY DEF Cancel, RequestCancel, CancelPending, ConfirmStop
<1>1. \A s \in Task :
        \/ task'[s] = task[s]
        \/ task[s].status # "completed" /\ task'[s].status = "cancelled"
        \/ task'[s].status = task[s].status /\ task'[s].cancel
  BY DEF LeaseInv, TypeOK, Cancel, RequestCancel, CancelPending, ConfirmStop, SetStatus
<1>2. ResultRecorded' BY <1>0, <1>1 DEF EvidenceInv, ResultRecorded, BusinessOpen
<1>3. NodesEvidenced' BY <1>0, <1>1 DEF EvidenceInv, NodesEvidenced
<1>. QED BY <1>0, <1>1, <1>2, <1>3, NodesKept

LEMMA NextEvidence == LeaseInv /\ EvidenceInv /\ [Next]_vars => EvidenceInv'
<1>. SUFFICES ASSUME LeaseInv, EvidenceInv, [Next]_vars PROVE EvidenceInv' OBVIOUS
<1>1. ASSUME NEW l \in Local, Request(l) PROVE EvidenceInv'
  <2>1. \A q \in Proc : proc'[q].verdict = "completed" => proc[q].verdict = "completed"
    BY <1>1 DEF Request, LeaseInv, TypeOK
  <2>. QED BY <1>1, <2>1, EvidenceKept DEF Request
<1>2. ASSUME NEW p \in Proc, Progress(p) PROVE EvidenceInv'
  BY <1>2, EnterEvidence, RunNodeEvidence, EndingEvidence, FinalizeEvidence DEF Progress
<1>3. CASE ExpireDispatch BY <1>3, EvidenceKept DEF ExpireDispatch
<1>4. CASE ExpireLease BY <1>4, EvidenceKept DEF ExpireLease
<1>5. CASE CleanupExpiredLeases
  BY <1>5, RecoveryRows, EvidenceKept DEF CleanupExpiredLeases
<1>6. CASE CancelFinish
  <2>1. run' \in {run, FinishStatus} BY <1>6 DEF CancelFinish, Finished
  <2>. QED BY <1>6, <2>1, TerminalStays, FinishType, CompletedSummary, EvidenceKept
       DEF CancelFinish
<1>7. CASE UNCHANGED vars BY <1>7, EvidenceKept DEF vars
<1>. QED BY <1>1, <1>2, <1>3, <1>4, <1>5, <1>6, <1>7, AcceptEvidence, PollEvidence,
         TakeEvidence, StopEvidence, CancelEvidence DEF Next

THEOREM EvidenceInvariant == Spec => []EvidenceInv
<1>1. LeaseInv /\ EvidenceInv /\ [Next]_vars => EvidenceInv' BY NextEvidence
<1>. QED BY InitEvidence, <1>1, LeaseInvariant, PTL DEF Spec

\* A run that is called completed has every node completed, by an invocation recorded
\* as such or by a frozen result: whatever recoveries, late owners, requests in process
\* and cancellations interleave (runs.py, finish_from_tasks; dispatch.py, _recover).
THEOREM EvidencedCompletion == Spec => []CompletedIsEvidenced
<1>1. EvidenceInv => CompletedIsEvidenced
  BY DEF EvidenceInv, CompletedIsSeen, NodesEvidenced, CompletedIsEvidenced, AllCompleted
<1>. QED BY <1>1, EvidenceInvariant, PTL

-----------------------------------------------------------------------------
(* A submission that waits in the queue is untouched.                       *)

InvocationsStarted == \A t \in Task : inv[t] # "none" \/ flight[t] # "none" => Started(t)

\* A request executes only a run that was started, until the root is submitted.
RequestRunStarted ==
  \A l \in Local : proc[l].at = "executing" /\ dispatch.state = "none" =>
    run \notin {"none", "accepted"}

\* Either requests execute the root in process or a worker leases it.
OneKindOfOwner == Local = {} \/ lease.owner = NoToken

ReadmissionInv ==
  /\ InvocationsStarted /\ ReadmittedIsUntouched /\ PollIsCurrent /\ StartedShows
  /\ LeasedRunStarted /\ RequestRunStarted /\ OneKindOfOwner

\* A process that executes after a step did so before, or the run was started.
ExecutesOn ==
  \A p \in Proc : proc'[p].at \in {"executing", "finishing"} =>
    \/ run' \notin {"none", "accepted"}
    \/ /\ proc[p].at \in {"executing", "finishing"} /\ proc'[p].token = proc[p].token
       /\ proc'[p].at = "executing" => proc[p].at = "executing"

\* A run goes back to the queue only when nothing of it was started and nobody leases
\* it, or through its dispatch row.
GoesBackUntouched ==
  run' \in {"none", "accepted"} =>
    \/ run \in {"none", "accepted"}
    \/ Local = {} /\ lease'.owner = NoToken /\ \A t \in Task : ~Started(t)
    \/ dispatch'.state # "none"

\* A step that claims no node and hands no lease on.
LEMMA ReadmissionKept ==
  ASSUME LeaseInv, ReadmissionInv, UNCHANGED claimedBy, ExecutesOn, GoesBackUntouched,
         \A t \in Task : inv'[t] # "none" \/ flight'[t] # "none" => Started(t),
         dispatch'.state = "accepted" =>
           dispatch.state = "accepted" \/ \A t \in Task : ~Started(t),
         dispatch'.state = "none" => dispatch.state = "none",
         PollIsCurrent',
         lease'.owner \in {lease.owner, NoToken},
         proc' \in [Proc -> [at: Place, token: Token, verdict: Verdict]], TokensDrawn'
  PROVE  ReadmissionInv'
<1>. USE DEF ReadmissionInv
<1>0. \A t \in Task : Started(t)' <=> Started(t) BY StartedStays
<1>1. InvocationsStarted' BY <1>0 DEF InvocationsStarted
<1>2. ReadmittedIsUntouched' BY <1>0 DEF ReadmittedIsUntouched
<1>3. StartedShows' BY <1>0 DEF StartedShows, GoesBackUntouched
<1>4. LeasedRunStarted'
  <2>. SUFFICES ASSUME NEW w \in Worker, proc'[w].at \in {"executing", "finishing"},
                       lease'.owner = proc'[w].token, dispatch'.state = "none",
                       run' \in {"none", "accepted"}
                PROVE  FALSE
    BY DEF LeasedRunStarted
  <2>1. proc'[w].token # NoToken BY DEF TokensDrawn
  <2>2. proc[w].at \in {"executing", "finishing"} /\ lease.owner = proc[w].token
    BY <2>1 DEF ExecutesOn
  <2>3. run \in {"none", "accepted"} BY <2>1 DEF GoesBackUntouched
  <2>. QED BY <2>2, <2>3 DEF LeasedRunStarted
<1>5. RequestRunStarted'
  <2>. SUFFICES ASSUME NEW l \in Local, proc'[l].at = "executing", dispatch'.state = "none",
                       run' \in {"none", "accepted"}
                PROVE  FALSE
    BY DEF RequestRunStarted
  <2>. QED BY DEF RequestRunStarted, ExecutesOn, GoesBackUntouched
<1>6. OneKindOfOwner' BY DEF OneKindOfOwner
<1>. QED BY <1>1, <1>2, <1>3, <1>4, <1>5, <1>6

\* Most steps touch neither the dispatch row nor what a poll read.
LEMMA ReadmissionQuiet ==
  ASSUME LeaseInv, LeaseInv', ReadmissionInv, UNCHANGED <<claimedBy, dispatch, poll>>,
         ExecutesOn, GoesBackUntouched,
         \A t \in Task : inv'[t] # "none" \/ flight'[t] # "none" => Started(t),
         lease'.owner \in {lease.owner, NoToken}
  PROVE  ReadmissionInv'
<1>1. PollIsCurrent' BY StartedStays DEF ReadmissionInv, PollIsCurrent
<1>. QED BY <1>1, ReadmissionKept DEF LeaseInv, TypeOK

\* Who moves on, leaves or stays, does not begin to execute.
LEMMA GotoExecutes ==
  ASSUME LeaseInv, NEW p \in Proc, NEW place, NEW verdict, Goto(p, place, verdict),
         place \notin {"executing", "finishing"} \/ run' \notin {"none", "accepted"}
           \/ (place = "finishing" /\ proc[p].at = "executing")
  PROVE  ExecutesOn
BY DEF LeaseInv, TypeOK, Goto, ExecutesOn

LEMMA LeaveExecutes ==
  ASSUME LeaseInv, NEW p \in Proc, Leave(p) PROVE ExecutesOn
BY DEF LeaseInv, TypeOK, Leave, ExecutesOn

LEMMA StoppedExecutes ==
  ASSUME LeaseInv, NEW p \in Proc, Raised(p) \/ Refused(p) PROVE ExecutesOn
BY GotoExecutes, LeaveExecutes DEF Raised, Refused

LEMMA InitReadmission == (Local = {} \/ Worker = {}) /\ Init => ReadmissionInv
<1>. SUFFICES ASSUME Init PROVE ReadmissionInv OBVIOUS
<1>. USE MaxTokenAssumption DEF Init
<1>1. InvocationsStarted /\ ReadmittedIsUntouched /\ StartedShows
  BY DEF InvocationsStarted, ReadmittedIsUntouched, StartedShows, Started
<1>2. PollIsCurrent /\ LeasedRunStarted /\ RequestRunStarted /\ OneKindOfOwner
  BY DEF PollIsCurrent, LeasedRunStarted, RequestRunStarted, OneKindOfOwner
<1>. QED BY <1>1, <1>2 DEF ReadmissionInv

LEMMA AcceptReadmission ==
  ASSUME LeaseInv, LeaseInv', ReadmissionInv, Accept PROVE ReadmissionInv'
<1>1. UNCHANGED <<task, claimedBy, inv, lease, proc, poll, flight, nextToken>> BY DEF Accept
<1>2. run \in {"none", "accepted"} BY DEF Accept, EnsuredRun
<1>3. dispatch.state = "none" /\ dispatch' = [dispatch EXCEPT !.state = "accepted"] BY DEF Accept
<1>4. dispatch'.state = "accepted" /\ dispatch'.owner = NoToken /\ ~dispatch'.live
  BY <1>3 DEF LeaseInv, TypeOK, DispatchOwned
<1>5. \A t \in Task : ~Started(t) BY <1>2, <1>3 DEF ReadmissionInv, StartedShows
<1>6. ExecutesOn BY <1>1 DEF ExecutesOn
<1>7. GoesBackUntouched BY <1>2 DEF GoesBackUntouched
<1>8. PollIsCurrent' BY <1>1, <1>4, <1>5, StartedStays DEF PollIsCurrent
<1>9. \A t \in Task : inv'[t] # "none" \/ flight'[t] # "none" => Started(t)
  BY <1>1 DEF ReadmissionInv, InvocationsStarted
<1>. QED BY <1>1, <1>3, <1>4, <1>5, <1>6, <1>7, <1>8, <1>9, ReadmissionKept DEF LeaseInv, TypeOK

LEMMA PollReadmission ==
  ASSUME LeaseInv, LeaseInv', ReadmissionInv, NEW d \in Dispatcher, Poll(d)
  PROVE  ReadmissionInv'
<1>1. CASE RecoverRead(d)
  <2>1. UNCHANGED <<task, claimedBy, inv, run, dispatch, lease, proc, flight, nextToken>>
    BY <1>1 DEF RecoverRead
  <2>2. RecoveryVerdict = "accepted" => \A t \in Task : ~Started(t) BY DEF RecoveryVerdict
  <2>3. \A e \in Dispatcher : poll'[e] = poll[e] \/ (poll'[e].verdict = RecoveryVerdict /\ ~dispatch.live)
    BY <1>1 DEF RecoverRead, LeaseInv, TypeOK
  <2>4. PollIsCurrent' BY <2>1, <2>2, <2>3, StartedStays DEF ReadmissionInv, PollIsCurrent
  <2>5. ExecutesOn /\ GoesBackUntouched BY <2>1 DEF ExecutesOn, GoesBackUntouched
  <2>6. \A t \in Task : inv'[t] # "none" \/ flight'[t] # "none" => Started(t)
    BY <2>1 DEF ReadmissionInv, InvocationsStarted
  <2>. QED BY <2>1, <2>4, <2>5, <2>6, ReadmissionKept DEF LeaseInv, TypeOK
<1>2. CASE RecoverCommit(d)
  <2>0. UNCHANGED <<task, claimedBy, lease, proc, flight, nextToken>> BY <1>2 DEF RecoverCommit
  <2>1. \A e \in Dispatcher : poll'[e] = poll[e] \/ poll'[e].verdict = "none"
    BY <1>2 DEF RecoverCommit, LeaseInv, TypeOK
  <2>2. \/ UNCHANGED <<dispatch, run>>
        \/ /\ dispatch'.owner = NoToken /\ ~dispatch'.live /\ dispatch'.state # "none"
           /\ dispatch'.state = "accepted" =>
                poll[d].verdict = "accepted" /\ poll[d].token = dispatch.owner
    BY <1>2 DEF RecoverCommit, LeaseInv, TypeOK
  <2>3. dispatch'.state = "accepted" =>
          dispatch.state = "accepted" \/ \A t \in Task : ~Started(t)
    BY <2>2 DEF ReadmissionInv, PollIsCurrent
  <2>4. \A e \in Dispatcher : poll[e].verdict = "accepted" => poll[e].token # NoToken
    BY DEF LeaseInv, TokensDrawn
  <2>5. PollIsCurrent' BY <2>0, <2>1, <2>2, <2>4, StartedStays DEF ReadmissionInv, PollIsCurrent
  <2>6. ExecutesOn BY <2>0 DEF ExecutesOn
  <2>7. GoesBackUntouched BY <2>2 DEF GoesBackUntouched
  <2>8. inv' = inv \/ inv' = ReconciledInv BY <1>2 DEF RecoverCommit
  <2>9. \A t \in Task : inv'[t] # "none" \/ flight'[t] # "none" => Started(t)
    BY <2>0, <2>8 DEF ReadmissionInv, InvocationsStarted, ReconciledInv
  <2>. QED BY <2>0, <2>2, <2>3, <2>5, <2>6, <2>7, <2>9, ReadmissionKept DEF LeaseInv, TypeOK
<1>3. CASE Claim(d)
  <2>1. UNCHANGED <<task, claimedBy, inv, run, lease, poll, flight>> BY <1>3 DEF Claim
  <2>2. dispatch' = [state |-> "running", owner |-> nextToken + 1, live |-> TRUE]
    BY <1>3 DEF Claim
  <2>3. \A e \in Dispatcher : poll[e].token # nextToken + 1
    BY MaxTokenAssumption DEF LeaseInv, TokensDrawn, TypeOK
  <2>4. PollIsCurrent' BY <2>1, <2>2, <2>3 DEF PollIsCurrent
  <2>5. ExecutesOn BY <1>3 DEF Claim, ExecutesOn, LeaseInv, TypeOK
  <2>6. GoesBackUntouched BY <2>1 DEF GoesBackUntouched
  <2>7. \A t \in Task : inv'[t] # "none" \/ flight'[t] # "none" => Started(t)
    BY <2>1 DEF ReadmissionInv, InvocationsStarted
  <2>. QED BY <2>1, <2>2, <2>4, <2>5, <2>6, <2>7, ReadmissionKept DEF LeaseInv, TypeOK
<1>. QED BY <1>1, <1>2, <1>3 DEF Poll

\* What giving a worker's lease up, or taking an expired one, does to the run.
LEMMA RecoveredUntouched ==
  ASSUME LeaseInv, ReadmissionInv, UNCHANGED <<claimedBy, flight>>,
         \/ UNCHANGED <<run, inv>>
         \/ /\ run' = ReconciledRun /\ inv' = ReconciledInv
            /\ lease.owner # NoToken /\ lease'.owner = NoToken
  PROVE  /\ GoesBackUntouched
         /\ \A t \in Task : inv'[t] # "none" \/ flight'[t] # "none" => Started(t)
<1>1. \A t \in Task : inv'[t] # "none" \/ flight'[t] # "none" => Started(t)
  BY DEF ReadmissionInv, InvocationsStarted, ReconciledInv
<1>2. CASE UNCHANGED run BY <1>1, <1>2 DEF GoesBackUntouched
<1>3. CASE run' = ReconciledRun /\ lease.owner # NoToken /\ lease'.owner = NoToken
  BY <1>1, <1>3, ReconciledStatus
  DEF GoesBackUntouched, ReadmissionInv, OneKindOfOwner, LeaseInv, TypeOK
<1>. QED BY <1>1, <1>2, <1>3

LEMMA TakeReadmission ==
  ASSUME LeaseInv, LeaseInv', ReadmissionInv, Local = {}, NEW w \in Worker, Take(w)
  PROVE  ReadmissionInv'
<1>1. CASE Find(w)
  <2>1. ExecutesOn /\ GoesBackUntouched
    BY <1>1 DEF Find, ExecutesOn, GoesBackUntouched, LeaseInv, TypeOK
  <2>2. \A t \in Task : inv'[t] # "none" \/ flight'[t] # "none" => Started(t)
    BY <1>1 DEF Find, ReadmissionInv, InvocationsStarted
  <2>. QED BY <1>1, <2>1, <2>2, ReadmissionQuiet DEF Find
<1>2. CASE Acquire(w)
  <2>0. UNCHANGED <<task, claimedBy, dispatch, poll, flight>> BY <1>2 DEF Acquire
  <2>1. dispatch.state = "none" /\ run \in {"none", "accepted"}
    BY <1>2 DEF Acquire, AcquireRefused
  <2>2. \A t \in Task : ~Started(t) BY <2>1 DEF ReadmissionInv, StartedShows
  <2>3. \A t \in Task : inv'[t] = "none" /\ flight'[t] = "none"
    BY <1>2, <2>0, <2>2 DEF Acquire, ReconciledInv, ReadmissionInv, InvocationsStarted
  <2>4. InvocationsStarted' /\ ReadmittedIsUntouched' /\ StartedShows'
    BY <2>0, <2>1, <2>2, <2>3, StartedStays
    DEF InvocationsStarted, ReadmittedIsUntouched, StartedShows
  <2>5. PollIsCurrent' BY <2>0, StartedStays DEF ReadmissionInv, PollIsCurrent
  <2>6. LeasedRunStarted'
    <3>1. \A q \in Proc : proc'[q].at \in {"executing", "finishing"} =>
            proc'[q].token # lease'.owner
      BY <1>2, MaxTokenAssumption DEF Acquire, LeaseInv, TokensDrawn, TypeOK
    <3>. QED BY <3>1 DEF LeasedRunStarted
  <2>7. RequestRunStarted' /\ OneKindOfOwner' BY DEF RequestRunStarted, OneKindOfOwner
  <2>. QED BY <2>4, <2>5, <2>6, <2>7 DEF ReadmissionInv
<1>3. CASE AcquireFails(w)
  <2>1. Leave(w) /\ UNCHANGED <<task, claimedBy, dispatch, poll, flight, nextToken>>
    BY <1>3 DEF AcquireFails
  <2>2. \/ UNCHANGED <<run, inv, lease>>
        \/ /\ run' = ReconciledRun /\ inv' = ReconciledInv /\ lease' = NoLease
           /\ lease.owner # NoToken
    BY <1>3 DEF AcquireFails
  <2>. QED BY <2>1, <2>2, LeaveExecutes, RecoveredUntouched, ReadmissionQuiet
<1>. QED BY <1>1, <1>2, <1>3 DEF Take

LEMMA EnterReadmission ==
  ASSUME LeaseInv, LeaseInv', ReadmissionInv, NEW p \in Proc, Enter(p) \/ Start(p)
  PROVE  ReadmissionInv'
<1>0. UNCHANGED <<task, claimedBy, inv, dispatch, lease, poll, flight, nextToken>>
  BY DEF Enter, Start, StartRun
<1>1. \A t \in Task : inv'[t] # "none" \/ flight'[t] # "none" => Started(t)
  BY <1>0 DEF ReadmissionInv, InvocationsStarted
<1>2. CASE StartRun(p)
  <2>1. GoesBackUntouched BY <1>2 DEF StartRun, GoesBackUntouched
  <2>2. ExecutesOn
    <3>1. CASE Raised(p) BY <3>1, StoppedExecutes
    <3>2. CASE run' = "running" /\ Goto(p, "executing", "none") BY <3>2, GotoExecutes
    <3>. QED BY <1>2, <3>1, <3>2 DEF StartRun
  <2>. QED BY <1>0, <1>1, <2>1, <2>2, ReadmissionQuiet
<1>3. CASE Refused(p) /\ UNCHANGED run
  <2>1. GoesBackUntouched BY <1>3 DEF GoesBackUntouched
  <2>. QED BY <1>0, <1>1, <1>3, <2>1, StoppedExecutes, ReadmissionQuiet
<1>4. CASE run' = EnsuredRun /\ Goto(p, "admitted", "none")
  <2>1. GoesBackUntouched BY <1>4 DEF EnsuredRun, GoesBackUntouched
  <2>. QED BY <1>0, <1>1, <1>4, <2>1, GotoExecutes, ReadmissionQuiet
<1>. QED BY <1>2, <1>3, <1>4 DEF Enter, Start

\* The one step that starts a node: its executor holds a fence, or is a request that
\* started the run.
LEMMA ClaimTaskReadmission ==
  ASSUME LeaseInv, ReadmissionInv, NEW p \in Proc, NEW t \in Task, ClaimTask(p, t)
  PROVE  ReadmissionInv'
<1>. USE DEF ReadmissionInv, ClaimTask
<1>0. proc[p].token # NoToken BY DEF LeaseInv, TokensDrawn
<1>1. \A s \in Task : Started(s)' <=> Started(s) \/ s = t BY <1>0 DEF Started, LeaseInv, TypeOK
<1>2. InvocationsStarted' BY <1>1 DEF InvocationsStarted, Land, LeaseInv, TypeOK
<1>3. ReadmittedIsUntouched'
  <2>1. dispatch.state # "accepted" BY DEF Claimable, Fence
  <2>. QED BY <2>1 DEF ReadmittedIsUntouched
<1>4. PollIsCurrent'
  <2>1. dispatch.live \/ dispatch.owner = NoToken
    BY DEF Claimable, Fence, LeaseInv, DispatchOwned
  <2>2. \A d \in Dispatcher : poll[d].verdict = "accepted" => poll[d].token # NoToken
    BY DEF LeaseInv, TokensDrawn
  <2>. QED BY <2>1, <2>2 DEF PollIsCurrent
<1>5. StartedShows'
  <2>. SUFFICES ASSUME dispatch.state = "none" PROVE run \notin {"none", "accepted"}
    BY DEF StartedShows
  <2>1. p \notin Dispatcher \/ p \in Worker \/ p \in Local BY DEF Claimable, Fence
  <2>2. CASE p \in Worker
    BY <2>2, ProcessAssumption DEF Claimable, Fence, LeasedRunStarted
  <2>3. CASE p \in Local BY <2>3 DEF RequestRunStarted
  <2>. QED BY <2>1, <2>2, <2>3
<1>6. LeasedRunStarted' /\ RequestRunStarted' /\ OneKindOfOwner'
  BY DEF LeasedRunStarted, RequestRunStarted, OneKindOfOwner
<1>. QED BY <1>2, <1>3, <1>4, <1>5, <1>6

LEMMA RunNodeReadmission ==
  ASSUME LeaseInv, LeaseInv', ReadmissionInv, NEW p \in Proc, NEW t \in Task, RunNode(p, t)
  PROVE  ReadmissionInv'
<1>1. CASE ClaimTask(p, t) BY <1>1, ClaimTaskReadmission
<1>2. CASE ~ClaimTask(p, t)
  <2>1. UNCHANGED <<claimedBy, run, dispatch, lease, proc, poll, nextToken>>
    BY <1>2 DEF RunNode, BeginInvocation, CancelClaimed, FailBeforeInvocation,
                FinishInvocation, RecordOutcome
  <2>2. flight[t] # "none"
    BY <1>2 DEF RunNode, BeginInvocation, CancelClaimed, FailBeforeInvocation,
                FinishInvocation, RecordOutcome, InFlight
  <2>3. \A s \in Task : s # t => inv'[s] = inv[s] /\ flight'[s] = flight[s]
    BY <1>2 DEF RunNode, BeginInvocation, CancelClaimed, FailBeforeInvocation,
                FinishInvocation, RecordOutcome, Land, LeaseInv, TypeOK
  <2>4. \A s \in Task : inv'[s] # "none" \/ flight'[s] # "none" => Started(s)
    BY <2>2, <2>3 DEF ReadmissionInv, InvocationsStarted
  <2>5. ExecutesOn /\ GoesBackUntouched BY <2>1 DEF ExecutesOn, GoesBackUntouched
  <2>. QED BY <2>1, <2>4, <2>5, ReadmissionQuiet
<1>. QED BY <1>1, <1>2

LEMMA EndingReadmission ==
  ASSUME LeaseInv, LeaseInv', ReadmissionInv, NEW p \in Proc,
         ReadOutcome(p) \/ FinishWrite(p) \/ ExecutorError(p) \/ CheckRead(p) \/ CheckWrite(p)
  PROVE  ReadmissionInv'
<1>0. UNCHANGED <<task, claimedBy, inv, dispatch, lease, poll, flight, nextToken>>
  BY DEF ReadOutcome, FinishWrite, ExecutorError, CheckRead, CheckWrite
<1>1. \A t \in Task : inv'[t] # "none" \/ flight'[t] # "none" => Started(t)
  BY <1>0 DEF ReadmissionInv, InvocationsStarted
<1>2. GoesBackUntouched
  BY DEF ReadOutcome, FinishWrite, ExecutorError, CheckRead, CheckWrite, Finished,
         LeaseInv, VerdictOK, GoesBackUntouched
<1>3. ExecutesOn
  BY GotoExecutes, LeaveExecutes, StoppedExecutes
  DEF ReadOutcome, FinishWrite, ExecutorError, CheckRead, CheckWrite
<1>. QED BY <1>0, <1>1, <1>2, <1>3, ReadmissionQuiet

LEMMA ReportReadmission ==
  ASSUME LeaseInv, LeaseInv', ReadmissionInv, NEW p \in Proc,
         ReportDispatch(p) \/ Finalize(p) \/ RecoverLease(p)
  PROVE  ReadmissionInv'
<1>1. CASE ReportDispatch(p)
  <2>0. UNCHANGED <<task, claimedBy, inv, run, lease, poll, flight, nextToken>> /\ Leave(p)
    BY <1>1 DEF ReportDispatch
  <2>1. UNCHANGED dispatch \/ (dispatch'.owner = NoToken /\ dispatch'.state \in SettledDispatch)
    BY <1>1 DEF ReportDispatch, LeaseInv, VerdictOK
  <2>2. \A d \in Dispatcher : poll[d].verdict = "accepted" => poll[d].token # NoToken
    BY DEF LeaseInv, TokensDrawn
  <2>3. PollIsCurrent' BY <2>0, <2>1, <2>2, StartedStays DEF ReadmissionInv, PollIsCurrent
  <2>4. ExecutesOn BY <2>0, LeaveExecutes
  <2>5. GoesBackUntouched BY <2>0 DEF GoesBackUntouched
  <2>6. \A t \in Task : inv'[t] # "none" \/ flight'[t] # "none" => Started(t)
    BY <2>0 DEF ReadmissionInv, InvocationsStarted
  <2>. QED BY <2>0, <2>1, <2>3, <2>4, <2>5, <2>6, ReadmissionKept DEF LeaseInv, TypeOK
<1>2. CASE Finalize(p)
  <2>0. UNCHANGED <<claimedBy, inv, run, dispatch, poll, flight, nextToken>> /\ Leave(p)
        /\ lease' \in {lease, NoLease}
    BY <1>2 DEF Finalize
  <2>1. GoesBackUntouched BY <2>0 DEF GoesBackUntouched
  <2>2. \A t \in Task : inv'[t] # "none" \/ flight'[t] # "none" => Started(t)
    BY <2>0 DEF ReadmissionInv, InvocationsStarted
  <2>. QED BY <2>0, <2>1, <2>2, LeaveExecutes, ReadmissionQuiet
<1>3. CASE RecoverLease(p)
  <2>0. Leave(p) /\ UNCHANGED <<task, claimedBy, dispatch, poll, flight, nextToken>>
    BY <1>3 DEF RecoverLease
  <2>1. proc[p].token # NoToken BY <1>3 DEF RecoverLease, LeaseInv, TokensDrawn
  <2>2. \/ UNCHANGED <<run, inv, lease>>
        \/ /\ run' = ReconciledRun /\ inv' = ReconciledInv /\ lease' = NoLease
           /\ lease.owner # NoToken
    BY <1>3, <2>1 DEF RecoverLease
  <2>. QED BY <2>0, <2>2, LeaveExecutes, RecoveredUntouched, ReadmissionQuiet
<1>. QED BY <1>1, <1>2, <1>3

LEMMA StopReadmission ==
  ASSUME LeaseInv, LeaseInv', ReadmissionInv, NEW p \in Proc, Stop(p) PROVE ReadmissionInv'
<1>1. ASSUME Interrupt(p)
      PROVE  \A t \in Task : inv'[t] # "none" \/ flight'[t] # "none" => Started(t)
  BY <1>1 DEF Interrupt, ReadmissionInv, InvocationsStarted, LeaseInv, TypeOK
<1>2. CASE LoseLease(p)
  <2>1. UNCHANGED <<claimedBy, run, dispatch, lease, poll, nextToken>> /\ Interrupt(p)
    BY <1>2 DEF LoseLease
  <2>2. ExecutesOn
    <3>1. CASE UNCHANGED proc BY <3>1 DEF ExecutesOn
    <3>. QED BY <1>2, <3>1, GotoExecutes DEF LoseLease
  <2>3. GoesBackUntouched BY <2>1 DEF GoesBackUntouched
  <2>. QED BY <1>1, <2>1, <2>2, <2>3, ReadmissionQuiet
<1>3. CASE Shutdown(p)
  <2>1. UNCHANGED <<claimedBy, run, dispatch, lease, poll, nextToken>> /\ Interrupt(p)
    BY <1>3 DEF Shutdown
  <2>2. ExecutesOn BY <1>3, GotoExecutes, LeaveExecutes DEF Shutdown
  <2>3. GoesBackUntouched BY <2>1 DEF GoesBackUntouched
  <2>. QED BY <1>1, <2>1, <2>2, <2>3, ReadmissionQuiet
<1>4. CASE Crash(p)
  <2>1. UNCHANGED <<task, claimedBy, inv, run, dispatch, lease, nextToken>> /\ Leave(p)
    BY <1>4 DEF Crash
  <2>2. \A d \in Dispatcher : poll'[d] = poll[d] \/ poll'[d].verdict = "none" BY <1>4 DEF Crash
  <2>3. PollIsCurrent' BY <2>1, <2>2, StartedStays DEF ReadmissionInv, PollIsCurrent
  <2>4. \A t \in Task : inv'[t] # "none" \/ flight'[t] # "none" => Started(t)
    BY <1>4, <2>1 DEF Crash, ReadmissionInv, InvocationsStarted
  <2>5. GoesBackUntouched BY <2>1 DEF GoesBackUntouched
  <2>6. ExecutesOn BY <2>1, LeaveExecutes
  <2>. QED BY <2>1, <2>3, <2>4, <2>5, <2>6, ReadmissionKept DEF LeaseInv, TypeOK
<1>. QED BY <1>2, <1>3, <1>4, EndingReadmission DEF Stop

\* Expiry, the janitor and cancellations.
LEMMA OtherReadmission ==
  ASSUME LeaseInv, LeaseInv', ReadmissionInv,
         \/ ExpireDispatch \/ ExpireLease \/ CleanupExpiredLeases \/ CancelFinish
         \/ \E t \in Task : Cancel(t)
  PROVE  ReadmissionInv'
<1>1. UNCHANGED <<claimedBy, proc, poll, flight>>
  BY DEF ExpireDispatch, ExpireLease, CleanupExpiredLeases, CancelFinish, Cancel, RequestCancel,
         CancelPending, ConfirmStop
<1>2. ExecutesOn BY <1>1 DEF ExecutesOn
<1>3. CASE ExpireDispatch
  <2>1. UNCHANGED <<task, inv, run, lease, nextToken>> /\ dispatch'.state = dispatch.state
        /\ dispatch'.owner = dispatch.owner /\ ~dispatch'.live
    BY <1>3 DEF ExpireDispatch, LeaseInv, TypeOK
  <2>2. PollIsCurrent' BY <1>1, <2>1, StartedStays DEF ReadmissionInv, PollIsCurrent
  <2>3. GoesBackUntouched BY <2>1 DEF GoesBackUntouched
  <2>4. \A t \in Task : inv'[t] # "none" \/ flight'[t] # "none" => Started(t)
    BY <1>1, <2>1 DEF ReadmissionInv, InvocationsStarted
  <2>. QED BY <1>1, <1>2, <2>1, <2>2, <2>3, <2>4, ReadmissionKept DEF LeaseInv, TypeOK
<1>4. CASE CleanupExpiredLeases
  BY <1>1, <1>2, <1>4, RecoveredUntouched, ReadmissionQuiet DEF CleanupExpiredLeases
<1>5. ASSUME UNCHANGED <<inv, dispatch>>, lease'.owner = lease.owner,
             run' = run \/ run' = Finished(FinishStatus)
      PROVE  ReadmissionInv'
  <2>1. GoesBackUntouched BY <1>5, FinishType DEF GoesBackUntouched, Finished
  <2>2. \A t \in Task : inv'[t] # "none" \/ flight'[t] # "none" => Started(t)
    BY <1>1, <1>5 DEF ReadmissionInv, InvocationsStarted
  <2>. QED BY <1>1, <1>2, <1>5, <2>1, <2>2, ReadmissionQuiet
<1>6. CASE ExpireLease BY <1>5, <1>6 DEF ExpireLease, LeaseInv, TypeOK
<1>7. CASE CancelFinish BY <1>5, <1>7 DEF CancelFinish
<1>8. CASE \E t \in Task : Cancel(t)
  BY <1>5, <1>8 DEF Cancel, RequestCancel, CancelPending, ConfirmStop
<1>. QED BY <1>3, <1>4, <1>6, <1>7, <1>8

LEMMA NextReadmission ==
  (Local = {} \/ Worker = {}) /\ LeaseInv /\ LeaseInv' /\ ReadmissionInv /\ [Next]_vars
    => ReadmissionInv'
<1>. SUFFICES ASSUME Local = {} \/ Worker = {}, LeaseInv, LeaseInv', ReadmissionInv, [Next]_vars
              PROVE  ReadmissionInv'
  OBVIOUS
<1>1. ASSUME NEW l \in Local, Request(l) PROVE ReadmissionInv'
  <2>1. UNCHANGED <<task, claimedBy, inv, run, dispatch, lease, poll, flight>>
    BY <1>1 DEF Request
  <2>2. ExecutesOn BY <1>1 DEF Request, ExecutesOn, LeaseInv, TypeOK
  <2>3. GoesBackUntouched BY <2>1 DEF GoesBackUntouched
  <2>4. \A t \in Task : inv'[t] # "none" \/ flight'[t] # "none" => Started(t)
    BY <2>1 DEF ReadmissionInv, InvocationsStarted
  <2>. QED BY <2>1, <2>2, <2>3, <2>4, ReadmissionQuiet
<1>2. ASSUME NEW w \in Worker, Take(w) PROVE ReadmissionInv' BY <1>2, TakeReadmission
<1>3. ASSUME NEW p \in Proc, Progress(p) PROVE ReadmissionInv'
  BY <1>3, EnterReadmission, RunNodeReadmission, EndingReadmission, ReportReadmission DEF Progress
<1>4. CASE UNCHANGED vars
  <2>1. ExecutesOn /\ GoesBackUntouched BY <1>4 DEF vars, ExecutesOn, GoesBackUntouched
  <2>2. \A t \in Task : inv'[t] # "none" \/ flight'[t] # "none" => Started(t)
    BY <1>4 DEF vars, ReadmissionInv, InvocationsStarted
  <2>. QED BY <1>4, <2>1, <2>2, ReadmissionQuiet DEF vars
<1>. QED BY <1>1, <1>2, <1>3, <1>4, AcceptReadmission, PollReadmission, StopReadmission,
         OtherReadmission DEF Next

\* What recoveries and late owners never do, however many dispatchers there are: begin
\* the work of a tree twice, or call it completed without evidence.  Of workers and
\* requests in process only one kind may execute the root: a janitor that recovers a
\* worker's lease under a request in process puts a started run back in the queue.
THEOREM SafeRecovery == (Local = {} \/ Worker = {}) /\ Spec => []RecoveryIsSafe
<1>. SUFFICES ASSUME Local = {} \/ Worker = {} PROVE Spec => []RecoveryIsSafe OBVIOUS
<1>1. Init => ReadmissionInv BY InitReadmission
<1>2. LeaseInv /\ LeaseInv' /\ ReadmissionInv /\ [Next]_vars => ReadmissionInv'
  BY NextReadmission
<1>3. ReadmissionInv /\ CompletedIsEvidenced => RecoveryIsSafe
  BY DEF ReadmissionInv, RecoveryIsSafe
<1>. QED BY <1>1, <1>2, <1>3, LeaseInvariant, EvidencedCompletion, PTL DEF Spec

-----------------------------------------------------------------------------
(* The rows implement the run their caller sees.                            *)

\* A verdict an owner is about to write is still what the tree says.
OutcomeStands ==
  \A p \in Proc, status \in {"failed", "cancelled"} :
    /\ proc[p].at \in {"finishing", "settling"} /\ Owns(p)
    /\ proc[p].verdict = status
    => HasStatus(status) /\ ~HasStatus("in_progress")

\* What a step does to the nodes: some end, and none begins.
NodesOnlyEnd ==
  \A t \in Task :
    \/ task'[t].status = task[t].status
    \/ task[t].status \in {"pending", "in_progress"}
       /\ task'[t].status \in {"completed", "failed", "cancelled"}

LEMMA OutcomeKept ==
  ASSUME OutcomeStands, NodesOnlyEnd,
         \A p \in Proc : proc'[p].at \in {"finishing", "settling"} /\ Owns(p)' =>
           \/ \A status \in {"failed", "cancelled"} : proc'[p].verdict = status =>
                HasStatus(status) /\ ~HasStatus("in_progress")
           \/ /\ proc[p].at \in {"finishing", "settling"} /\ Owns(p)
              /\ proc'[p].verdict = proc[p].verdict
  PROVE  OutcomeStands'
<1>. SUFFICES ASSUME NEW p \in Proc, NEW status \in {"failed", "cancelled"},
                     proc'[p].at \in {"finishing", "settling"}, Owns(p)',
                     proc'[p].verdict = status
              PROVE  HasStatus(status)' /\ ~HasStatus("in_progress")'
  BY DEF OutcomeStands
<1>1. HasStatus(status) /\ ~HasStatus("in_progress") BY DEF OutcomeStands
<1>. QED BY <1>1 DEF HasStatus, NodesOnlyEnd

LEMMA NodesStay == ASSUME UNCHANGED task PROVE NodesOnlyEnd
BY DEF NodesOnlyEnd

LEMMA SetStatusEnds ==
  ASSUME TypeOK, NEW t \in Task, task[t].status \in {"pending", "in_progress"},
         NEW status \in {"completed", "failed", "cancelled"}, SetStatus(t, status)
  PROVE  NodesOnlyEnd
BY DEF TypeOK, SetStatus, NodesOnlyEnd

LEMMA FailNodeEnds ==
  ASSUME TypeOK, NEW p, NEW t \in Task, NEW unknown, FailNode(p, t, unknown)
  PROVE  NodesOnlyEnd
BY DEF TypeOK, FailNode, NodesOnlyEnd

\* An owner that is about to write had its verdict, and owned the run, before the step.
LEMMA OwnerStayed ==
  ASSUME LeaseInv, LeaseInv', OutcomeStands, NodesOnlyEnd,
         dispatch' = dispatch \/ dispatch'.owner = NoToken \/ ~dispatch'.live,
         lease' = lease \/ lease'.owner = NoToken \/ ~lease'.live,
         \A p \in Proc : proc'[p].at \in {"finishing", "settling"} => proc'[p] = proc[p]
  PROVE  OutcomeStands'
<1>. SUFFICES ASSUME NEW p \in Proc, proc'[p].at \in {"finishing", "settling"}, Owns(p)'
              PROVE  proc'[p] = proc[p] /\ Owns(p)
  BY OutcomeKept
<1>1. proc'[p] = proc[p] OBVIOUS
<1>2. proc'[p].token # NoToken BY DEF LeaseInv, TokensDrawn
<1>3. Owns(p) BY <1>1, <1>2 DEF Owns
<1>. QED BY <1>1, <1>3

LEMMA GotoOther ==
  ASSUME LeaseInv, NEW p \in Proc, NEW place, NEW verdict,
         place \notin {"finishing", "settling"}, Goto(p, place, verdict)
  PROVE  \A q \in Proc : proc'[q].at \in {"finishing", "settling"} => proc'[q] = proc[q]
BY DEF LeaseInv, TypeOK, Goto

LEMMA LeaveOther ==
  ASSUME LeaseInv, NEW p \in Proc, Leave(p)
  PROVE  \A q \in Proc : proc'[q].at \in {"finishing", "settling"} => proc'[q] = proc[q]
BY DEF LeaseInv, TypeOK, Leave

LEMMA StoppedOther ==
  ASSUME LeaseInv, NEW p \in Proc, Raised(p) \/ Refused(p)
  PROVE  \A q \in Proc : proc'[q].at \in {"finishing", "settling"} => proc'[q] = proc[q]
BY GotoOther, LeaveOther DEF Raised, Refused

\* The verdict is read from the tree it will be written about.
LEMMA ReadStands ==
  ASSUME NEW status \in {"failed", "cancelled"}, FinishStatus = status
  PROVE  HasStatus(status) /\ ~HasStatus("in_progress")
BY DEF FinishStatus, Summary

LEMMA ReadOutcomeStands ==
  ASSUME LeaseInv, OutcomeStands, NEW p \in Proc, NEW place,
         Goto(p, place, FinishStatus), UNCHANGED <<task, dispatch, lease>>
  PROVE  OutcomeStands'
<1>1. \A q \in Proc : q # p => proc'[q] = proc[q] BY DEF LeaseInv, TypeOK, Goto
<1>2. proc'[p].verdict = FinishStatus BY DEF LeaseInv, TypeOK, Goto
<1>3. \A q \in Proc : q # p /\ Owns(q)' => Owns(q) BY <1>1 DEF Owns
<1>. QED BY <1>1, <1>2, <1>3, ReadStands, NodesStay, OutcomeKept

\* While an owner is about to write, nobody claims.
OwnerIsAlone ==
  \A p, q \in Proc :
    /\ p # q /\ proc[q].at = "executing" /\ Fence(q)
    /\ proc[p].at \in {"finishing", "settling"}
    => ~Owns(p)

\* Only a dispatcher reads the tree again to settle its row.
DispatchersSettle ==
  \A p \in Proc : proc[p].at \in {"checking", "settling"} => p \in Dispatcher

LEMMA DispatchersSettleOn ==
  ASSUME LeaseInv, DispatchersSettle, NEW p \in Proc, NEW place, NEW verdict,
         \/ Leave(p)
         \/ /\ Goto(p, place, verdict)
            /\ p \in Dispatcher \/ place \notin {"checking", "settling"}
  PROVE  DispatchersSettle'
<1>1. CASE Leave(p) BY <1>1 DEF LeaseInv, TypeOK, Leave, Idle, DispatchersSettle
<1>2. CASE Goto(p, place, verdict) /\ (p \in Dispatcher \/ place \notin {"checking", "settling"})
  BY <1>2 DEF LeaseInv, TypeOK, Goto, DispatchersSettle
<1>. QED BY <1>1, <1>2

LEMMA NextSettles ==
  LeaseInv /\ DispatchersSettle /\ [Next]_vars => DispatchersSettle'
<1>. SUFFICES ASSUME LeaseInv, DispatchersSettle, [Next]_vars PROVE DispatchersSettle' OBVIOUS
<1>1. ASSUME UNCHANGED proc PROVE DispatchersSettle' BY <1>1 DEF DispatchersSettle
<1>2. ASSUME NEW p \in Proc, NEW place \in Place \ {"checking", "settling"}, NEW token,
             NEW verdict,
             proc' = [proc EXCEPT ![p] = [at |-> place, token |-> token, verdict |-> verdict]]
      PROVE  DispatchersSettle'
  BY <1>2 DEF LeaseInv, TypeOK, DispatchersSettle
<1>3. ASSUME NEW p \in Proc, Raised(p) \/ Refused(p) PROVE DispatchersSettle'
  BY <1>3, DispatchersSettleOn DEF Raised, Refused
<1>4. ASSUME NEW d \in Dispatcher, Poll(d) PROVE DispatchersSettle'
  <2>1. d \in Proc /\ "entering" \in Place \ {"checking", "settling"} BY DEF Proc, Place
  <2>. QED BY <1>1, <1>2, <1>4, <2>1 DEF Poll, RecoverRead, RecoverCommit, Claim
<1>5. ASSUME NEW w \in Worker, Take(w) PROVE DispatchersSettle'
  <2>1. w \in Proc /\ "entering" \in Place \ {"checking", "settling"} BY DEF Proc, Place
  <2>2. CASE Find(w) BY <2>1, <2>2 DEF Find, LeaseInv, TypeOK, DispatchersSettle
  <2>3. CASE Acquire(w) BY <1>2, <2>1, <2>3 DEF Acquire
  <2>4. CASE AcquireFails(w) BY <2>1, <2>4, DispatchersSettleOn DEF AcquireFails
  <2>. QED BY <1>5, <2>2, <2>3, <2>4 DEF Take
<1>6. ASSUME NEW l \in Local, Request(l) PROVE DispatchersSettle'
  <2>1. l \in Proc /\ "entering" \in Place \ {"checking", "settling"} BY DEF Proc, Place
  <2>. QED BY <1>2, <1>6, <2>1 DEF Request
<1>7. ASSUME NEW p \in Proc, Progress(p) PROVE DispatchersSettle'
  <2>1. ASSUME NEW t \in Task, RunNode(p, t) PROVE UNCHANGED proc
    BY <2>1 DEF RunNode, ClaimTask, BeginInvocation, CancelClaimed, FailBeforeInvocation,
                FinishInvocation, RecordOutcome
  <2>2. CASE Enter(p) \/ Start(p) BY <1>3, <2>2, DispatchersSettleOn DEF Enter, Start, StartRun
  <2>. QED BY <1>1, <1>7, <2>1, <2>2, DispatchersSettleOn
       DEF Progress, ReadOutcome, FinishWrite, CheckRead, CheckWrite, ReportDispatch, Finalize,
           RecoverLease
<1>8. ASSUME NEW p \in Proc, Stop(p) PROVE DispatchersSettle'
  BY <1>1, <1>3, <1>8, DispatchersSettleOn DEF Stop, ExecutorError, LoseLease, Shutdown, Crash
<1>9. ASSUME NEW t \in Task, Cancel(t) PROVE DispatchersSettle'
  BY <1>1, <1>9 DEF Cancel, RequestCancel, CancelPending, ConfirmStop
<1>. QED BY <1>1, <1>4, <1>5, <1>6, <1>7, <1>8, <1>9
     DEF Next, vars, Accept, ExpireDispatch, ExpireLease, CleanupExpiredLeases, CancelFinish

LEMMA OwnersAreAlone ==
  ASSUME LeaseInv, DispatchersSettle, Local = {} \/ (InProcess /\ InProcessInv)
  PROVE  OwnerIsAlone
<1>. USE ProcessAssumption
<1>. SUFFICES ASSUME NEW p \in Proc, NEW q \in Proc, p # q, proc[q].at = "executing", Fence(q),
                     proc[p].at \in {"finishing", "settling"}, Owns(p)
              PROVE  FALSE
  BY DEF OwnerIsAlone
<1>1. proc[p].token # proc[q].token BY DEF LeaseInv, TokensDrawn
<1>2. CASE p \notin Local /\ q \notin Local
  BY <1>1, <1>2 DEF Fence, Owns, LeaseInv, OneDurableOwner, DispatchOwned
<1>3. CASE p \in Local
  <2>1. proc[p].at = "finishing" BY <1>3 DEF DispatchersSettle
  <2>. QED BY <1>3, <2>1 DEF InProcess, InProcessInv, RequestOwns, Fence
<1>4. CASE p \notin Local /\ q \in Local
  BY <1>4 DEF InProcess, Fence, Owns, LeaseInv, DispatchOwned
<1>. QED BY <1>2, <1>3, <1>4

LEMMA ClaimTaskStands ==
  ASSUME LeaseInv, OwnerIsAlone, NEW q \in Proc, NEW t \in Task, ClaimTask(q, t)
  PROVE  OutcomeStands'
<1>1. \A p \in Proc : proc[p].at \in {"finishing", "settling"} => ~Owns(p)
  BY DEF ClaimTask, Claimable, OwnerIsAlone
<1>. QED BY <1>1 DEF ClaimTask, OutcomeStands, Owns

LEMMA TakeoverStands ==
  ASSUME LeaseInv, LeaseInv', OutcomeStands, NEW p \in Proc, Claim(p) \/ Acquire(p)
  PROVE  OutcomeStands'
<1>. USE MaxTokenAssumption
<1>0. UNCHANGED task BY DEF Claim, Acquire
<1>1. \A q \in Proc : proc'[q].at \in {"finishing", "settling"} => proc'[q] = proc[q]
  BY DEF Claim, Acquire, LeaseInv, TypeOK
<1>2. \A q \in Proc : proc[q].token # nextToken + 1 BY DEF LeaseInv, TokensDrawn, TypeOK
<1>3. \A q \in Proc : proc'[q] = proc[q] /\ Owns(q)' => Owns(q)
  BY <1>2 DEF Claim, Acquire, Owns
<1>. QED BY <1>0, <1>1, <1>3, NodesStay, OutcomeKept

LEMMA RunNodeEnds ==
  ASSUME LeaseInv, NEW p \in Proc, NEW t \in Task, RunNode(p, t), ~ClaimTask(p, t)
  PROVE  NodesOnlyEnd /\ UNCHANGED claimedBy
<1>1. ASSUME UNCHANGED task PROVE NodesOnlyEnd BY <1>1, NodesStay
<1>2. ASSUME task[t].status = "in_progress",
             SetStatus(t, "cancelled") \/ SetStatus(t, "completed")
      PROVE  NodesOnlyEnd
  BY <1>2, SetStatusEnds DEF LeaseInv
<1>3. ASSUME NEW unknown, FailNode(p, t, unknown) PROVE NodesOnlyEnd
  BY <1>3, FailNodeEnds DEF LeaseInv
<1>4. NodesOnlyEnd
  BY <1>1, <1>2, <1>3
  DEF RunNode, BeginInvocation, CancelClaimed, FailBeforeInvocation, FinishInvocation, RecordOutcome
<1>5. UNCHANGED claimedBy
  BY DEF RunNode, BeginInvocation, CancelClaimed, FailBeforeInvocation, FinishInvocation, RecordOutcome
<1>. QED BY <1>4, <1>5

LEMMA RunNodeStands ==
  ASSUME LeaseInv, LeaseInv', OwnerIsAlone, OutcomeStands, NEW p \in Proc, NEW t \in Task,
         RunNode(p, t)
  PROVE  OutcomeStands'
<1>1. CASE ClaimTask(p, t) BY <1>1, ClaimTaskStands
<1>2. CASE ~ClaimTask(p, t)
  <2>1. UNCHANGED <<dispatch, lease, proc>>
    BY <1>2 DEF RunNode, BeginInvocation, CancelClaimed, FailBeforeInvocation,
                FinishInvocation, RecordOutcome
  <2>2. NodesOnlyEnd BY <1>2, RunNodeEnds
  <2>. QED BY <2>1, <2>2, OwnerStayed
<1>. QED BY <1>1, <1>2

LEMMA FinalizeEnds ==
  ASSUME LeaseInv, EvidenceInv, NEW w \in Proc, Finalize(w)
  PROVE  /\ NodesOnlyEnd
         /\ \/ UNCHANGED task
            \/ /\ task[Root].status \in {"pending", "in_progress"} /\ BusinessOpen(Root)
               /\ \E status \in {"failed", "cancelled"} : SetStatus(Root, status)
<1>. USE TreeAssumption
<1>1. proc[w].verdict = "completed" => task[Root].status = "completed"
  BY DEF EvidenceInv, CompletedIsSeen, AllCompleted
<1>2. \/ UNCHANGED task
      \/ /\ task[Root].status \in {"pending", "in_progress"} /\ BusinessOpen(Root)
         /\ \E status \in {"failed", "cancelled"} : SetStatus(Root, status)
  BY <1>1 DEF Finalize, LeaseInv, VerdictOK
<1>. QED BY <1>2, NodesStay, SetStatusEnds DEF LeaseInv

LEMMA InterruptEnds ==
  ASSUME LeaseInv, NEW p \in Proc, Interrupt(p) PROVE NodesOnlyEnd
BY DEF LeaseInv, TypeOK, Interrupt, NodesOnlyEnd

LEMMA CancelEnds ==
  ASSUME LeaseInv, NEW t \in Task, Cancel(t) PROVE NodesOnlyEnd
<1>1. CASE RequestCancel(t) BY <1>1 DEF RequestCancel, LeaseInv, TypeOK, NodesOnlyEnd
<1>2. CASE CancelPending(t) \/ ConfirmStop(t)
  BY <1>2, SetStatusEnds DEF CancelPending, ConfirmStop, LeaseInv
<1>. QED BY <1>1, <1>2 DEF Cancel

LEMMA ProgressStands ==
  ASSUME LeaseInv, LeaseInv', EvidenceInv, OwnerIsAlone, OutcomeStands, NEW p \in Proc,
         Progress(p)
  PROVE  OutcomeStands'
<1>1. CASE Enter(p) \/ Start(p)
  <2>1. UNCHANGED <<task, dispatch, lease>> BY <1>1 DEF Enter, Start, StartRun
  <2>2. \A q \in Proc : proc'[q].at \in {"finishing", "settling"} => proc'[q] = proc[q]
    BY <1>1, GotoOther, StoppedOther DEF Enter, Start, StartRun
  <2>. QED BY <2>1, <2>2, NodesStay, OwnerStayed
<1>2. CASE \E t \in Task : RunNode(p, t) BY <1>2, RunNodeStands
<1>3. CASE ReadOutcome(p) BY <1>3, ReadOutcomeStands DEF ReadOutcome
<1>4. CASE CheckRead(p) BY <1>4, ReadOutcomeStands DEF CheckRead
<1>5. CASE FinishWrite(p) \/ CheckWrite(p)
  <2>1. UNCHANGED <<task, dispatch, lease>> BY <1>5 DEF FinishWrite, CheckWrite
  <2>2. \A q \in Proc : proc'[q].at \in {"finishing", "settling"} => proc'[q] = proc[q]
    BY <1>5, GotoOther, LeaveOther DEF FinishWrite, CheckWrite
  <2>. QED BY <2>1, <2>2, NodesStay, OwnerStayed
<1>6. CASE ReportDispatch(p)
  <2>1. /\ UNCHANGED <<task, lease>> /\ Leave(p)
        /\ dispatch' = dispatch \/ dispatch'.owner = NoToken
    BY <1>6 DEF ReportDispatch
  <2>. QED BY <2>1, LeaveOther, NodesStay, OwnerStayed
<1>7. CASE Finalize(p)
  <2>1. UNCHANGED dispatch /\ Leave(p) /\ lease' \in {lease, NoLease} BY <1>7 DEF Finalize
  <2>. QED BY <1>7, <2>1, LeaveOther, FinalizeEnds, OwnerStayed
<1>8. CASE RecoverLease(p)
  <2>1. UNCHANGED <<task, dispatch>> /\ Leave(p) /\ lease' \in {lease, NoLease}
    BY <1>8 DEF RecoverLease
  <2>. QED BY <2>1, LeaveOther, NodesStay, OwnerStayed
<1>. QED BY <1>1, <1>2, <1>3, <1>4, <1>5, <1>6, <1>7, <1>8 DEF Progress

LEMMA StopStands ==
  ASSUME LeaseInv, LeaseInv', OutcomeStands, NEW p \in Proc, Stop(p)
  PROVE  OutcomeStands'
<1>1. UNCHANGED <<dispatch, lease>> BY DEF Stop, ExecutorError, LoseLease, Shutdown, Crash
<1>2. \A q \in Proc : proc'[q].at \in {"finishing", "settling"} => proc'[q] = proc[q]
  BY GotoOther, LeaveOther, StoppedOther DEF Stop, ExecutorError, LoseLease, Shutdown, Crash
<1>3. NodesOnlyEnd
  BY NodesStay, InterruptEnds DEF Stop, ExecutorError, LoseLease, Shutdown, Crash
<1>. QED BY <1>1, <1>2, <1>3, OwnerStayed

LEMMA NextStands ==
  LeaseInv /\ LeaseInv' /\ EvidenceInv /\ OwnerIsAlone /\ OutcomeStands /\ [Next]_vars
    => OutcomeStands'
<1>. SUFFICES ASSUME LeaseInv, LeaseInv', EvidenceInv, OwnerIsAlone, OutcomeStands, [Next]_vars
              PROVE  OutcomeStands'
  OBVIOUS
<1>1. ASSUME UNCHANGED <<task, lease, proc>>,
             dispatch' = dispatch \/ dispatch'.owner = NoToken \/ ~dispatch'.live
      PROVE  OutcomeStands'
  BY <1>1, NodesStay, OwnerStayed
<1>2. CASE Accept BY <1>1, <1>2 DEF Accept, LeaseInv, DispatchOwned, TypeOK
<1>3. ASSUME NEW d \in Dispatcher, Poll(d) PROVE OutcomeStands'
  <2>1. CASE RecoverRead(d) BY <1>1, <2>1 DEF RecoverRead
  <2>2. CASE RecoverCommit(d)
    <3>1. UNCHANGED <<task, lease, proc>> BY <2>2 DEF RecoverCommit
    <3>2. dispatch' = dispatch \/ dispatch'.owner = NoToken BY <2>2 DEF RecoverCommit
    <3>. QED BY <1>1, <3>1, <3>2
  <2>. QED BY <1>3, <2>1, <2>2, TakeoverStands DEF Poll
<1>4. ASSUME NEW w \in Worker, Take(w) PROVE OutcomeStands'
  <2>1. CASE Find(w)
    <3>1. \A q \in Proc : proc'[q].at \in {"finishing", "settling"} => proc'[q] = proc[q]
      BY <2>1 DEF Find, LeaseInv, TypeOK
    <3>. QED BY <2>1, <3>1, NodesStay, OwnerStayed DEF Find
  <2>2. CASE AcquireFails(w)
    <3>1. UNCHANGED <<task, dispatch>> /\ Leave(w) /\ lease' \in {lease, NoLease}
      BY <2>2 DEF AcquireFails
    <3>. QED BY <3>1, LeaveOther, NodesStay, OwnerStayed
  <2>. QED BY <1>4, <2>1, <2>2, TakeoverStands DEF Take
<1>5. CASE ExpireDispatch BY <1>1, <1>5 DEF ExpireDispatch, LeaseInv, TypeOK
<1>6. CASE ExpireLease
  <2>1. UNCHANGED <<task, dispatch, proc>> /\ ~lease'.live
    BY <1>6 DEF ExpireLease, LeaseInv, TypeOK
  <2>. QED BY <2>1, NodesStay, OwnerStayed
<1>7. CASE CleanupExpiredLeases
  BY <1>7, NodesStay, OwnerStayed DEF CleanupExpiredLeases
<1>8. CASE CancelFinish BY <1>1, <1>8 DEF CancelFinish
<1>9. ASSUME NEW t \in Task, Cancel(t) PROVE OutcomeStands'
  <2>1. UNCHANGED <<dispatch, lease, proc>>
    BY <1>9 DEF Cancel, RequestCancel, CancelPending, ConfirmStop
  <2>. QED BY <1>9, <2>1, CancelEnds, OwnerStayed
<1>10. CASE UNCHANGED vars BY <1>1, <1>10 DEF vars
<1>11. ASSUME NEW l \in Local, Request(l) PROVE OutcomeStands'
  <2>1. UNCHANGED <<task, dispatch, lease>> BY <1>11 DEF Request
  <2>2. \A q \in Proc : proc'[q].at \in {"finishing", "settling"} => proc'[q] = proc[q]
    BY <1>11 DEF Request, LeaseInv, TypeOK
  <2>. QED BY <2>1, <2>2, NodesStay, OwnerStayed
<1>. QED BY <1>2, <1>3, <1>4, <1>5, <1>6, <1>7, <1>8, <1>9, <1>10, <1>11, ProgressStands, StopStands
     DEF Next


\* Nobody executes a run none of whose nodes was claimed.
LEMMA NoExecutorYet == (\A t \in Task : ~Started(t)) => RunExecutor = NoToken
BY DEF RunExecutor, Executing

LEMMA ExecutorStays == ASSUME UNCHANGED claimedBy PROVE RunExecutor' = RunExecutor
BY DEF RunExecutor, Executing, Started

LEMMA OutcomeStays ==
  ASSUME UNCHANGED run PROVE RunOutcome' = RunOutcome
BY DEF RunOutcome

\* A step of the rows is a step of the run or none: what it has to be.
LEMMA StutterStep ==
  ASSUME UNCHANGED <<claimedBy, run>>,
         \A t \in Task : task'[t].status = task[t].status
  PROVE  [Abstract!Next]_(Abstract!vars)
<1>1. NodeStatus' = NodeStatus BY DEF NodeStatus
<1>. QED BY <1>1, ExecutorStays, OutcomeStays DEF Abstract!vars

\* The run row, written while the nodes stay as they are.
LEMMA RunStep ==
  ASSUME TypeOK, UNCHANGED claimedBy, \A t \in Task : task'[t].status = task[t].status,
         run \in TerminalRun => run' = run,
         run' = "completed" => run = "completed" \/ AllCompleted,
         \A status \in {"failed", "cancelled"} : run' = status =>
           run = status \/ (HasStatus(status) /\ ~HasStatus("in_progress"))
  PROVE  [Abstract!Next]_(Abstract!vars)
<1>1. NodeStatus' = NodeStatus BY DEF NodeStatus
<1>2. \A t \in Task : NodeStatus[t] = task[t].status BY DEF NodeStatus
<1>3. CASE RunOutcome' = RunOutcome BY <1>1, <1>3, ExecutorStays DEF Abstract!vars
<1>4. CASE RunOutcome' # RunOutcome
  <2>1. run \notin TerminalRun /\ run' \in TerminalRun BY <1>4 DEF RunOutcome
  <2>2. RunOutcome = "open" /\ RunOutcome' = run' BY <2>1 DEF RunOutcome
  <2>3. Abstract!Justified(run')
    <3>1. CASE run' = "completed"
      BY <1>2, <2>1, <3>1 DEF Abstract!Justified, AllCompleted
    <3>2. CASE run' \in {"failed", "cancelled"}
      BY <1>2, <2>1, <3>2 DEF Abstract!Justified, HasStatus
    <3>3. CASE run' = Reconcile BY <3>3 DEF Abstract!Justified, Abstract!Uncertain
    <3>. QED BY <2>1, <3>1, <3>2, <3>3
  <2>4. Abstract!Close(run') BY <1>1, <2>2, <2>3, ExecutorStays DEF Abstract!Close
  <2>5. run' \in Abstract!Ended \cup {Abstract!Uncertain}
    BY <2>1 DEF Abstract!Ended, Abstract!Uncertain
  <2>. QED BY <2>4, <2>5 DEF Abstract!Next
<1>. QED BY <1>3, <1>4

\* Nodes that end, all in the same way, while the run is open.
LEMMA EndStep ==
  ASSUME UNCHANGED <<claimedBy, run>>, run \notin TerminalRun,
         NEW nodes \in SUBSET Task, NEW as \in {"completed", "failed", "cancelled"},
         \A t \in nodes : task[t].status \in {"pending", "in_progress"} /\ task'[t].status = as,
         as = "completed" => \A t \in nodes : task[t].status = "in_progress",
         \A t \in Task \ nodes : task'[t].status = task[t].status
  PROVE  [Abstract!Next]_(Abstract!vars)
<1>1. NodeStatus' = [t \in Task |-> IF t \in nodes THEN as ELSE NodeStatus[t]] BY DEF NodeStatus
<1>2. \A t \in nodes : NodeStatus[t] = task[t].status BY DEF NodeStatus
<1>3. RunOutcome = "open" BY DEF RunOutcome
<1>4. Abstract!End(nodes, as)
  BY <1>1, <1>2, <1>3, ExecutorStays, OutcomeStays DEF Abstract!End, Abstract!Ended
<1>. QED BY <1>4 DEF Abstract!Next, Abstract!Ended

LEMMA EndOneStep ==
  ASSUME UNCHANGED <<claimedBy, run>>, run \notin TerminalRun, NEW t \in Task,
         NEW as \in {"completed", "failed", "cancelled"}, task'[t].status = as,
         \/ task[t].status = "in_progress"
         \/ task[t].status = "pending" /\ as # "completed",
         \A s \in Task : s # t => task'[s].status = task[s].status
  PROVE  [Abstract!Next]_(Abstract!vars)
<1>. DEFINE nodes == {t}
<1>1. nodes \in SUBSET Task OBVIOUS
<1>2. \A s \in nodes : task[s].status \in {"pending", "in_progress"} /\ task'[s].status = as
  OBVIOUS
<1>3. as = "completed" => \A s \in nodes : task[s].status = "in_progress" OBVIOUS
<1>4. \A s \in Task \ nodes : task'[s].status = task[s].status OBVIOUS
<1>. HIDE DEF nodes
<1>. QED BY <1>1, <1>2, <1>3, <1>4, EndStep

\* A node that is pending was not started: nothing makes it pending again.
StartedIsBegun == \A t \in Task : Started(t) => task[t].status # "pending"

LEMMA NextBegun ==
  LeaseInv /\ EvidenceInv /\ StartedIsBegun /\ [Next]_vars => StartedIsBegun'
<1>. SUFFICES ASSUME LeaseInv, EvidenceInv, StartedIsBegun, [Next]_vars PROVE StartedIsBegun'
  OBVIOUS
<1>1. ASSUME NodesOnlyEnd, UNCHANGED claimedBy PROVE StartedIsBegun'
  BY <1>1, StartedStays DEF NodesOnlyEnd, StartedIsBegun
<1>2. ASSUME UNCHANGED <<task, claimedBy>> PROVE StartedIsBegun' BY <1>1, <1>2, NodesStay
<1>3. ASSUME NEW p \in Proc, NEW t \in Task, RunNode(p, t) PROVE StartedIsBegun'
  <2>1. CASE ClaimTask(p, t)
    BY <2>1 DEF ClaimTask, SetStatus, StartedIsBegun, Started, LeaseInv, TypeOK
  <2>2. CASE ~ClaimTask(p, t) BY <1>1, <1>3, <2>2, RunNodeEnds
  <2>. QED BY <2>1, <2>2
<1>4. ASSUME NEW p \in Proc, Progress(p) PROVE StartedIsBegun'
  <2>1. CASE Finalize(p) BY <1>1, <2>1, FinalizeEnds DEF Finalize
  <2>. QED BY <1>2, <1>3, <1>4, <2>1
       DEF Progress, Enter, Start, StartRun, ReadOutcome, FinishWrite, CheckRead, CheckWrite,
           ReportDispatch, RecoverLease
<1>5. ASSUME NEW p \in Proc, Stop(p) PROVE StartedIsBegun'
  BY <1>1, <1>2, <1>5, InterruptEnds DEF Stop, ExecutorError, LoseLease, Shutdown, Crash
<1>6. ASSUME NEW t \in Task, Cancel(t) PROVE StartedIsBegun'
  BY <1>1, <1>6, CancelEnds DEF Cancel, RequestCancel, CancelPending, ConfirmStop
<1>7. ASSUME NEW d \in Dispatcher, Poll(d) PROVE StartedIsBegun'
  BY <1>2, <1>7 DEF Poll, RecoverRead, RecoverCommit, Claim
<1>8. ASSUME NEW w \in Worker, Take(w) PROVE StartedIsBegun'
  BY <1>2, <1>8 DEF Take, Find, Acquire, AcquireFails
<1>. QED BY <1>2, <1>4, <1>5, <1>6, <1>7, <1>8
     DEF Next, vars, Accept, Request, ExpireDispatch, ExpireLease, CleanupExpiredLeases,
         CancelFinish

\* A node begins: for the executor that has the others, if any.
LEMMA BeginStep ==
  ASSUME LeaseInv, LeaseInv', StartedIsBegun, SingleExecutor', NEW p \in Proc, NEW t \in Task,
         ClaimTask(p, t)
  PROVE  [Abstract!Next]_(Abstract!vars)
<1>. USE MaxTokenAssumption DEF LeaseInv, TypeOK
<1>0. proc[p].token \in 1 .. MaxToken BY DEF ClaimTask, TokensDrawn
<1>1. Started(t)' /\ claimedBy'[t] = proc[p].token BY <1>0 DEF ClaimTask, Started
<1>2. RunExecutor' = proc[p].token
  <2>1. t \in Executing' BY <1>1 DEF Executing
  <2>2. (CHOOSE s \in Executing' : TRUE) \in Executing' BY <2>1
  <2>3. \A s \in Executing' : claimedBy'[s] = proc[p].token
    BY <1>1, <2>1 DEF Executing, SingleExecutor
  <2>. QED BY <2>1, <2>2, <2>3 DEF RunExecutor
<1>3. RunExecutor \in {NoToken, proc[p].token}
  <2>1. CASE Executing = {} BY <2>1 DEF RunExecutor
  <2>2. CASE Executing # {}
    <3>1. PICK s \in Executing : s = (CHOOSE r \in Executing : TRUE) BY <2>2
    <3>2. s # t /\ Started(s) BY <3>1 DEF Executing, StartedIsBegun, ClaimTask, Claimable
    <3>3. claimedBy'[s] = claimedBy[s] BY <3>1, <3>2 DEF Executing, ClaimTask
    <3>4. Started(s)' BY <3>2, <3>3 DEF Started
    <3>5. claimedBy[s] = proc[p].token BY <1>1, <3>1, <3>3, <3>4 DEF Executing, SingleExecutor
    <3>. QED BY <2>2, <3>1, <3>5 DEF RunExecutor
  <2>. QED BY <2>1, <2>2
<1>4. NodeStatus[t] = "pending" /\ RunOutcome = "open"
  BY DEF NodeStatus, RunOutcome, ClaimTask, Claimable, BusinessOpen
<1>5. NodeStatus' = [NodeStatus EXCEPT ![t] = "in_progress"]
  <2>1. \A s \in Task : task'[s].status = IF s = t THEN "in_progress" ELSE task[s].status
    BY DEF ClaimTask, SetStatus
  <2>. QED BY <2>1 DEF NodeStatus
<1>6. RunOutcome' = RunOutcome BY OutcomeStays DEF ClaimTask
<1>7. Abstract!Begin(t, proc[p].token) BY <1>2, <1>3, <1>4, <1>5, <1>6 DEF Abstract!Begin
<1>. QED BY <1>0, <1>7 DEF Abstract!Next

LEMMA RunNodeStep ==
  ASSUME LeaseInv, LeaseInv', StartedIsBegun, SingleExecutor', NEW p \in Proc, NEW t \in Task,
         RunNode(p, t)
  PROVE  [Abstract!Next]_(Abstract!vars)
<1>1. CASE ClaimTask(p, t) BY <1>1, BeginStep
<1>2. CASE ~ClaimTask(p, t)
  <2>1. UNCHANGED <<claimedBy, run>>
    BY <1>2 DEF RunNode, BeginInvocation, CancelClaimed, FailBeforeInvocation,
                FinishInvocation, RecordOutcome
  <2>2. \/ UNCHANGED task
        \/ /\ task[t].status = "in_progress" /\ run \notin TerminalRun
           /\ task'[t].status \in {"completed", "failed", "cancelled"}
           /\ \A s \in Task : s # t => task'[s].status = task[s].status
    BY <1>2 DEF RunNode, BeginInvocation, CancelClaimed, FailBeforeInvocation,
                FinishInvocation, RecordOutcome, FailNode, SetStatus, BusinessOpen, LeaseInv, TypeOK
  <2>3. CASE UNCHANGED task BY <2>1, <2>3, StutterStep
  <2>. QED BY <2>1, <2>2, <2>3, EndOneStep
<1>. QED BY <1>1, <1>2

\* An interrupted executor confirms the cancellations it holds, all at once.
LEMMA InterruptStep ==
  ASSUME LeaseInv, NEW p \in Proc, Interrupt(p), UNCHANGED <<claimedBy, run>>
  PROVE  [Abstract!Next]_(Abstract!vars)
<1>. DEFINE nodes == {t \in Task : /\ t \in Held(p) /\ task[t].cancel
                                  /\ task[t].status = "in_progress"
                                  /\ CancelFence(p) /\ BusinessOpen(t)}
<1>1. task' = [t \in Task |-> IF t \in nodes THEN [task[t] EXCEPT !.status = "cancelled"]
                              ELSE task[t]]
  BY DEF Interrupt
<1>2. \A t \in nodes : /\ task[t].status \in {"pending", "in_progress"}
                       /\ task'[t].status = "cancelled"
  BY <1>1 DEF LeaseInv, TypeOK
<1>3. \A t \in Task \ nodes : task'[t].status = task[t].status BY <1>1
<1>4. nodes # {} => run \notin TerminalRun BY DEF BusinessOpen
<1>5. nodes \in SUBSET Task OBVIOUS
<1>. HIDE DEF nodes
<1>6. CASE nodes = {} BY <1>3, <1>6, StutterStep
<1>7. CASE nodes # {} BY <1>2, <1>3, <1>4, <1>5, <1>7, EndStep
<1>. QED BY <1>6, <1>7

LEMMA CancelStep ==
  ASSUME LeaseInv, NEW t \in Task, Cancel(t) PROVE [Abstract!Next]_(Abstract!vars)
<1>1. UNCHANGED <<claimedBy, run>> BY DEF Cancel, RequestCancel, CancelPending, ConfirmStop
<1>2. CASE RequestCancel(t)
  <2>1. \A s \in Task : task'[s].status = task[s].status
    BY <1>2 DEF RequestCancel, LeaseInv, TypeOK
  <2>. QED BY <1>1, <2>1, StutterStep
<1>3. CASE CancelPending(t) \/ ConfirmStop(t)
  <2>1. /\ task[t].status \in {"pending", "in_progress"} /\ run \notin TerminalRun
        /\ task'[t].status = "cancelled"
        /\ \A s \in Task : s # t => task'[s].status = task[s].status
    BY <1>3 DEF CancelPending, ConfirmStop, SetStatus, BusinessOpen, LeaseInv, TypeOK
  <2>. QED BY <1>1, <2>1, EndOneStep
<1>. QED BY <1>2, <1>3 DEF Cancel

LEMMA FinalizeStep ==
  ASSUME LeaseInv, EvidenceInv, NEW w \in Proc, Finalize(w)
  PROVE  [Abstract!Next]_(Abstract!vars)
<1>. USE TreeAssumption
<1>1. UNCHANGED <<claimedBy, run>> BY DEF Finalize
<1>2. CASE UNCHANGED task BY <1>1, <1>2, StutterStep
<1>3. ASSUME NEW status \in {"failed", "cancelled"}, SetStatus(Root, status), BusinessOpen(Root),
             task[Root].status \in {"pending", "in_progress"}
      PROVE  [Abstract!Next]_(Abstract!vars)
  <2>1. /\ run \notin TerminalRun /\ task'[Root].status = status
        /\ \A s \in Task : s # Root => task'[s].status = task[s].status
    BY <1>3 DEF SetStatus, BusinessOpen, LeaseInv, TypeOK
  <2>. QED BY <1>1, <1>3, <2>1, EndOneStep
<1>. QED BY <1>2, <1>3, FinalizeEnds

\* A status read from the tree and written in the same transaction.
LEMMA SummaryStep ==
  ASSUME LeaseInv, UNCHANGED <<task, claimedBy>>,
         \/ UNCHANGED run
         \/ run' = EnsuredRun
         \/ run' = ReconciledRun
         \/ run' = Finished(FinishStatus)
         \/ run \notin TerminalRun /\ run' \in {"accepted", "running", Reconcile}
  PROVE  [Abstract!Next]_(Abstract!vars)
<1>1. \A status \in {"failed", "cancelled"} : Summary = status =>
        HasStatus(status) /\ ~HasStatus("in_progress")
  BY ReadStands DEF FinishStatus
<1>2. Summary = "completed" => AllCompleted BY DEF Summary
<1>3. run \in TerminalRun => run' = run
  BY TerminalStays, FinishType
<1>4. \/ run' \in {run, "accepted", "running", Reconcile}
      \/ run' = Summary
  BY DEF EnsuredRun, ReconciledRun, RecoveredRun, Finished, FinishStatus
<1>. QED BY <1>1, <1>2, <1>3, <1>4, RunStep DEF LeaseInv

\* A verdict reached earlier, written by the owner of the run: it still stands.
LEMMA VerdictStep ==
  ASSUME LeaseInv, EvidenceInv, OutcomeStands, NEW p \in Proc,
         proc[p].at \in {"finishing", "settling"}, UNCHANGED <<task, claimedBy>>,
         run' = IF Owns(p) THEN Finished(proc[p].verdict) ELSE run
  PROVE  [Abstract!Next]_(Abstract!vars)
<1>1. proc[p].verdict \in TerminalRun BY DEF LeaseInv, VerdictOK
<1>2. run \in TerminalRun => run' = run BY <1>1, TerminalStays
<1>3. run' = "completed" => run = "completed" \/ AllCompleted
  BY DEF Finished, EvidenceInv, CompletedIsSeen
<1>4. \A status \in {"failed", "cancelled"} : run' = status =>
         run = status \/ (HasStatus(status) /\ ~HasStatus("in_progress"))
  BY DEF Finished, OutcomeStands
<1>. QED BY <1>2, <1>3, <1>4, RunStep DEF LeaseInv

LEMMA ProgressStep ==
  ASSUME LeaseInv, LeaseInv', EvidenceInv, OutcomeStands, StartedIsBegun, SingleExecutor',
         NEW p \in Proc, Progress(p)
  PROVE  [Abstract!Next]_(Abstract!vars)
<1>1. CASE Enter(p) \/ Start(p)
  <2>1. UNCHANGED <<task, claimedBy>> BY <1>1 DEF Enter, Start, StartRun
  <2>2. \/ UNCHANGED run \/ run' = EnsuredRun
        \/ run \notin TerminalRun /\ run' \in {"running", Reconcile}
    BY <1>1 DEF Enter, Start, StartRun
  <2>. QED BY <2>1, <2>2, SummaryStep
<1>2. CASE \E t \in Task : RunNode(p, t) BY <1>2, RunNodeStep
<1>3. CASE FinishWrite(p) BY <1>3, VerdictStep DEF FinishWrite
<1>4. CASE CheckWrite(p) BY <1>4, VerdictStep DEF CheckWrite
<1>5. CASE ReadOutcome(p) \/ CheckRead(p) \/ ReportDispatch(p)
  BY <1>5, SummaryStep DEF ReadOutcome, CheckRead, ReportDispatch
<1>6. CASE Finalize(p) BY <1>6, FinalizeStep
<1>7. CASE RecoverLease(p)
  <2>1. UNCHANGED <<task, claimedBy>> /\ run' \in {run, ReconciledRun} BY <1>7 DEF RecoverLease
  <2>. QED BY <2>1, SummaryStep
<1>. QED BY <1>1, <1>2, <1>3, <1>4, <1>5, <1>6, <1>7 DEF Progress

LEMMA StopStep ==
  ASSUME LeaseInv, NEW p \in Proc, Stop(p) PROVE [Abstract!Next]_(Abstract!vars)
<1>1. CASE ExecutorError(p)
  <2>1. run' = run \/ (run \notin TerminalRun /\ run' = Reconcile)
    BY <1>1 DEF ExecutorError, Finished, LeaseInv, TypeOK
  <2>. QED BY <1>1, <2>1, SummaryStep DEF ExecutorError
<1>2. CASE LoseLease(p) \/ Shutdown(p) BY <1>2, InterruptStep DEF LoseLease, Shutdown
<1>3. CASE Crash(p) BY <1>3, SummaryStep DEF Crash
<1>. QED BY <1>1, <1>2, <1>3 DEF Stop

LEMMA PollStep ==
  ASSUME LeaseInv, EvidenceInv, NEW d \in Dispatcher, Poll(d)
  PROVE  [Abstract!Next]_(Abstract!vars)
<1>1. CASE RecoverRead(d) \/ Claim(d) BY <1>1, SummaryStep DEF RecoverRead, Claim
<1>2. CASE RecoverCommit(d)
  <2>1. UNCHANGED <<task, claimedBy>> BY <1>2 DEF RecoverCommit
  <2>2. CASE poll[d].verdict # "finished"
    <3>1. run' = run \/ (run \notin TerminalRun /\ run' \in {"accepted", Reconcile})
      BY <1>2, <2>2 DEF RecoverCommit, Finished, LeaseInv, TypeOK
    <3>. QED BY <2>1, <3>1, SummaryStep
  <2>3. CASE poll[d].verdict = "finished"
    <3>1. AllCompleted BY <2>3 DEF EvidenceInv, CompletedIsSeen
    <3>2. run' = run \/ (run \notin TerminalRun /\ run' = "completed")
      BY <1>2, <2>3 DEF RecoverCommit, Finished
    <3>. QED BY <2>1, <3>1, <3>2, RunStep DEF LeaseInv
  <2>. QED BY <2>2, <2>3
<1>. QED BY <1>1, <1>2 DEF Poll

LEMMA NextStep ==
  LeaseInv /\ LeaseInv' /\ EvidenceInv /\ OutcomeStands /\ StartedIsBegun /\ SingleExecutor'
    /\ [Next]_vars => [Abstract!Next]_(Abstract!vars)
<1>. SUFFICES ASSUME LeaseInv, LeaseInv', EvidenceInv, OutcomeStands, StartedIsBegun,
                     SingleExecutor', [Next]_vars
              PROVE  [Abstract!Next]_(Abstract!vars)
  OBVIOUS
<1>1. CASE Accept BY <1>1, SummaryStep DEF Accept
<1>2. ASSUME NEW w \in Worker, Take(w) PROVE [Abstract!Next]_(Abstract!vars)
  <2>1. UNCHANGED <<task, claimedBy>> /\ run' \in {run, ReconciledRun}
    BY <1>2 DEF Take, Find, Acquire, AcquireFails
  <2>. QED BY <2>1, SummaryStep
<1>3. ASSUME NEW l \in Local, Request(l) PROVE [Abstract!Next]_(Abstract!vars)
  BY <1>3, SummaryStep DEF Request
<1>4. CASE ExpireDispatch \/ ExpireLease BY <1>4, SummaryStep DEF ExpireDispatch, ExpireLease
<1>5. CASE CleanupExpiredLeases BY <1>5, SummaryStep DEF CleanupExpiredLeases
<1>6. CASE CancelFinish BY <1>6, SummaryStep DEF CancelFinish
<1>7. CASE UNCHANGED vars BY <1>7, SummaryStep DEF vars
<1>. QED BY <1>1, <1>2, <1>3, <1>4, <1>5, <1>6, <1>7, PollStep, ProgressStep, StopStep,
         CancelStep DEF Next

LEMMA InitStep ==
  Init => Abstract!Init /\ OutcomeStands /\ StartedIsBegun
<1>. SUFFICES ASSUME Init PROVE Abstract!Init /\ OutcomeStands /\ StartedIsBegun OBVIOUS
<1>. USE TreeAssumption DEF Init
<1>1. \A t \in Task : ~Started(t) BY DEF Started
<1>2. NodeStatus = [t \in Task |-> IF t \in Frozen THEN "completed" ELSE "pending"]
  BY DEF NodeStatus
<1>3. RunExecutor = NoToken BY <1>1, NoExecutorYet
<1>4. RunOutcome = IF Frozen = Task THEN "completed" ELSE "open"
  BY EnrolledAssumption DEF RunOutcome
<1>5. Abstract!Init BY <1>2, <1>3, <1>4 DEF Abstract!Init
<1>. QED BY <1>1, <1>5 DEF OutcomeStands, StartedIsBegun

LEMMA InitSettles == Init => DispatchersSettle
BY DEF Init, Idle, DispatchersSettle

\* Dispatchers, workers and the janitor, with their leases, crashes, recoveries and late
\* writes, or dispatchers and requests in process, implement a run that is executed
\* once: whoever reads the rows sees nodes begun at most once, by one executor, nodes
\* that ended staying as they are and one outcome that the nodes justify (runs.py,
\* dispatch.py, lease_manager.py).
THEOREM SingleRunImplemented == (Local = {} \/ InProcess) /\ Spec => ImplementsSingleRun
<1>. SUFFICES ASSUME Local = {} \/ InProcess PROVE Spec => ImplementsSingleRun OBVIOUS
<1>1. LeaseInv /\ LeaseInv' /\ EvidenceInv /\ OwnerIsAlone /\ OutcomeStands /\ [Next]_vars
        => OutcomeStands'
  BY NextStands
<1>2. LeaseInv /\ EvidenceInv /\ StartedIsBegun /\ [Next]_vars => StartedIsBegun'
  BY NextBegun
<1>3. LeaseInv /\ LeaseInv' /\ EvidenceInv /\ OutcomeStands /\ StartedIsBegun /\ SingleExecutor'
        /\ [Next]_vars => [Abstract!Next]_(Abstract!vars)
  BY NextStep
<1>4. Spec => []SingleExecutor BY OneExecutor
<1>5. Init => Abstract!Init /\ OutcomeStands /\ StartedIsBegun /\ DispatchersSettle
  BY InitStep, InitSettles
<1>6. LeaseInv /\ DispatchersSettle /\ [Next]_vars => DispatchersSettle' BY NextSettles
<1>7. Spec => []OwnerIsAlone
  <2>1. CASE Local = {}
    <3>1. LeaseInv /\ DispatchersSettle => OwnerIsAlone BY <2>1, OwnersAreAlone
    <3>. QED BY <1>5, <1>6, <3>1, LeaseInvariant, PTL DEF Spec
  <2>2. CASE InProcess
    <3>1. LeaseInv /\ DispatchersSettle /\ InProcessInv => OwnerIsAlone
      BY <2>2, OwnersAreAlone
    <3>2. Spec => []InProcessInv BY <2>2, InProcessExecution
    <3>. QED BY <1>5, <1>6, <3>1, <3>2, LeaseInvariant, PTL DEF Spec
  <2>. QED BY <2>1, <2>2
<1>. QED BY <1>1, <1>2, <1>3, <1>4, <1>5, <1>7, LeaseInvariant, EvidenceInvariant, PTL
     DEF Spec, ImplementsSingleRun, Abstract!Spec
=============================================================================
