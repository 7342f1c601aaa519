-------------------------- MODULE SyncQueueProofs --------------------------
(***************************************************************************)
(* The safety properties of SyncQueue, proved for any number of tasks and  *)
(* accounts, any retry limit, batch size and number of faults.             *)
(***************************************************************************)
EXTENDS SyncQueue, TLAPS

(***************************************************************************)
(* The properties are not inductive by themselves.  They need to know that *)
(* the status of the fetched task agrees with where the engine is, that a  *)
(* waiting task has used no more runs than it was charged for, and that a  *)
(* task which slipped in front of the fetched one has not been passed yet. *)
(***************************************************************************)
EngineFocus ==
    /\ pc \in {"idle", "fetch"} <=> cur = None
    /\ pc \in {"dispatch", "conflict", "start"} => status[cur] = "pending"
    /\ pc = "run" => status[cur] = "in_progress"
    /\ pc = "record" => status[cur] = "failed"

PendingBudget ==
    \A t \in TaskId : status[t] \in {"absent", "pending"} => attempts[t] <= retry_count[t]

NotYetOvertaken ==
    /\ \A t \in TaskId : status[t] = "absent" => overtaken[t] = 0
    /\ pc \in {"dispatch", "conflict", "start"} =>
         \A t \in TaskId : status[t] = "pending" /\ Ahead(t, cur) => overtaken[t] = 0

IInv ==
    /\ TypeOK
    /\ EngineFocus
    /\ PendingBudget /\ RetryBudget
    /\ FailureReported
    /\ NoTaskLeftBehind
    /\ NotYetOvertaken /\ BoundedOvertaking

-----------------------------------------------------------------------------
USE QueueAssumption

\* A row that is inserted can be given its columns.
LEMMA ColumnExists == (CHOOSE c \in Column : TRUE) \in Column
<1>1. PICK k \in TaskKind, a \in Account, n \in CreatedAt : TRUE
  OBVIOUS
<1>2. [kind |-> k, account_id |-> a, created_at |-> n] \in Column
  BY <1>1 DEF Column
<1> QED
  BY <1>2

\* The invariant holds at the start.
LEMMA InitIInv == Init => IInv
<1> SUFFICES ASSUME Init PROVE IInv
  OBVIOUS
<1>1. TypeOK
  BY ColumnExists DEF Init, TypeOK, Status
<1>2. EngineFocus /\ NoTaskLeftBehind /\ FailureReported
  BY DEF Init, EngineFocus, NoTaskLeftBehind, FailureReported
<1>3. PendingBudget /\ RetryBudget /\ NotYetOvertaken /\ BoundedOvertaking
  BY DEF Init, PendingBudget, RetryBudget, NotYetOvertaken, BoundedOvertaking
<1> QED
  BY <1>1, <1>2, <1>3 DEF IInv

\* Every step of the queue, the engine, the producers and the faults keeps the
\* invariant.  Steps that leave the rows alone need one leaf; the others have
\* one step per part of the invariant that they can disturb.
LEMMA NextIInv == IInv /\ [Next]_vars => IInv'
<1> SUFFICES ASSUME IInv, [Next]_vars PROVE IInv'
  OBVIOUS
<1> USE DEF IInv, TypeOK, EngineFocus, dbVars, engineVars, historyVars
<1>1. CASE Produce
  <2>1. TypeOK' /\ EngineFocus'
    BY <1>1 DEF Produce, Enqueue, Status
  <2>2. PendingBudget' /\ RetryBudget'
    BY <1>1 DEF Produce, Enqueue, PendingBudget, RetryBudget
  <2>3. FailureReported' /\ NoTaskLeftBehind'
    BY <1>1 DEF Produce, Enqueue, FailureReported, NoTaskLeftBehind
  <2>4. NotYetOvertaken' /\ BoundedOvertaking'
    BY <1>1 DEF Produce, Enqueue, NotYetOvertaken, BoundedOvertaking, Ahead
  <2> QED
    BY <2>1, <2>2, <2>3, <2>4
<1>2. CASE \E a \in Account : Disconnect(a) \/ Connect(a)
  BY <1>2 DEF Disconnect, Connect, PendingBudget, RetryBudget, FailureReported,
     NoTaskLeftBehind, NotYetOvertaken, BoundedOvertaking, Ahead
<1>3. CASE BeginBatch
  BY <1>3 DEF BeginBatch, PendingBudget, RetryBudget, FailureReported,
     NoTaskLeftBehind, NotYetOvertaken, BoundedOvertaking, Ahead
<1>4. CASE EndBatch
  BY <1>4 DEF EndBatch, PendingBudget, RetryBudget, FailureReported,
     NoTaskLeftBehind, NotYetOvertaken, BoundedOvertaking, Ahead
<1>5. CASE \E t \in TaskId : FetchTask(t)
  <2>1. TypeOK' /\ EngineFocus'
    BY <1>5 DEF FetchTask, NextPendingTask, Pending, Status
  <2>2. PendingBudget' /\ RetryBudget'
    BY <1>5 DEF FetchTask, NextPendingTask, Pending, PendingBudget, RetryBudget
  <2>3. FailureReported' /\ NoTaskLeftBehind'
    BY <1>5 DEF FetchTask, NextPendingTask, Pending, FailureReported, NoTaskLeftBehind
  <2>4. NotYetOvertaken' /\ BoundedOvertaking'
    BY <1>5 DEF FetchTask, NextPendingTask, Pending, NotYetOvertaken, BoundedOvertaking, Ahead
  <2> QED
    BY <2>1, <2>2, <2>3, <2>4
<1>6. CASE UnknownOperation
  <2>1. TypeOK' /\ EngineFocus'
    BY <1>6 DEF UnknownOperation, Continue, Status
  <2>2. PendingBudget' /\ RetryBudget'
    BY <1>6 DEF UnknownOperation, Continue, PendingBudget, RetryBudget
  <2>3. FailureReported' /\ NoTaskLeftBehind'
    BY <1>6 DEF UnknownOperation, Continue, FailureReported, NoTaskLeftBehind
  <2>4. NotYetOvertaken' /\ BoundedOvertaking'
    BY <1>6 DEF UnknownOperation, Continue, NotYetOvertaken, BoundedOvertaking, Ahead
  <2> QED
    BY <2>1, <2>2, <2>3, <2>4
<1>7. CASE DeferTask
  BY <1>7 DEF DeferTask, Continue, PendingBudget, RetryBudget, FailureReported,
     NoTaskLeftBehind, NotYetOvertaken, BoundedOvertaking, Ahead
<1>8. CASE BuildClient
  BY <1>8 DEF BuildClient, PendingBudget, RetryBudget, FailureReported,
     NoTaskLeftBehind, NotYetOvertaken, BoundedOvertaking, Ahead
<1>9. CASE ResolveConflict
  <2>1. TypeOK' /\ EngineFocus'
    BY <1>9 DEF ResolveConflict, Continue, Status
  <2>2. PendingBudget' /\ RetryBudget'
    BY <1>9 DEF ResolveConflict, Continue, PendingBudget, RetryBudget
  <2>3. FailureReported' /\ NoTaskLeftBehind'
    BY <1>9 DEF ResolveConflict, Continue, FailureReported, NoTaskLeftBehind
  <2>4. NotYetOvertaken' /\ BoundedOvertaking'
    BY <1>9 DEF ResolveConflict, Continue, NotYetOvertaken, BoundedOvertaking, Ahead
  <2> QED
    BY <2>1, <2>2, <2>3, <2>4
<1>10. CASE NoConflict
  BY <1>10 DEF NoConflict, PendingBudget, RetryBudget, FailureReported,
     NoTaskLeftBehind, NotYetOvertaken, BoundedOvertaking, Ahead
<1>11. CASE SkipTask
  <2>1. TypeOK' /\ EngineFocus'
    BY <1>11 DEF SkipTask, Continue, Status
  <2>2. PendingBudget' /\ RetryBudget'
    BY <1>11 DEF SkipTask, Continue, PendingBudget, RetryBudget
  <2>3. FailureReported' /\ NoTaskLeftBehind'
    BY <1>11 DEF SkipTask, Continue, FailureReported, NoTaskLeftBehind
  <2>4. NotYetOvertaken' /\ BoundedOvertaking'
    BY <1>11 DEF SkipTask, Continue, NotYetOvertaken, BoundedOvertaking, Ahead
  <2> QED
    BY <2>1, <2>2, <2>3, <2>4
<1>12. CASE RejectPhoto
  <2>1. TypeOK' /\ EngineFocus'
    BY <1>12 DEF RejectPhoto, HandleFailure, NewRetry,
      OutOfRetries, RecordsError, Continue, Status
  <2>2. PendingBudget' /\ RetryBudget'
    BY <1>12 DEF RejectPhoto, HandleFailure, NewRetry,
      OutOfRetries, RecordsError, Continue, PendingBudget, RetryBudget
  <2>3. FailureReported' /\ NoTaskLeftBehind'
    BY <1>12 DEF RejectPhoto, HandleFailure, NewRetry,
      OutOfRetries, RecordsError, Continue, FailureReported, NoTaskLeftBehind
  <2>4. NotYetOvertaken' /\ BoundedOvertaking'
    BY <1>12 DEF RejectPhoto, HandleFailure, NewRetry,
      OutOfRetries, RecordsError, Continue, NotYetOvertaken, BoundedOvertaking, Ahead
  <2> QED
    BY <2>1, <2>2, <2>3, <2>4
<1>13. CASE StartTask
  <2>1. TypeOK' /\ EngineFocus'
    BY <1>13 DEF StartTask, Pending, Status
  <2>2. PendingBudget' /\ RetryBudget'
    BY <1>13 DEF StartTask, Pending, PendingBudget, RetryBudget
  <2>3. FailureReported' /\ NoTaskLeftBehind'
    BY <1>13 DEF StartTask, Pending, FailureReported, NoTaskLeftBehind
  <2>4. NotYetOvertaken' /\ BoundedOvertaking'
    BY <1>13 DEF StartTask, Pending, NotYetOvertaken, BoundedOvertaking, Ahead
  <2> QED
    BY <2>1, <2>2, <2>3, <2>4
<1>14. CASE TaskSucceeds
  <2>1. TypeOK' /\ EngineFocus'
    BY <1>14 DEF TaskSucceeds, Continue, Status
  <2>2. PendingBudget' /\ RetryBudget'
    BY <1>14 DEF TaskSucceeds, Continue, PendingBudget, RetryBudget
  <2>3. FailureReported' /\ NoTaskLeftBehind'
    BY <1>14 DEF TaskSucceeds, Continue, FailureReported, NoTaskLeftBehind
  <2>4. NotYetOvertaken' /\ BoundedOvertaking'
    BY <1>14 DEF TaskSucceeds, Continue, NotYetOvertaken, BoundedOvertaking, Ahead
  <2> QED
    BY <2>1, <2>2, <2>3, <2>4
<1>15. CASE TaskFails
  <2>1. TypeOK' /\ EngineFocus'
    BY <1>15 DEF TaskFails, HandleFailure, NewRetry,
      OutOfRetries, RecordsError, Continue, Status
  <2>2. PendingBudget' /\ RetryBudget'
    BY <1>15 DEF TaskFails, HandleFailure, NewRetry,
      OutOfRetries, RecordsError, Continue, PendingBudget, RetryBudget
  <2>3. FailureReported' /\ NoTaskLeftBehind'
    BY <1>15 DEF TaskFails, HandleFailure, NewRetry,
      OutOfRetries, RecordsError, Continue, FailureReported, NoTaskLeftBehind
  <2>4. NotYetOvertaken' /\ BoundedOvertaking'
    BY <1>15 DEF TaskFails, HandleFailure, NewRetry,
      OutOfRetries, RecordsError, Continue, NotYetOvertaken, BoundedOvertaking, Ahead
  <2> QED
    BY <2>1, <2>2, <2>3, <2>4
<1>16. CASE RecordError
  <2>1. TypeOK' /\ EngineFocus'
    BY <1>16 DEF RecordError, Continue, Status
  <2>2. PendingBudget' /\ RetryBudget'
    BY <1>16 DEF RecordError, Continue, PendingBudget, RetryBudget
  <2>3. FailureReported' /\ NoTaskLeftBehind'
    BY <1>16 DEF RecordError, Continue, FailureReported, NoTaskLeftBehind
  <2>4. NotYetOvertaken' /\ BoundedOvertaking'
    BY <1>16 DEF RecordError, Continue, NotYetOvertaken, BoundedOvertaking, Ahead
  <2> QED
    BY <2>1, <2>2, <2>3, <2>4
<1>17. CASE PropagatedError
  <2>1. TypeOK' /\ EngineFocus'
    BY <1>17 DEF PropagatedError, Continue, Exposed, Status
  <2>2. PendingBudget' /\ RetryBudget'
    BY <1>17 DEF PropagatedError, Continue, Exposed, PendingBudget, RetryBudget
  <2>3. FailureReported' /\ NoTaskLeftBehind'
    BY <1>17 DEF PropagatedError, Continue, Exposed, FailureReported, NoTaskLeftBehind
  <2>4. NotYetOvertaken' /\ BoundedOvertaking'
    BY <1>17 DEF PropagatedError, Continue, Exposed, NotYetOvertaken, BoundedOvertaking, Ahead
  <2> QED
    BY <2>1, <2>2, <2>3, <2>4
<1>18. CASE CrashAndRestart
  <2>1. TypeOK' /\ EngineFocus'
    BY <1>18 DEF CrashAndRestart, Exposed, Status
  <2>2. PendingBudget' /\ RetryBudget'
    BY <1>18 DEF CrashAndRestart, Exposed, PendingBudget, RetryBudget
  <2>3. FailureReported' /\ NoTaskLeftBehind'
    BY <1>18 DEF CrashAndRestart, Exposed, FailureReported, NoTaskLeftBehind
  <2>4. NotYetOvertaken' /\ BoundedOvertaking'
    BY <1>18 DEF CrashAndRestart, Exposed, NotYetOvertaken, BoundedOvertaking, Ahead
  <2> QED
    BY <2>1, <2>2, <2>3, <2>4
<1>19. CASE \E t \in TaskId : RetryError(t)
  <2>1. TypeOK' /\ EngineFocus'
    BY <1>19 DEF RetryError
  <2>2. FailureReported' /\ NoTaskLeftBehind'
    BY <1>19 DEF RetryError, FailureReported, NoTaskLeftBehind
  <2>3. PendingBudget' /\ RetryBudget' /\ NotYetOvertaken' /\ BoundedOvertaking'
    BY <1>19 DEF RetryError, PendingBudget, RetryBudget, NotYetOvertaken,
       BoundedOvertaking, Ahead
  <2> QED
    BY <2>1, <2>2, <2>3
<1>20. CASE UNCHANGED vars
  BY <1>20 DEF vars, PendingBudget, RetryBudget, FailureReported,
     NoTaskLeftBehind, NotYetOvertaken, BoundedOvertaking, Ahead
<1> QED
  BY <1>1, <1>2, <1>3, <1>4, <1>5, <1>6, <1>7, <1>8, <1>9, <1>10, <1>11,
     <1>12, <1>13, <1>14, <1>15, <1>16, <1>17, <1>18, <1>19, <1>20 DEF Next,
     ProcessTask

\* The inductive invariant holds in every reachable state.
THEOREM Invariance == Spec => []IInv
<1>1. Init => IInv
  BY InitIInv
<1>2. IInv /\ [Next]_vars => IInv'
  BY NextIInv
<1> QED
  BY <1>1, <1>2, PTL DEF Spec

\* Every variable keeps its type, for every instance of the constants.
THEOREM TypeCorrect == Spec => []TypeOK
<1>1. IInv => TypeOK
  BY DEF IInv
<1> QED
  BY <1>1, Invariance, PTL

\* However crashes, propagated errors and retries interleave, no task is marked
\* in progress more than MAX_RETRIES + 1 times or given up too early.
THEOREM RetriesBounded == Spec => []RetryBudget
<1>1. IInv => RetryBudget
  BY DEF IInv
<1> QED
  BY <1>1, Invariance, PTL

\* A task the engine gave up on is listed in sync_errors, unless the engine was
\* cut off between the two writes.
THEOREM FailuresReported == Spec => []FailureReported
<1>1. IInv => FailureReported
  BY DEF IInv
<1> QED
  BY <1>1, Invariance, PTL

\* Only a crash or a propagated error leaves a row in progress with nobody on it.
THEOREM NothingLeftBehind == Spec => []NoTaskLeftBehind
<1>1. IInv => NoTaskLeftBehind
  BY DEF IInv
<1> QED
  BY <1>1, Invariance, PTL

\* A task is passed by at most one task that should come after it.
THEOREM OvertakingBounded == Spec => []BoundedOvertaking
<1>1. IInv => BoundedOvertaking
  BY DEF IInv
<1> QED
  BY <1>1, Invariance, PTL

-----------------------------------------------------------------------------
(* The refinement: every step of SyncQueue is one step of one task's         *)
(* lifecycle, or changes no status and no retry count.                       *)

\* The row of t after a step that sets its status to s.
StatusSet(t, s) ==
    /\ status' = [status EXCEPT ![t] = s]
    /\ UNCHANGED retry_count

\* Writing one row's status changes one task's phase.
LEMMA PhaseUpdate ==
    ASSUME TypeOK, NEW t \in TaskId, NEW s \in Status,
           status' = [status EXCEPT ![t] = s]
    PROVE  [u \in TaskId |-> PhaseOf(status'[u])]
             = [[u \in TaskId |-> PhaseOf(status[u])] EXCEPT ![t] = PhaseOf(s)]
  BY DEF TypeOK

\* Setting the status of t is moving t to the corresponding phase.
LEMMA StatusSetMoves ==
    ASSUME TypeOK, NEW t \in TaskId, NEW s \in Status, StatusSet(t, s)
    PROVE  Lifecycle!MoveTo(t, PhaseOf(s))
  BY PhaseUpdate DEF Lifecycle!MoveTo, StatusSet

\* A failing run is a retry or the end of the task.
LEMMA FailureRefines ==
    ASSUME IInv, cur \in TaskId, status[cur] \in {"pending", "in_progress"},
           HandleFailure
    PROVE  Lifecycle!Retry(cur) \/ Lifecycle!GiveUp(cur)
<1> USE DEF IInv, TypeOK
<1>1. CASE OutOfRetries(cur)
  <2>1. StatusSet(cur, "failed")
    BY <1>1 DEF HandleFailure, StatusSet
  <2>2. Lifecycle!MoveTo(cur, "given_up")
    BY <2>1, StatusSetMoves DEF Status, PhaseOf
  <2>3. retry_count[cur] = MAX_RETRIES
    BY <1>1 DEF RetryBudget, OutOfRetries, NewRetry
  <2> QED
    BY <2>2, <2>3 DEF Lifecycle!GiveUp, PhaseOf
<1>2. CASE ~OutOfRetries(cur)
  <2>1. /\ status' = [status EXCEPT ![cur] = "pending"]
        /\ retry_count' = [retry_count EXCEPT ![cur] = @ + 1]
    BY <1>2 DEF HandleFailure, NewRetry
  <2>2. [u \in TaskId |-> PhaseOf(status'[u])]
          = [[u \in TaskId |-> PhaseOf(status[u])] EXCEPT ![cur] = "waiting"]
    <3>1. PhaseOf("pending") = "waiting"
      BY DEF PhaseOf
    <3> QED
      BY <2>1, <3>1, PhaseUpdate DEF Status
  <2>3. retry_count[cur] < MAX_RETRIES
    BY <1>2 DEF OutOfRetries, NewRetry
  <2> QED
    BY <2>1, <2>2, <2>3 DEF Lifecycle!Retry, PhaseOf
<1> QED
  BY <1>1, <1>2

\* Every step maps to a step of TaskLifecycle or a stutter.
LEMMA NextRefines ==
    ASSUME IInv, [Next]_vars
    PROVE  [Lifecycle!LifecycleNext]_(Lifecycle!lifecycleVars)
<1> USE DEF IInv, TypeOK, EngineFocus, dbVars
<1>1. CASE Produce
  <2>1. PICK t \in TaskId, column \in Column : Enqueue(t, column)
    BY <1>1 DEF Produce
  <2>2. StatusSet(t, "pending") /\ status[t] = "absent"
    BY <2>1 DEF Enqueue, StatusSet
  <2>3. Lifecycle!MoveTo(t, "waiting")
    BY <2>2, StatusSetMoves DEF Status, PhaseOf
  <2> QED
    BY <2>2, <2>3 DEF Lifecycle!LifecycleNext, Lifecycle!Accept, PhaseOf
<1>2. CASE UnknownOperation \/ ResolveConflict \/ SkipTask \/ TaskSucceeds
  <2>1. /\ StatusSet(cur, "completed") /\ cur \in TaskId
        /\ status[cur] \in {"pending", "in_progress"}
    BY <1>2 DEF UnknownOperation, ResolveConflict, SkipTask, TaskSucceeds, StatusSet
  <2>2. Lifecycle!MoveTo(cur, "done")
    BY <2>1, StatusSetMoves DEF Status, PhaseOf
  <2> QED
    BY <2>1, <2>2 DEF Lifecycle!LifecycleNext, Lifecycle!Finish, PhaseOf
<1>3. CASE RejectPhoto \/ TaskFails
  <2>1. cur \in TaskId /\ status[cur] \in {"pending", "in_progress"} /\ HandleFailure
    BY <1>3 DEF RejectPhoto, TaskFails
  <2> QED
    BY <2>1, FailureRefines DEF Lifecycle!LifecycleNext
<1>4. CASE StartTask
  <2>1. StatusSet(cur, "in_progress") /\ cur \in TaskId /\ status[cur] = "pending"
    BY <1>4 DEF StartTask, StatusSet
  <2>2. Lifecycle!MoveTo(cur, "running")
    BY <2>1, StatusSetMoves DEF Status, PhaseOf
  <2> QED
    BY <2>1, <2>2 DEF Lifecycle!LifecycleNext, Lifecycle!Run, PhaseOf
<1>5. CASE UNCHANGED <<status, retry_count>>
  BY <1>5 DEF Lifecycle!lifecycleVars
<1>6. ASSUME \/ RecordError \/ DeferTask \/ BuildClient \/ NoConflict
             \/ BeginBatch \/ EndBatch \/ PropagatedError \/ CrashAndRestart
             \/ \E t \in TaskId : FetchTask(t)
             \/ \E t \in TaskId : RetryError(t)
             \/ \E a \in Account : Disconnect(a) \/ Connect(a)
             \/ UNCHANGED vars
      PROVE  UNCHANGED <<status, retry_count>>
  BY <1>6 DEF RecordError, DeferTask, BuildClient, NoConflict, BeginBatch,
     EndBatch, PropagatedError, CrashAndRestart, FetchTask, RetryError, Disconnect,
     Connect, vars, dbVars
<1> QED
  BY <1>1, <1>2, <1>3, <1>4, <1>5, <1>6 DEF Next, ProcessTask

\* The queue and its engine implement the abstract task lifecycle.
THEOREM Refinement == Spec => ImplementsLifecycle
<1>1. Init => Lifecycle!LifecycleInit
  BY DEF Init, Lifecycle!LifecycleInit, PhaseOf
<1>2. IInv /\ [Next]_vars => [Lifecycle!LifecycleNext]_(Lifecycle!lifecycleVars)
  BY NextRefines
<1> QED
  BY <1>1, <1>2, Invariance, PTL
  DEF Spec, ImplementsLifecycle, Lifecycle!LifecycleSpec
=============================================================================
