------------------------ MODULE OwnedExecutionProofs ------------------------
(***************************************************************************)
(* Proofs about OwnedExecution for every set of invocations and every       *)
(* number of commands.                                                      *)
(***************************************************************************)
EXTENDS OwnedExecution, TLAPS

\* The helpers the actions are built from, and what is assumed of the constants.
USE NamesDistinct, MaxCommandsIsNat
    DEF Goto, EnterGuard, LeaveGuard, GuardPasses, GuardHolds, NextRecord, RemoveRecord,
        Unlock, CloseWith, SessionBecomes, Record, Active, LockFree,
        wrapperVars, lockVars, sessionVars, recordVars

-----------------------------------------------------------------------------
\* Each part of the invariant is preserved by every step

\* Every step keeps the types.
LEMMA TypeStep ==
  ASSUME TypeOK, CommandIsPending, [Next]_vars
  PROVE TypeOK'
<1> USE DEF TypeOK, Labels, Guards, ProcessStates, Outcomes
<1>1. ASSUME NEW w \in Invocation, Guarding(w) PROVE TypeOK'
  BY <1>1 DEF Guarding, InspectEmpty, InspectStopped, InspectHolds,
     RemoveStaleWorkspace, RemoveStaleRecord, RemovalFails, RemoveOwnWorkspace,
     RemoveOwnFails
<1>2. ASSUME NEW w \in Invocation, Preparing(w) PROVE TypeOK'
  BY <1>2 DEF Preparing, BeginPreflight, PreflightRefused, Collect,
     CollectionAbandoned, BeginPrepare, Plan, PlanAbandoned
<1>3. ASSUME NEW w \in Invocation, Executing(w) PROVE TypeOK'
  <2>1. CASE ExecuteHeld(w) \/ Execute(w) \/ RunHeld(w) \/ StartCommand(w) \/ Wait(w)
    BY <2>1 DEF ExecuteHeld, Execute, RunHeld, StartCommand, Wait
  <2>2. CASE CreatePending(w) \/ WritePending(w) \/ RenamePending(w)
    BY <2>2 DEF CreatePending, WritePending, RenamePending
  <2>3. CASE SaveFails(w) \/ OpenGate(w)
    BY <2>3 DEF SaveFails, OpenGate
  <2>4. CASE FinishInFlight(w)
    <3>1. remaining[w] \in Nat /\ remaining[w] > 0
      BY <2>4 DEF FinishInFlight, CommandIsPending
    <3> QED
      BY <2>4, <3>1 DEF FinishInFlight
  <2>5. CASE FinishHolds(w) \/ ObserveFailure(w) \/ VerifyAfterState(w)
    BY <2>5 DEF FinishHolds, ObserveFailure, VerifyAfterState
  <2> QED
    BY <1>3, <2>1, <2>2, <2>3, <2>4, <2>5 DEF Executing
<1>4. ASSUME NEW w \in Invocation, Environment(w) PROVE TypeOK'
  BY <1>4 DEF Environment, Crash, Launch, GateClosed, GatedChildKilled, LeaderExits,
     DescendantsStop, DropInheritedLock, ReuseNumber, ReleaseNumber
<1>5. CASE UNCHANGED vars
  BY <1>5 DEF vars
<1> QED
  BY <1>1, <1>2, <1>3, <1>4, <1>5 DEF Next, Wrapper, Settled

\* The lock is exclusive: a wrapper takes it only when no descriptor is open, and
\* gives it up only on leaving the labels of Locked.
LEMMA LockExclusiveStep ==
  ASSUME TypeOK, TypeOK', LockExclusive, GuardHasCaller, [Next]_vars
  PROVE LockExclusive'
<1> USE DEF TypeOK, LockExclusive, GuardHasCaller, Locked, Admitted, Guarded
<1>1. ASSUME NEW w \in Invocation, Guarding(w) PROVE LockExclusive'
  BY <1>1 DEF Guarding, InspectEmpty, InspectStopped, InspectHolds,
     RemoveStaleWorkspace, RemoveStaleRecord, RemovalFails, RemoveOwnWorkspace,
     RemoveOwnFails
<1>2. ASSUME NEW w \in Invocation, Preparing(w) PROVE LockExclusive'
  BY <1>2 DEF Preparing, BeginPreflight, PreflightRefused, Collect,
     CollectionAbandoned, BeginPrepare, Plan, PlanAbandoned
<1>3. ASSUME NEW w \in Invocation, Executing(w) PROVE LockExclusive'
  BY <1>3 DEF Executing, ExecuteHeld, Execute, RunHeld, StartCommand, CreatePending,
     WritePending, RenamePending, SaveFails, OpenGate, Wait, FinishInFlight,
     FinishHolds, ObserveFailure, VerifyAfterState
<1>4. ASSUME NEW w \in Invocation, Environment(w) PROVE LockExclusive'
  BY <1>4 DEF Environment, Crash, Launch, GateClosed, GatedChildKilled, LeaderExits,
     DescendantsStop, DropInheritedLock, ReuseNumber, ReleaseNumber
<1>5. CASE UNCHANGED vars
  BY <1>5 DEF vars
<1> QED
  BY <1>1, <1>2, <1>3, <1>4, <1>5 DEF Next, Wrapper, Settled

\* A running guard always has a caller to return to.
LEMMA GuardHasCallerStep ==
  ASSUME TypeOK, TypeOK', GuardHasCaller, [Next]_vars
  PROVE GuardHasCaller'
<1> USE DEF TypeOK, GuardHasCaller, Guarded
<1>1. ASSUME NEW w \in Invocation, Guarding(w) PROVE GuardHasCaller'
  BY <1>1 DEF Guarding, InspectEmpty, InspectStopped, InspectHolds,
     RemoveStaleWorkspace, RemoveStaleRecord, RemovalFails, RemoveOwnWorkspace,
     RemoveOwnFails
<1>2. ASSUME NEW w \in Invocation, Preparing(w) PROVE GuardHasCaller'
  BY <1>2 DEF Preparing, BeginPreflight, PreflightRefused, Collect,
     CollectionAbandoned, BeginPrepare, Plan, PlanAbandoned
<1>3. ASSUME NEW w \in Invocation, Executing(w) PROVE GuardHasCaller'
  BY <1>3 DEF Executing, ExecuteHeld, Execute, RunHeld, StartCommand, CreatePending,
     WritePending, RenamePending, SaveFails, OpenGate, Wait, FinishInFlight,
     FinishHolds, ObserveFailure, VerifyAfterState
<1>4. ASSUME NEW w \in Invocation, Environment(w) PROVE GuardHasCaller'
  BY <1>4 DEF Environment, Crash, Launch, GateClosed, GatedChildKilled, LeaderExits,
     DescendantsStop, DropInheritedLock, ReuseNumber, ReleaseNumber
<1>5. CASE UNCHANGED vars
  BY <1>5 DEF vars
<1> QED
  BY <1>1, <1>2, <1>3, <1>4, <1>5 DEF Next, Wrapper, Settled

\* Only the lock holder changes the records, so what it read stays true.
LEMMA RecordsKnownStep ==
  ASSUME TypeOK, TypeOK', RecordsKnown, LockExclusive, GuardHasCaller, SessionKnown,
         [Next]_vars
  PROVE RecordsKnown'
<1> USE DEF TypeOK, RecordsKnown, LockExclusive, GuardHasCaller, SessionKnown,
            Locked, Admitted, Guarded, NotStarted
<1>1. ASSUME NEW w \in Invocation, Guarding(w) PROVE RecordsKnown'
  BY <1>1 DEF Guarding, InspectEmpty, InspectStopped, InspectHolds,
     RemoveStaleWorkspace, RemoveStaleRecord, RemovalFails, RemoveOwnWorkspace,
     RemoveOwnFails
<1>2. ASSUME NEW w \in Invocation, Preparing(w) PROVE RecordsKnown'
  BY <1>2 DEF Preparing, BeginPreflight, PreflightRefused, Collect,
     CollectionAbandoned, BeginPrepare, Plan, PlanAbandoned
<1>3. ASSUME NEW w \in Invocation, Executing(w) PROVE RecordsKnown'
  BY <1>3 DEF Executing, ExecuteHeld, Execute, RunHeld, StartCommand, CreatePending,
     WritePending, RenamePending, SaveFails, OpenGate, Wait, FinishInFlight,
     FinishHolds, ObserveFailure, VerifyAfterState
<1>4. ASSUME NEW w \in Invocation, Environment(w) PROVE RecordsKnown'
  BY <1>4 DEF Environment, Crash, Launch, GateClosed, GatedChildKilled, LeaderExits,
     DescendantsStop, DropInheritedLock, ReuseNumber, ReleaseNumber
<1>5. CASE UNCHANGED vars
  BY <1>5 DEF vars
<1> QED
  BY <1>1, <1>2, <1>3, <1>4, <1>5 DEF Next, Wrapper, Settled

\* Only the owner of a session could start another one, and it is not the one that
\* holds the lock now.
LEMMA StoppedStaysStoppedStep ==
  ASSUME TypeOK, TypeOK', StoppedStaysStopped, LockExclusive, GuardHasCaller,
         RecordsKnown, [Next]_vars
  PROVE StoppedStaysStopped'
<1> USE DEF TypeOK, StoppedStaysStopped, LockExclusive, GuardHasCaller,
            RecordsKnown, Locked, Admitted, Guarded
<1>1. ASSUME NEW w \in Invocation, Guarding(w) PROVE StoppedStaysStopped'
  BY <1>1 DEF Guarding, InspectEmpty, InspectStopped, InspectHolds,
     RemoveStaleWorkspace, RemoveStaleRecord, RemovalFails, RemoveOwnWorkspace,
     RemoveOwnFails
<1>2. ASSUME NEW w \in Invocation, Preparing(w) PROVE StoppedStaysStopped'
  BY <1>2 DEF Preparing, BeginPreflight, PreflightRefused, Collect,
     CollectionAbandoned, BeginPrepare, Plan, PlanAbandoned
<1>3. ASSUME NEW w \in Invocation, Executing(w) PROVE StoppedStaysStopped'
  BY <1>3 DEF Executing, ExecuteHeld, Execute, RunHeld, StartCommand, CreatePending,
     WritePending, RenamePending, SaveFails, OpenGate, Wait, FinishInFlight,
     FinishHolds, ObserveFailure, VerifyAfterState
<1>4. ASSUME NEW w \in Invocation, Environment(w) PROVE StoppedStaysStopped'
  BY <1>4 DEF Environment, Crash, Launch, GateClosed, GatedChildKilled, LeaderExits,
     DescendantsStop, DropInheritedLock, ReuseNumber, ReleaseNumber
<1>5. CASE UNCHANGED vars
  BY <1>5 DEF vars
<1> QED
  BY <1>1, <1>2, <1>3, <1>4, <1>5 DEF Next, Wrapper, Settled

\* A session exists only after StartCommand and is gone when its plan goes on.
LEMMA SessionKnownStep ==
  ASSUME TypeOK, TypeOK', SessionKnown, LockExclusive, GuardHasCaller, RecordsKnown,
         [Next]_vars
  PROVE SessionKnown'
<1> USE DEF TypeOK, SessionKnown, LockExclusive, GuardHasCaller, RecordsKnown,
            Locked, Admitted, Guarded, NotStarted
<1>1. ASSUME NEW w \in Invocation, Guarding(w) PROVE SessionKnown'
  BY <1>1 DEF Guarding, InspectEmpty, InspectStopped, InspectHolds,
     RemoveStaleWorkspace, RemoveStaleRecord, RemovalFails, RemoveOwnWorkspace,
     RemoveOwnFails
<1>2. ASSUME NEW w \in Invocation, Preparing(w) PROVE SessionKnown'
  BY <1>2 DEF Preparing, BeginPreflight, PreflightRefused, Collect,
     CollectionAbandoned, BeginPrepare, Plan, PlanAbandoned
<1>3. ASSUME NEW w \in Invocation, Executing(w) PROVE SessionKnown'
  BY <1>3 DEF Executing, ExecuteHeld, Execute, RunHeld, StartCommand, CreatePending,
     WritePending, RenamePending, SaveFails, OpenGate, Wait, FinishInFlight,
     FinishHolds, ObserveFailure, VerifyAfterState
<1>4. ASSUME NEW w \in Invocation, Environment(w) PROVE SessionKnown'
  BY <1>4 DEF Environment, Crash, Launch, GateClosed, GatedChildKilled, LeaderExits,
     DescendantsStop, DropInheritedLock, ReuseNumber, ReleaseNumber
<1>5. CASE UNCHANGED vars
  BY <1>5 DEF vars
<1> QED
  BY <1>1, <1>2, <1>3, <1>4, <1>5 DEF Next, Wrapper, Settled

\* A command is started for a remaining action, which its end alone removes.
LEMMA CommandIsPendingStep ==
  ASSUME TypeOK, TypeOK', CommandIsPending, [Next]_vars
  PROVE CommandIsPending'
<1> USE DEF TypeOK, CommandIsPending
<1>1. ASSUME NEW w \in Invocation, Guarding(w) PROVE CommandIsPending'
  BY <1>1 DEF Guarding, InspectEmpty, InspectStopped, InspectHolds,
     RemoveStaleWorkspace, RemoveStaleRecord, RemovalFails, RemoveOwnWorkspace,
     RemoveOwnFails
<1>2. ASSUME NEW w \in Invocation, Preparing(w) PROVE CommandIsPending'
  BY <1>2 DEF Preparing, BeginPreflight, PreflightRefused, Collect,
     CollectionAbandoned, BeginPrepare, Plan, PlanAbandoned
<1>3. ASSUME NEW w \in Invocation, Executing(w) PROVE CommandIsPending'
  BY <1>3 DEF Executing, ExecuteHeld, Execute, RunHeld, StartCommand, CreatePending,
     WritePending, RenamePending, SaveFails, OpenGate, Wait, FinishInFlight,
     FinishHolds, ObserveFailure, VerifyAfterState
<1>4. ASSUME NEW w \in Invocation, Environment(w) PROVE CommandIsPending'
  BY <1>4 DEF Environment, Crash, Launch, GateClosed, GatedChildKilled, LeaderExits,
     DescendantsStop, DropInheritedLock, ReuseNumber, ReleaseNumber
<1>5. CASE UNCHANGED vars
  BY <1>5 DEF vars
<1> QED
  BY <1>1, <1>2, <1>3, <1>4, <1>5 DEF Next, Wrapper, Settled

\* An outcome is set by the step that begins to close the session.
LEMMA OutcomeIsLastStep ==
  ASSUME TypeOK, TypeOK', OutcomeIsLast, GuardHasCaller, [Next]_vars
  PROVE OutcomeIsLast'
<1> USE DEF TypeOK, OutcomeIsLast, GuardHasCaller, Guarded
<1>1. ASSUME NEW w \in Invocation, Guarding(w) PROVE OutcomeIsLast'
  BY <1>1 DEF Guarding, InspectEmpty, InspectStopped, InspectHolds,
     RemoveStaleWorkspace, RemoveStaleRecord, RemovalFails, RemoveOwnWorkspace,
     RemoveOwnFails
<1>2. ASSUME NEW w \in Invocation, Preparing(w) PROVE OutcomeIsLast'
  BY <1>2 DEF Preparing, BeginPreflight, PreflightRefused, Collect,
     CollectionAbandoned, BeginPrepare, Plan, PlanAbandoned
<1>3. ASSUME NEW w \in Invocation, Executing(w) PROVE OutcomeIsLast'
  BY <1>3 DEF Executing, ExecuteHeld, Execute, RunHeld, StartCommand, CreatePending,
     WritePending, RenamePending, SaveFails, OpenGate, Wait, FinishInFlight,
     FinishHolds, ObserveFailure, VerifyAfterState
<1>4. ASSUME NEW w \in Invocation, Environment(w) PROVE OutcomeIsLast'
  BY <1>4 DEF Environment, Crash, Launch, GateClosed, GatedChildKilled, LeaderExits,
     DescendantsStop, DropInheritedLock, ReuseNumber, ReleaseNumber
<1>5. CASE UNCHANGED vars
  BY <1>5 DEF vars
<1> QED
  BY <1>1, <1>2, <1>3, <1>4, <1>5 DEF Next, Wrapper, Settled

\* The record is written before the gate opens, and nobody unlinks the record of a
\* session that may be alive.
LEMMA LaunchedIsRecordedStep ==
  ASSUME TypeOK, LockExclusive, GuardHasCaller, RecordsKnown, StoppedStaysStopped,
         LaunchedIsRecorded, [Next]_vars
  PROVE LaunchedIsRecorded'
<1> SUFFICES ASSUME NEW v \in Invocation, v \in Launched' PROVE json' = v
  BY DEF LaunchedIsRecorded, Launched
<1> USE DEF TypeOK, Launched
<1>1. CASE UNCHANGED <<process, json>>
  BY <1>1 DEF LaunchedIsRecorded
<1>2. ASSUME NEW w \in Invocation,
             \/ pc[w] = "unlinking" /\ RemoveRecord(w) /\ UNCHANGED process
             \/ FinishInFlight(w)
             \/ FinishHolds(w)
      PROVE json' = v
  \* Only the record of a stopped session is unlinked.
  <2>1. CASE json' = json
    BY <1>2, <2>1 DEF LaunchedIsRecorded, FinishInFlight, FinishHolds
  <2>2. CASE pc[w] = "unlinking" /\ RemoveRecord(w) /\ UNCHANGED process
    <3>1. file[w] = "json" => process[json] = "none"
      BY <2>2 DEF StoppedStaysStopped
    <3>2. QED
      BY <2>1, <2>2, <3>1 DEF LaunchedIsRecorded
  <2>3. CASE json' # json /\ (FinishInFlight(w) \/ FinishHolds(w))
    <3>1. json = w /\ process[w] = "none" /\ UNCHANGED process
      BY <2>3 DEF FinishInFlight, FinishHolds
    <3>2. QED
      BY <3>1 DEF LaunchedIsRecorded
  <2> QED
    BY <1>2, <2>1, <2>2, <2>3 DEF FinishInFlight, FinishHolds
<1>3. ASSUME NEW w \in Invocation, RenamePending(w) PROVE json' = v
  \* saveInFlight found no record, so no session was launched.
  <2>1. json = None /\ UNCHANGED process
    BY <1>3 DEF RenamePending, RecordsKnown
  <2> QED
    BY <2>1 DEF LaunchedIsRecorded
<1>4. ASSUME NEW w \in Invocation, OpenGate(w) PROVE json' = v
  \* The gate opens on a session whose record is in place.
  <2>1. json = w /\ json' = json
    BY <1>4 DEF OpenGate, RecordsKnown
  <2> QED
    BY <1>4, <2>1 DEF OpenGate, LaunchedIsRecorded
<1>5. ASSUME NEW w \in Invocation,
             \/ StartCommand(w) \/ SaveFails(w)
             \/ Launch(w) \/ GateClosed(w) \/ GatedChildKilled(w)
             \/ LeaderExits(w) \/ DescendantsStop(w)
      PROVE json' = v
  \* The other changes of a session launch nothing that was not launched before.
  <2>1. v \in Launched /\ json' = json
    BY <1>5 DEF StartCommand, SaveFails, Launch, GateClosed, GatedChildKilled,
                LeaderExits, DescendantsStop
  <2> QED
    BY <2>1 DEF LaunchedIsRecorded
<1>6. ASSUME NEW w \in Invocation, Guarding(w) PROVE json' = v
  <2>1. \/ UNCHANGED <<process, json>>
        \/ pc[w] = "unlinking" /\ RemoveRecord(w) /\ UNCHANGED process
    BY <1>6 DEF Guarding, InspectEmpty, InspectStopped, InspectHolds,
       RemoveStaleWorkspace, RemoveStaleRecord, RemovalFails, RemoveOwnWorkspace,
       RemoveOwnFails
  <2> QED
    BY <1>1, <1>2, <2>1
<1>7. ASSUME NEW w \in Invocation, Preparing(w) PROVE json' = v
  BY <1>1, <1>7 DEF Preparing, BeginPreflight, PreflightRefused, Collect,
     CollectionAbandoned, BeginPrepare, Plan, PlanAbandoned
<1>8. ASSUME NEW w \in Invocation, Executing(w) PROVE json' = v
  <2>1. \/ UNCHANGED <<process, json>>
        \/ FinishInFlight(w) \/ FinishHolds(w) \/ RenamePending(w) \/ OpenGate(w)
        \/ StartCommand(w) \/ SaveFails(w)
    BY <1>8 DEF Executing, ExecuteHeld, Execute, RunHeld, CreatePending,
       WritePending, Wait, ObserveFailure, VerifyAfterState
  <2> QED
    BY <1>1, <1>2, <1>3, <1>4, <1>5, <2>1
<1>9. ASSUME NEW w \in Invocation, Environment(w) PROVE json' = v
  <2>1. \/ UNCHANGED <<process, json>>
        \/ Launch(w) \/ GateClosed(w) \/ GatedChildKilled(w)
        \/ LeaderExits(w) \/ DescendantsStop(w)
    BY <1>9 DEF Environment, Crash, DropInheritedLock, ReuseNumber, ReleaseNumber
  <2> QED
    BY <1>1, <1>5, <2>1
<1> QED
  BY <1>1, <1>6, <1>7, <1>8, <1>9 DEF Next, Wrapper, Settled, vars

\* The cleanup removes the workspace of a recorded invocation only, and no record
\* names an invocation that is still collecting or preparing.
LEMMA LiveWorkspaceKeptStep ==
  ASSUME TypeOK, TypeOK', LiveWorkspaceKept, LockExclusive, GuardHasCaller,
         RecordsKnown, SessionKnown, [Next]_vars
  PROVE LiveWorkspaceKept'
<1> USE DEF TypeOK, LiveWorkspaceKept, LockExclusive, GuardHasCaller, RecordsKnown,
            SessionKnown, Locked, Admitted, Guarded, NotStarted
<1>1. ASSUME NEW w \in Invocation, Guarding(w) PROVE LiveWorkspaceKept'
  BY <1>1 DEF Guarding, InspectEmpty, InspectStopped, InspectHolds,
     RemoveStaleWorkspace, RemoveStaleRecord, RemovalFails, RemoveOwnWorkspace,
     RemoveOwnFails
<1>2. ASSUME NEW w \in Invocation, Preparing(w) PROVE LiveWorkspaceKept'
  BY <1>2 DEF Preparing, BeginPreflight, PreflightRefused, Collect,
     CollectionAbandoned, BeginPrepare, Plan, PlanAbandoned
<1>3. ASSUME NEW w \in Invocation, Executing(w) PROVE LiveWorkspaceKept'
  BY <1>3 DEF Executing, ExecuteHeld, Execute, RunHeld, StartCommand, CreatePending,
     WritePending, RenamePending, SaveFails, OpenGate, Wait, FinishInFlight,
     FinishHolds, ObserveFailure, VerifyAfterState
<1>4. ASSUME NEW w \in Invocation, Environment(w) PROVE LiveWorkspaceKept'
  BY <1>4 DEF Environment, Crash, Launch, GateClosed, GatedChildKilled, LeaderExits,
     DescendantsStop, DropInheritedLock, ReuseNumber, ReleaseNumber
<1>5. CASE UNCHANGED vars
  BY <1>5 DEF vars
<1> QED
  BY <1>1, <1>2, <1>3, <1>4, <1>5 DEF Next, Wrapper, Settled

\* A workspace is removed with an empty record or a stopped session only.
LEMMA WorkspaceRetainedStep ==
  ASSUME TypeOK, TypeOK', WorkspaceRetained, LockExclusive, GuardHasCaller,
         RecordsKnown, StoppedStaysStopped, SessionKnown, LaunchedIsRecorded,
         LiveWorkspaceKept, [Next]_vars
  PROVE WorkspaceRetained'
<1> USE DEF TypeOK, WorkspaceRetained, LockExclusive, GuardHasCaller, RecordsKnown,
            StoppedStaysStopped, SessionKnown, LaunchedIsRecorded,
            LiveWorkspaceKept, Locked, Admitted, Guarded, NotStarted, Launched
<1>1. ASSUME NEW w \in Invocation, Guarding(w) PROVE WorkspaceRetained'
  BY <1>1 DEF Guarding, InspectEmpty, InspectStopped, InspectHolds,
     RemoveStaleWorkspace, RemoveStaleRecord, RemovalFails, RemoveOwnWorkspace,
     RemoveOwnFails
<1>2. ASSUME NEW w \in Invocation, Preparing(w) PROVE WorkspaceRetained'
  BY <1>2 DEF Preparing, BeginPreflight, PreflightRefused, Collect,
     CollectionAbandoned, BeginPrepare, Plan, PlanAbandoned
<1>3. ASSUME NEW w \in Invocation, Executing(w) PROVE WorkspaceRetained'
  BY <1>3 DEF Executing, ExecuteHeld, Execute, RunHeld, StartCommand, CreatePending,
     WritePending, RenamePending, SaveFails, OpenGate, Wait, FinishInFlight,
     FinishHolds, ObserveFailure, VerifyAfterState
<1>4. ASSUME NEW w \in Invocation, Environment(w) PROVE WorkspaceRetained'
  BY <1>4 DEF Environment, Crash, Launch, GateClosed, GatedChildKilled, LeaderExits,
     DescendantsStop, DropInheritedLock, ReuseNumber, ReleaseNumber
<1>5. CASE UNCHANGED vars
  BY <1>5 DEF vars
<1> QED
  BY <1>1, <1>2, <1>3, <1>4, <1>5 DEF Next, Wrapper, Settled

\* A definite outcome follows finishInFlight, and nothing restarts the session.
LEMMA SettledOutcomeStep ==
  ASSUME TypeOK, TypeOK', SettledOutcome, LockExclusive, GuardHasCaller,
         RecordsKnown, SessionKnown, OutcomeIsLast, LaunchedIsRecorded,
         StoppedStaysStopped, [Next]_vars
  PROVE SettledOutcome'
<1> USE DEF TypeOK, SettledOutcome, LockExclusive, GuardHasCaller, RecordsKnown,
            SessionKnown, OutcomeIsLast, LaunchedIsRecorded, StoppedStaysStopped,
            Locked, Admitted, Guarded, NotStarted, Launched
<1>1. ASSUME NEW w \in Invocation, Guarding(w) PROVE SettledOutcome'
  BY <1>1 DEF Guarding, InspectEmpty, InspectStopped, InspectHolds,
     RemoveStaleWorkspace, RemoveStaleRecord, RemovalFails, RemoveOwnWorkspace,
     RemoveOwnFails
<1>2. ASSUME NEW w \in Invocation, Preparing(w) PROVE SettledOutcome'
  BY <1>2 DEF Preparing, BeginPreflight, PreflightRefused, Collect,
     CollectionAbandoned, BeginPrepare, Plan, PlanAbandoned
<1>3. ASSUME NEW w \in Invocation, Executing(w) PROVE SettledOutcome'
  BY <1>3 DEF Executing, ExecuteHeld, Execute, RunHeld, StartCommand, CreatePending,
     WritePending, RenamePending, SaveFails, OpenGate, Wait, FinishInFlight,
     FinishHolds, ObserveFailure, VerifyAfterState
<1>4. ASSUME NEW w \in Invocation, Environment(w) PROVE SettledOutcome'
  BY <1>4 DEF Environment, Crash, Launch, GateClosed, GatedChildKilled, LeaderExits,
     DescendantsStop, DropInheritedLock, ReuseNumber, ReleaseNumber
<1>5. CASE UNCHANGED vars
  BY <1>5 DEF vars
<1> QED
  BY <1>1, <1>2, <1>3, <1>4, <1>5 DEF Next, Wrapper, Settled

-----------------------------------------------------------------------------
\* The invariant and what follows from it

LEMMA InitiallyOwned == Init => OwnershipInvariant
BY DEF Init, OwnershipInvariant, TypeOK, Labels, Guards, ProcessStates, Outcomes,
       LockExclusive, GuardHasCaller, RecordsKnown, StoppedStaysStopped, SessionKnown,
       CommandIsPending, OutcomeIsLast, LaunchedIsRecorded, LiveWorkspaceKept,
       WorkspaceRetained, SettledOutcome, Launched, Locked, Admitted, Guarded, NotStarted

LEMMA OwnershipStep == OwnershipInvariant /\ [Next]_vars => OwnershipInvariant'
BY TypeStep, LockExclusiveStep, GuardHasCallerStep, RecordsKnownStep,
   StoppedStaysStoppedStep, SessionKnownStep, CommandIsPendingStep, OutcomeIsLastStep,
   LaunchedIsRecordedStep, LiveWorkspaceKeptStep, WorkspaceRetainedStep, SettledOutcomeStep
   DEF OwnershipInvariant

\* The conjunction of the parts above holds in every reachable state.
THEOREM OwnershipAlways == Spec => []OwnershipInvariant
<1>1. Init => OwnershipInvariant
  BY InitiallyOwned
<1>2. OwnershipInvariant /\ [Next]_vars => OwnershipInvariant'
  BY OwnershipStep
<1> QED
  BY <1>1, <1>2, PTL DEF Spec

\* Every variable keeps its type.
THEOREM TypeAlways == Spec => []TypeOK
<1>1. OwnershipInvariant => TypeOK
  BY DEF OwnershipInvariant
<1> QED
  BY <1>1, OwnershipAlways, PTL

\* Homebrew never runs in an owned session that inflight.json does not name.
THEOREM RecordAlways == Spec => []LaunchedIsRecorded
<1>1. OwnershipInvariant => LaunchedIsRecorded
  BY DEF OwnershipInvariant
<1> QED
  BY <1>1, OwnershipAlways, PTL

\* Two owned sessions never run Homebrew at the same time, whatever crashes.
THEOREM OneMutatorAlways == Spec => []OneMutator
<1>1. OwnershipInvariant => OneMutator
  BY DEF OwnershipInvariant, LaunchedIsRecorded, OneMutator
<1> QED
  BY <1>1, OwnershipAlways, PTL

\* An invocation plans and executes on a prefix no other owned session changes:
\* past its guard the only record can be its own, and a launched session is recorded.
THEOREM QuietPrefixAlways == Spec => []PlansOnQuietPrefix
<1>1. OwnershipInvariant => PlansOnQuietPrefix
  <2> SUFFICES ASSUME OwnershipInvariant, NEW v \in Invocation, NEW w \in Invocation,
                      pc[v] \in Admitted, w \in Launched
               PROVE v = w
    BY DEF PlansOnQuietPrefix
  <2>1. json = w
    BY DEF OwnershipInvariant, LaunchedIsRecorded
  <2>2. json \in {None, v}
    BY DEF OwnershipInvariant, RecordsKnown, Admitted
  <2> QED
    BY <2>1, <2>2
<1> QED
  BY <1>1, OwnershipAlways, PTL

\* A workspace survives as long as any process of its session (Close,
\* clearStoppedInFlight).
THEOREM RetainedAlways == Spec => []WorkspaceRetained
<1>1. OwnershipInvariant => WorkspaceRetained
  BY DEF OwnershipInvariant
<1> QED
  BY <1>1, OwnershipAlways, PTL

\* No cleanup of another invocation takes a workspace that is still worked in.
THEOREM LiveWorkspaceAlways == Spec => []LiveWorkspaceKept
<1>1. OwnershipInvariant => LiveWorkspaceKept
  BY DEF OwnershipInvariant
<1> QED
  BY <1>1, OwnershipAlways, PTL

\* A definite outcome is reported of a finished and unrecorded session only.
THEOREM SettledAlways == Spec => []SettledOutcome
<1>1. OwnershipInvariant => SettledOutcome
  BY DEF OwnershipInvariant
<1> QED
  BY <1>1, OwnershipAlways, PTL

-----------------------------------------------------------------------------
\* The wrapper implements SessionOwnership

Definite == {w \in Invocation : outcome[w] \in {"Succeeded", "Failed", "Partial"}}

\* The three mapped variables change only as SessionOwnership allows, or not at all.
LEMMA OwnershipSimulation ==
  ASSUME OwnershipInvariant, [Next]_vars
  PROVE [Owner!Next]_(Owner!vars)
<1> DEFINE Mapped == <<json, Launched, Definite>>
<1>0. Mapped' = Mapped => UNCHANGED Owner!vars
  BY DEF Owner!vars, Definite
<1> USE DEF OwnershipInvariant, TypeOK, Launched, Definite
<1>1. ASSUME NEW w \in Invocation, Guarding(w)
      PROVE Owner!Free \/ Owner!Retract(w) \/ Mapped' = Mapped
  \* Either an outcome is retracted, or a record goes whose session has stopped.
  <2>1. CASE json' = json
    <3>1. Definite' \in {Definite, Definite \ {w}} /\ Launched' = Launched
      BY <1>1 DEF Guarding, InspectEmpty, InspectStopped, InspectHolds,
         RemoveStaleWorkspace, RemoveStaleRecord, RemovalFails, RemoveOwnWorkspace,
         RemoveOwnFails
    <3> QED
      BY <2>1, <3>1 DEF Owner!Retract
  <2>2. CASE json' # json
    <3>1. /\ pc[w] = "unlinking" /\ file[w] = "json" /\ json' = None
          /\ UNCHANGED process
      BY <1>1, <2>2 DEF Guarding, InspectEmpty, InspectStopped, InspectHolds,
         RemoveStaleWorkspace, RemoveStaleRecord, RemovalFails, RemoveOwnWorkspace,
         RemoveOwnFails
    <3>2. Launched = {} /\ Launched' = {}
      BY <3>1 DEF StoppedStaysStopped, LaunchedIsRecorded
    <3>3. UNCHANGED Definite
      <4>1. guard[w] # "none"
        BY <3>1 DEF GuardHasCaller, Guarded
      <4>2. guard[w] = "close" => w \notin Definite
        BY <3>1, <2>2 DEF RecordsKnown, SettledOutcome
      <4> QED
        BY <1>1, <4>1, <4>2 DEF Guarding, InspectEmpty, InspectStopped, InspectHolds,
           RemoveStaleWorkspace, RemoveStaleRecord, RemovalFails, RemoveOwnWorkspace,
           RemoveOwnFails
    <3> QED
      BY <2>2, <3>1, <3>2, <3>3 DEF Owner!Free
  <2> QED
    BY <2>1, <2>2
<1>2. ASSUME NEW w \in Invocation, Preparing(w) PROVE Mapped' = Mapped
  BY <1>2 DEF Preparing, BeginPreflight, PreflightRefused, Collect,
     CollectionAbandoned, BeginPrepare, Plan, PlanAbandoned
<1>3. ASSUME NEW w \in Invocation, Executing(w)
      PROVE \/ Owner!Reserve(w) \/ Owner!Launch(w) \/ Owner!Stop(w)
            \/ Owner!Free \/ Owner!Report(w) \/ Mapped' = Mapped
  <2>0. outcome[w] = "none"
    BY <1>3 DEF OutcomeIsLast, GuardHasCaller, Guarded, Executing, ExecuteHeld, Execute,
       RunHeld, StartCommand, CreatePending, WritePending, RenamePending, SaveFails,
       OpenGate, Wait, FinishInFlight, FinishHolds, ObserveFailure, VerifyAfterState
  <2>1. CASE ExecuteHeld(w) \/ Execute(w) \/ RunHeld(w) \/ CreatePending(w)
             \/ WritePending(w) \/ Wait(w)
    BY <2>0, <2>1 DEF ExecuteHeld, Execute, RunHeld, CreatePending, WritePending, Wait
  <2>2. CASE StartCommand(w)
    BY <2>2 DEF StartCommand, SessionKnown
  <2>3. CASE RenamePending(w)
    \* saveInFlight reserves: no record, hence nothing launched.
    BY <2>0, <2>3 DEF RenamePending, RecordsKnown, Owner!Reserve
  <2>4. CASE OpenGate(w)
    \* Releasing a gated session launches it under its own record.
    <3>1. json = w
      BY <2>4 DEF OpenGate, RecordsKnown
    <3>2. CASE process[w] = "gated"
      <4>1. Launched = {}
        BY <3>1, <3>2 DEF LaunchedIsRecorded
      <4>2. Launched' = {w}
        BY <2>4, <3>2, <4>1 DEF OpenGate
      <4> QED
        BY <2>4, <3>1, <4>1, <4>2 DEF OpenGate, Owner!Launch
    <3>3. CASE process[w] # "gated"
      BY <2>4, <3>3 DEF OpenGate
    <3> QED
      BY <3>2, <3>3
  <2>5. CASE SaveFails(w)
    <3>1. json' = json /\ Definite' = Definite
      BY <2>0, <2>5 DEF SaveFails
    <3>2. CASE w \in Launched
      <4>1. Launched = {w} /\ Launched' = {}
        BY <2>5, <3>2 DEF SaveFails, LaunchedIsRecorded
      <4> QED
        BY <3>1, <4>1 DEF Owner!Stop
    <3>3. CASE w \notin Launched
      BY <2>5, <3>1, <3>3 DEF SaveFails
    <3> QED
      BY <3>2, <3>3
  <2>6. CASE FinishInFlight(w) \/ FinishHolds(w)
    <3>1. Definite' = Definite /\ Launched' = Launched
      BY <2>0, <2>6 DEF FinishInFlight, FinishHolds
    <3>2. CASE json' # json
      <4>1. json = w /\ json' = None /\ process[w] = "none"
        BY <2>6, <3>2 DEF FinishInFlight, FinishHolds
      <4>2. Launched = {}
        BY <4>1 DEF LaunchedIsRecorded
      <4> QED
        BY <3>1, <4>1, <4>2 DEF Owner!Free
    <3> QED
      BY <3>1, <3>2
  <2>7. CASE ObserveFailure(w) \/ VerifyAfterState(w)
    \* Nothing is recorded and the session is gone when the outcome is settled.
    <3>1. json = None /\ w \notin Launched
      BY <2>7 DEF ObserveFailure, VerifyAfterState, RecordsKnown, SessionKnown
    <3>2. /\ Definite' \in {Definite, Definite \cup {w}}
          /\ Launched' = Launched /\ json' = json
      BY <2>0, <2>7 DEF ObserveFailure, VerifyAfterState
    <3> QED
      BY <3>1, <3>2 DEF Owner!Report
  <2> QED
    BY <1>3, <2>1, <2>2, <2>3, <2>4, <2>5, <2>6, <2>7 DEF Executing
<1>4. ASSUME NEW w \in Invocation, Environment(w) PROVE Owner!Stop(w) \/ Mapped' = Mapped
  <2>1. /\ json' = json /\ Definite' = Definite
        /\ Launched' \in {Launched, Launched \ {w}}
    BY <1>4 DEF Environment, Crash, Launch, GateClosed, GatedChildKilled, LeaderExits,
       DescendantsStop, DropInheritedLock, ReuseNumber, ReleaseNumber
  <2>2. w \in Launched => Launched = {w}
    BY DEF LaunchedIsRecorded
  <2> QED
    BY <2>1, <2>2 DEF Owner!Stop
<1>5. CASE UNCHANGED vars
  BY <1>0, <1>5 DEF vars
<1> HIDE DEF Mapped, OwnershipInvariant, TypeOK, Launched, Definite
<1>6. ASSUME NEW w \in Invocation, Wrapper(w) \/ Environment(w)
      PROVE Owner!Next \/ Mapped' = Mapped
  BY <1>1, <1>2, <1>3, <1>4, <1>6 DEF Wrapper, Owner!Next
<1> QED
  BY <1>0, <1>5, <1>6 DEF Next, Settled

\* OwnedExecution implements SessionOwnership: the record is the reservation.
THEOREM OwnershipImplemented == Spec => ImplementsOwnership
<1>1. Init => Owner!Init
  BY DEF Init, Owner!Init, Launched
<1>2. OwnershipInvariant /\ [Next]_vars => [Owner!Next]_(Owner!vars)
  BY OwnershipSimulation
<1> QED
  BY <1>1, <1>2, OwnershipAlways, PTL DEF Spec, ImplementsOwnership, Owner!Spec

-----------------------------------------------------------------------------
\* The measure falls

\* What a step of one invocation leaves of another one.
LEMMA OthersUnmoved ==
  ASSUME TypeOK, NEW v \in Invocation, NEW w \in Invocation, v # w,
         Wrapper(w) \/ Environment(w)
  PROVE UNCHANGED WrapperOf(v) /\ process'[v] = process[v]
<1> USE DEF TypeOK, WrapperOf
<1>1. CASE Guarding(w)
  BY <1>1 DEF Guarding, InspectEmpty, InspectStopped, InspectHolds,
     RemoveStaleWorkspace, RemoveStaleRecord, RemovalFails, RemoveOwnWorkspace,
     RemoveOwnFails
<1>2. CASE Preparing(w)
  BY <1>2 DEF Preparing, BeginPreflight, PreflightRefused, Collect,
     CollectionAbandoned, BeginPrepare, Plan, PlanAbandoned
<1>3. CASE Executing(w)
  BY <1>3 DEF Executing, ExecuteHeld, Execute, RunHeld, StartCommand, CreatePending,
     WritePending, RenamePending, SaveFails, OpenGate, Wait, FinishInFlight,
     FinishHolds, ObserveFailure, VerifyAfterState
<1>4. CASE Environment(w)
  BY <1>4 DEF Environment, Crash, Launch, GateClosed, GatedChildKilled, LeaderExits,
     DescendantsStop, DropInheritedLock, ReuseNumber, ReleaseNumber
<1> QED
  BY <1>1, <1>2, <1>3, <1>4 DEF Wrapper

Falls(w) == StepsLeft(w)' \in Nat /\ StepsLeft(w)' < StepsLeft(w)

\* Each action of an invocation, and its crash, lowers its measure.
LEMMA OwnMeasureFalls ==
  ASSUME TypeOK, TypeOK', GuardHasCaller, CommandIsPending, NEW w \in Invocation,
         Wrapper(w) \/ Environment(w)
  PROVE Falls(w) \/ UNCHANGED WrapperOf(w)
<1>0. /\ remaining[w] \in 0..MaxCommands /\ remaining'[w] \in 0..MaxCommands
      /\ file[w] \in {"json", "pending"} /\ file'[w] \in {"json", "pending"}
      /\ guard[w] \in Guards /\ guard'[w] \in Guards
      /\ pc[w] \in Labels /\ pc'[w] \in Labels
  BY DEF TypeOK
<1> USE DEF Falls, StepsLeft, GuardLeft, Guarded, TypeOK, Guards
<1>1. CASE Guarding(w)
  BY <1>0, <1>1 DEF GuardHasCaller, Guarding, InspectEmpty, InspectStopped, InspectHolds,
     RemoveStaleWorkspace, RemoveStaleRecord, RemovalFails, RemoveOwnWorkspace,
     RemoveOwnFails
<1>2. CASE Preparing(w)
  BY <1>0, <1>2 DEF Preparing, BeginPreflight, PreflightRefused, Collect,
     CollectionAbandoned, BeginPrepare, Plan, PlanAbandoned
<1>3. CASE Executing(w)
  <2>1. CASE ExecuteHeld(w) \/ Execute(w) \/ RunHeld(w) \/ StartCommand(w) \/ Wait(w)
    BY <1>0, <2>1 DEF ExecuteHeld, Execute, RunHeld, StartCommand, Wait
  <2>2. CASE CreatePending(w) \/ WritePending(w) \/ RenamePending(w)
    BY <1>0, <2>2 DEF CreatePending, WritePending, RenamePending
  \* A record that is not saved or not cleared costs one more guard, less than a command.
  <2>3. CASE SaveFails(w) \/ OpenGate(w) \/ FinishInFlight(w) \/ FinishHolds(w)
    <3>1. remaining[w] > 0
      BY <2>3 DEF SaveFails, OpenGate, FinishInFlight, FinishHolds, CommandIsPending
    <3>2. CASE SaveFails(w) \/ OpenGate(w)
      BY <1>0, <3>1, <3>2 DEF SaveFails, OpenGate
    <3>3. CASE FinishInFlight(w) \/ FinishHolds(w)
      BY <1>0, <3>1, <3>3 DEF FinishInFlight, FinishHolds
    <3> QED
      BY <2>3, <3>2, <3>3
  <2>4. CASE ObserveFailure(w) \/ VerifyAfterState(w)
    BY <1>0, <2>4 DEF ObserveFailure, VerifyAfterState
  <2> QED
    BY <1>3, <2>1, <2>2, <2>3, <2>4 DEF Executing
<1>4. CASE Crash(w)
  BY <1>0, <1>4 DEF Crash, Labels
<1>5. CASE Environment(w) /\ ~Crash(w)
  BY <1>5 DEF Environment, Launch, GateClosed, GatedChildKilled, LeaderExits,
     DescendantsStop, DropInheritedLock, ReuseNumber, ReleaseNumber, WrapperOf
<1> QED
  BY <1>1, <1>2, <1>3, <1>4, <1>5 DEF Wrapper

\* Whatever the others, the sessions and crashes do, an invocation only moves towards
\* its end: no guard is repeated without end and no busy lock is waited for.
THEOREM InvocationAdvancesAlways == Spec => InvocationAdvances
<1>1. OwnershipInvariant /\ OwnershipInvariant' /\ [Next]_vars =>
        [\A w \in Invocation :
           \/ StepsLeft(w)' \in Nat /\ StepsLeft(w)' < StepsLeft(w)
           \/ UNCHANGED WrapperOf(w)]_vars
  <2> SUFFICES ASSUME OwnershipInvariant, OwnershipInvariant', Next, NEW w \in Invocation
               PROVE Falls(w) \/ UNCHANGED WrapperOf(w)
    BY DEF Falls
  <2>1. CASE Settled
    BY <2>1 DEF Settled, vars, WrapperOf
  <2>2. ASSUME NEW v \in Invocation, Wrapper(v) \/ Environment(v)
        PROVE Falls(w) \/ UNCHANGED WrapperOf(w)
    BY <2>2, OthersUnmoved, OwnMeasureFalls DEF OwnershipInvariant
  <2> QED
    BY <2>1, <2>2 DEF Next
<1> QED
  BY <1>1, OwnershipAlways, PTL DEF Spec, InvocationAdvances

-----------------------------------------------------------------------------
\* Each invocation implements CommandSequence

\* A step of an invocation or of its session is one that CommandSequence allows, or none.
LEMMA CommandsSimulation ==
  ASSUME OwnershipInvariant, TypeOK', NEW w \in Invocation,
         Wrapper(w) \/ Environment(w)
  PROVE  [Commands(w)!Next]_(Commands(w)!vars)
<1> DEFINE Left == IF Phase(w) = "open" THEN remaining[w] ELSE 0
           Busy == pc[w] \in {"waiting", "finishing"}
           Live == w \in Launched
<1>1. /\ remaining[w] \in Nat /\ remaining'[w] \in Nat
      /\ outcome[w] # "none" => guard[w] = "close" \/ pc[w] \in {"ended", "crashed"}
      /\ pc[w] \in Guarded <=> guard[w] # "none" /\ pc[w] # "removeOwn"
      /\ pc[w] = "removeOwn" => guard[w] \in {"abandon", "close"}
  BY DEF OwnershipInvariant, TypeOK, OutcomeIsLast, GuardHasCaller
<1>2. /\ pc[w] \in {"ready", "recording", "writing", "renaming", "recorded", "observing"}
           => process[w] \in {"none", "gated"}
      /\ pc[w] \in {"ready", "observing"} => process[w] = "none"
      /\ pc[w] \in {"recording", "writing", "renaming", "recorded", "waiting", "finishing"}
           => remaining[w] > 0
  BY DEF OwnershipInvariant, SessionKnown, CommandIsPending
<1>3. ASSUME Phase(w)' = Phase(w), Left' = Left, Busy' = Busy, Live' = Live,
             outcome'[w] = outcome[w]
      PROVE [Commands(w)!Next]_(Commands(w)!vars)
  BY <1>3 DEF Commands!vars
<1>4. ASSUME NEW r \in {"none", "Succeeded", "Failed", "Partial", "Unknown"},
             Phase(w) # "over", Phase(w)' = "over", ~Busy', Live' = Live,
             outcome'[w] = r,
             r = "Succeeded" => Phase(w) = "open" /\ Left = 0,
             r \in {"Failed", "Partial"} => Phase(w) = "failed"
      PROVE Commands(w)!Next
  BY <1>4 DEF Commands!Next, Commands!Conclude
<1>5. Phase(w) = "over" <=> pc[w] \in {"ended", "crashed"} \/ guard[w] \in {"abandon", "close"}
  BY <1>1 DEF Phase, Guarded
<1>6. CASE Guarding(w)
  <2>1. /\ pc[w] \in Guarded \cup {"removeOwn"} /\ ~Busy /\ ~Busy' /\ Live' = Live
        /\ pc'[w] \in Guarded \cup {"removeOwn", "collecting", "planning", "ended"}
    BY <1>6 DEF Guarding, InspectEmpty, InspectStopped, InspectHolds,
       RemoveStaleWorkspace, RemoveStaleRecord, RemovalFails, RemoveOwnWorkspace,
       RemoveOwnFails, OwnershipInvariant, TypeOK, Guarded, Launched
  <2>2. \/ pc'[w] = "ended" \/ guard'[w] = guard[w]
        \/ pc'[w] \in {"collecting", "planning"} /\ guard[w] \in {"preflight", "prepare"}
             /\ guard'[w] = "none"
        \/ guard[w] = "prepare" /\ guard'[w] = "abandon"
    <3>1. CASE InspectEmpty(w) \/ RemoveStaleRecord(w)
      BY <3>1 DEF InspectEmpty, RemoveStaleRecord, OwnershipInvariant, TypeOK
    <3>2. CASE InspectStopped(w) \/ RemoveStaleWorkspace(w) \/ RemoveOwnWorkspace(w)
      BY <3>2 DEF InspectStopped, RemoveStaleWorkspace, RemoveOwnWorkspace,
         OwnershipInvariant, TypeOK
    <3>3. CASE InspectHolds(w) \/ RemovalFails(w) \/ RemoveOwnFails(w)
      BY <3>3 DEF InspectHolds, RemovalFails, RemoveOwnFails, OwnershipInvariant, TypeOK
    <3>4. QED
      BY <1>6, <3>1, <3>2, <3>3 DEF Guarding
  <2>3. outcome'[w] = outcome[w] \/ (guard[w] = "close" /\ outcome'[w] = "Unknown")
    BY <1>6 DEF Guarding, InspectEmpty, InspectStopped, InspectHolds,
       RemoveStaleWorkspace, RemoveStaleRecord, RemovalFails, RemoveOwnWorkspace,
       RemoveOwnFails, OwnershipInvariant, TypeOK
  <2>4. Phase(w) \in {"before", "over"} /\ Phase(w)' \in {"before", "over"}
    BY <2>1 DEF Phase, Guarded
  \* A closing invocation stays closed, and a failed cleanup retracts its outcome.
  <2>5. CASE guard[w] \in {"abandon", "close"}
    <3>1. Phase(w) = "over" /\ Phase(w)' = "over"
      BY <1>5, <2>1, <2>2, <2>5 DEF Phase, Guarded
    <3>2. CASE outcome'[w] = outcome[w]
      BY <1>3, <2>1, <3>1, <3>2
    <3>3. CASE outcome'[w] = "Unknown"
      BY <2>1, <3>1, <3>3 DEF Commands!Next, Commands!Retract
    <3>4. QED
      BY <2>3, <3>2, <3>3
  <2>6. CASE guard[w] \notin {"abandon", "close"}
    <3>1. Phase(w) = "before" /\ outcome[w] = "none" /\ outcome'[w] = "none"
      BY <1>1, <1>5, <2>1, <2>3, <2>4, <2>6 DEF Guarded
    <3>2. CASE Phase(w)' = "before"
      BY <1>3, <2>1, <3>1, <3>2
    <3>3. CASE Phase(w)' = "over"
      BY <1>4, <2>1, <3>1, <3>3
    <3>4. QED
      BY <2>4, <3>2, <3>3
  <2>7. QED
    BY <2>5, <2>6
<1>7. CASE Preparing(w)
  <2>1. /\ outcome'[w] = outcome[w] /\ outcome[w] = "none" /\ Live' = Live
        /\ Phase(w) = "before" /\ Phase(w)' \in {"before", "over"} /\ ~Busy /\ ~Busy'
    BY <1>1, <1>7 DEF Preparing, BeginPreflight, PreflightRefused, Collect,
       CollectionAbandoned, BeginPrepare, Plan, PlanAbandoned, OwnershipInvariant, TypeOK,
       Launched, Phase, Guarded
  <2>2. QED
    BY <1>3, <1>4, <2>1
<1>8. CASE Executing(w)
  <2>1. guard[w] = "none" /\ outcome[w] = "none"
    BY <1>1, <1>8 DEF Executing, ExecuteHeld, Execute, RunHeld, StartCommand, CreatePending,
       WritePending, RenamePending, SaveFails, OpenGate, Wait, FinishInFlight,
       FinishHolds, ObserveFailure, VerifyAfterState, Guarded
  \* The attempt is held or unknown, whatever its last session may be doing.
  <2>2. CASE ExecuteHeld(w) \/ RunHeld(w) \/ SaveFails(w) \/ FinishHolds(w)
    <3>1. /\ outcome'[w] \in {"none", "Unknown"} /\ pc'[w] = "inspect" /\ guard'[w] = "close"
          /\ pc[w] \notin {"ended", "crashed"} /\ Live' = Live
      BY <1>2, <2>2 DEF ExecuteHeld, RunHeld, SaveFails, FinishHolds, OwnershipInvariant,
         TypeOK, Launched
    <3>2. Phase(w) # "over" /\ Phase(w)' = "over" /\ ~Busy'
      BY <1>5, <2>1, <3>1 DEF Phase
    <3>3. QED
      BY <1>4, <3>1, <3>2
  <2>3. CASE Execute(w)
    <3>1. /\ Phase(w) = "before" /\ Phase(w)' = "open" /\ ~Busy /\ ~Busy' /\ Live' = Live
          /\ outcome'[w] = outcome[w]
      BY <2>1, <2>3 DEF Execute, OwnershipInvariant, TypeOK, Phase, Launched
    <3>2. QED
      BY <1>1, <3>1 DEF Commands!Next, Commands!Admit
  <2>4. CASE StartCommand(w) \/ CreatePending(w) \/ WritePending(w) \/ RenamePending(w)
             \/ Wait(w)
    <3>1. /\ Phase(w) = "open" /\ Phase(w)' = "open" /\ Busy' = Busy /\ Live' = Live
          /\ outcome'[w] = outcome[w] /\ remaining'[w] = remaining[w]
      BY <1>2, <2>1, <2>4 DEF StartCommand, CreatePending, WritePending, RenamePending, Wait,
         OwnershipInvariant, TypeOK, Phase, Launched
    <3>2. QED
      BY <1>3, <3>1
  \* The gate of a recorded child opens, while it waits there or after it was killed.
  <2>5. CASE OpenGate(w)
    <3>1. /\ Phase(w) = "open" /\ Phase(w)' = "open" /\ ~Busy /\ Busy' /\ ~Live
          /\ outcome'[w] = outcome[w] /\ remaining'[w] = remaining[w] /\ remaining[w] > 0
      BY <1>2, <2>1, <2>5 DEF OpenGate, OwnershipInvariant, TypeOK, Phase, Launched
    <3>2. QED
      BY <3>1 DEF Commands!Next, Commands!Launch
  <2>6. CASE FinishInFlight(w)
    <3>1. /\ Phase(w) = "open" /\ Busy /\ ~Busy' /\ ~Live /\ ~Live'
          /\ outcome'[w] = outcome[w]
      BY <2>1, <2>6 DEF FinishInFlight, OwnershipInvariant, TypeOK, Phase, Launched
    <3>2. CASE exit[w] = "zero"
      <4>1. Phase(w)' = "open" /\ remaining'[w] = remaining[w] - 1
        BY <2>1, <2>6, <3>2 DEF FinishInFlight, OwnershipInvariant, TypeOK, Phase
      <4>2. QED
        BY <3>1, <4>1 DEF Commands!Next, Commands!Finish
    <3>3. CASE exit[w] = "nonzero"
      <4>1. Phase(w)' = "failed"
        BY <2>1, <2>6, <3>3 DEF FinishInFlight, OwnershipInvariant, TypeOK, Phase
      <4>2. QED
        BY <3>1, <4>1 DEF Commands!Next, Commands!Fail
    <3>4. QED
      BY <2>6, <3>2, <3>3 DEF FinishInFlight
  <2>7. CASE ObserveFailure(w) \/ VerifyAfterState(w)
    <3>1. /\ pc'[w] = "inspect" /\ guard'[w] = "close" /\ Live' = Live
          /\ \/ Phase(w) = "failed" /\ outcome'[w] \in {"Failed", "Partial", "Unknown"}
             \/ Phase(w) = "open" /\ Left = 0 /\ outcome'[w] \in {"Succeeded", "Unknown"}
      BY <2>1, <2>7 DEF ObserveFailure, VerifyAfterState, OwnershipInvariant, TypeOK, Phase,
         Launched
    <3>2. Phase(w)' = "over" /\ ~Busy'
      BY <3>1 DEF Phase
    <3>3. QED
      BY <1>4, <3>1, <3>2
  <2>8. QED
    BY <1>8, <2>2, <2>3, <2>4, <2>5, <2>6, <2>7 DEF Executing
<1>9. CASE Crash(w)
  <2>1. /\ pc[w] \notin {"ended", "crashed"} /\ pc'[w] = "crashed"
        /\ outcome'[w] = outcome[w] /\ Live' = Live
    BY <1>9 DEF Crash, OwnershipInvariant, TypeOK, Launched
  <2>2. Phase(w)' = "over" /\ ~Busy'
    BY <2>1 DEF Phase
  \* A crash while the invocation closes changes nothing it has promised.
  <2>3. CASE guard[w] \in {"abandon", "close"}
    <3>1. Phase(w) = "over" /\ ~Busy
      BY <1>1, <1>5, <2>3 DEF Guarded
    <3>2. QED
      BY <1>3, <2>1, <2>2, <3>1
  <2>4. CASE guard[w] \notin {"abandon", "close"}
    <3>1. Phase(w) # "over" /\ outcome[w] = "none"
      BY <1>1, <1>5, <2>1, <2>4
    <3>2. QED
      BY <1>4, <2>1, <2>2, <3>1
  <2>5. QED
    BY <2>3, <2>4
<1>10. CASE Environment(w) /\ ~Crash(w)
  <2>1. UNCHANGED <<pc, guard, remaining, outcome>>
    BY <1>10 DEF Environment, Launch, GateClosed, GatedChildKilled, LeaderExits,
       DescendantsStop, DropInheritedLock, ReuseNumber, ReleaseNumber
  <2>2. Live' => Live
    BY <1>10 DEF Environment, Launch, GateClosed, GatedChildKilled, LeaderExits,
       DescendantsStop, DropInheritedLock, ReuseNumber, ReleaseNumber, OwnershipInvariant,
       TypeOK, Launched
  <2>3. Phase(w)' = Phase(w) /\ Left' = Left /\ Busy' = Busy
    BY <2>1 DEF Phase
  <2>4. CASE Live' = Live
    BY <1>3, <2>1, <2>3, <2>4
  <2>5. CASE Live' # Live
    BY <2>1, <2>2, <2>3, <2>5 DEF Commands!Next, Commands!Stop
  <2>6. QED
    BY <2>4, <2>5
<1>11. QED
  BY <1>6, <1>7, <1>8, <1>9, <1>10 DEF Wrapper

\* Whatever other invocations, guards and crashes do, the commands of an invocation run
\* in turn and a definite outcome follows the last (runCommand, finishInFlight).
THEOREM RunsCommandsInTurnAlways == Spec => RunsCommandsInTurn
<1>1. Init => \A w \in Invocation : Commands(w)!Init
  BY DEF Init, Commands!Init, Phase, Launched
<1>2. OwnershipInvariant /\ OwnershipInvariant' /\ [Next]_vars =>
        [\A w \in Invocation : [Commands(w)!Next]_(Commands(w)!vars)]_vars
  <2> SUFFICES ASSUME OwnershipInvariant, OwnershipInvariant', Next, NEW w \in Invocation
               PROVE [Commands(w)!Next]_(Commands(w)!vars)
    OBVIOUS
  <2>1. CASE Settled
    BY <2>1 DEF Settled, vars, Commands!vars, Phase, Launched
  <2>2. ASSUME NEW v \in Invocation, v # w, Wrapper(v) \/ Environment(v)
        PROVE [Commands(w)!Next]_(Commands(w)!vars)
    <3>1. UNCHANGED WrapperOf(w) /\ process'[w] = process[w]
      BY <2>2, OthersUnmoved DEF OwnershipInvariant
    <3>2. QED
      BY <3>1 DEF WrapperOf, Commands!vars, Phase, Launched
  <2>3. CASE Wrapper(w) \/ Environment(w)
    BY <2>3, CommandsSimulation DEF OwnershipInvariant
  <2>4. QED
    BY <2>1, <2>2, <2>3 DEF Next
<1>3. QED
  BY <1>1, <1>2, OwnershipAlways, PTL DEF Spec, RunsCommandsInTurn

=============================================================================
