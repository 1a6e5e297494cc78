--------------------------- MODULE OwnedExecution ---------------------------
(***************************************************************************)
(* How BrewWarden owns the Homebrew process it starts.  Several invocations *)
(* of the wrapper share one state directory: the lock file execution.lock,  *)
(* the records inflight.json and inflight.pending, and one private          *)
(* collection-* workspace per invocation.  An invocation runs Homebrew in a *)
(* process session of its own, which can outlive the wrapper.               *)
(*                                                                          *)
(* Sources: adapters/homebrew/{engine,public_session,inflight}.go and       *)
(* application/{service,execute}.go.  A wrapper runs once, so the identity  *)
(* of an invocation also names its workspace and its current session.       *)
(***************************************************************************)
EXTENDS Naturals, FiniteSets

CONSTANTS
  Invocation,   \* runs of the wrapper, concurrent or one after the other
  MaxCommands,  \* bound on the pending actions of one plan
  None,         \* no record file
  Torn          \* a record file whose content was not completely written

ASSUME NamesDistinct == None \notin Invocation /\ Torn \notin Invocation /\ None # Torn

ASSUME MaxCommandsIsNat == MaxCommands \in Nat

VARIABLES
  pc,            \* where each wrapper is
  guard,         \* which caller the running clearStoppedInFlight returns to
  file,          \* which record that guard is looking at
  remaining,     \* actions of the plan that have not run yet
  outcome,       \* domain.AttemptOutcome of the invocation, or "none"
  wrapperHolds,  \* wrappers with the locked file description open
  processHolds,  \* invocations whose session inherited that description
  process,       \* the session each invocation started last
  exit,          \* exit state of that session's leader
  reused,        \* ended sessions whose number an unrelated process took
  json,          \* content of inflight.json
  pending,       \* content of inflight.pending
  workspaces     \* invocations whose collection directory exists

wrapperVars == <<pc, guard, file, remaining, outcome>>
lockVars == <<wrapperHolds, processHolds>>
sessionVars == <<process, exit, reused>>
recordVars == <<json, pending>>
vars == <<wrapperVars, lockVars, sessionVars, recordVars, workspaces>>

-----------------------------------------------------------------------------
\* Types

Labels == {"idle", "inspect", "removing", "unlinking", "collecting", "collected",
           "planning", "prepared", "ready", "recording", "writing", "renaming",
           "recorded", "waiting", "finishing", "observing", "removeOwn",
           "ended", "crashed"}
Guards == {"none", "preflight", "prepare", "abandon", "close"}
ProcessStates == {"none", "gated", "released", "running", "orphaned"}
Outcomes == {"none", "Succeeded", "Failed", "Partial", "Unknown"}

\* Every variable keeps its type.
TypeOK ==
  /\ pc \in [Invocation -> Labels]
  /\ guard \in [Invocation -> Guards]
  /\ file \in [Invocation -> {"json", "pending"}]
  /\ remaining \in [Invocation -> 0..MaxCommands]
  /\ outcome \in [Invocation -> Outcomes]
  /\ wrapperHolds \subseteq Invocation
  /\ processHolds \subseteq Invocation
  /\ process \in [Invocation -> ProcessStates]
  /\ exit \in [Invocation -> {"none", "zero", "nonzero"}]
  /\ reused \subseteq Invocation
  /\ json \in Invocation \cup {None}
  /\ pending \in Invocation \cup {None, Torn}
  /\ workspaces \subseteq Invocation

Init ==
  /\ pc = [w \in Invocation |-> "idle"]
  /\ guard = [w \in Invocation |-> "none"]
  /\ file = [w \in Invocation |-> "json"]
  /\ remaining = [w \in Invocation |-> 0]
  /\ outcome = [w \in Invocation |-> "none"]
  /\ wrapperHolds = {}
  /\ processHolds = {}
  /\ process = [w \in Invocation |-> "none"]
  /\ exit = [w \in Invocation |-> "none"]
  /\ reused = {}
  /\ json = None
  /\ pending = None
  /\ workspaces = {}

-----------------------------------------------------------------------------
\* Helpers

\* acquireOperationLock asks for flock(LOCK_EX | LOCK_NB): it succeeds when no
\* open file description holds the lock, neither a wrapper's nor an inherited one.
LockFree == wrapperHolds = {} /\ processHolds = {}

\* Bug: only the leader's PID is looked up, not the whole session.
BugActive(w) == process[w] \in {"gated", "released", "running"} \/ w \in reused

\* processSessionActive: some live process has the recorded session number.  A
\* number taken by an unrelated process counts as active (it holds).
Active(w) == process[w] # "none" \/ w \in reused

\* readInFlight of the file the guard of w is looking at.
Record(w) == IF file[w] = "json" THEN json ELSE pending

Goto(w, label) == pc' = [pc EXCEPT ![w] = label]

\* clearStoppedInFlight starts with inflight.json.
EnterGuard(w, caller) ==
  /\ Goto(w, "inspect")
  /\ guard' = [guard EXCEPT ![w] = caller]
  /\ file' = [file EXCEPT ![w] = "json"]

\* The wrapper closes its descriptor; inherited ones keep the lock.
Unlock(w) == wrapperHolds' = wrapperHolds \ {w}

\* Bug: Close removes the collection without running the guard first.
BugCloseWith(w, r) ==
  /\ Goto(w, "removeOwn")
  /\ guard' = [guard EXCEPT ![w] = "close"]
  /\ file' = [file EXCEPT ![w] = "json"]
  /\ outcome' = [outcome EXCEPT ![w] = r]

\* The deferred session.Close of Execute, after the attempt has result r.
CloseWith(w, r) ==
  /\ EnterGuard(w, "close")
  /\ outcome' = [outcome EXCEPT ![w] = r]

LeaveGuard(w, label) ==
  /\ Goto(w, label)
  /\ guard' = [guard EXCEPT ![w] = "none"]
  /\ file' = [file EXCEPT ![w] = "json"]

\* Both records are clear: the preflight unlocks and collects, Prepare plans,
\* and Close goes on to its own collection.
GuardPasses(w) ==
  \/ /\ guard[w] = "preflight"
     /\ LeaveGuard(w, "collecting")
     /\ Unlock(w)
  \/ /\ guard[w] = "prepare"
     /\ LeaveGuard(w, "planning")
     /\ UNCHANGED wrapperHolds
  \/ /\ guard[w] \in {"abandon", "close"}
     /\ Goto(w, "removeOwn")
     /\ file' = [file EXCEPT ![w] = "json"]
     /\ UNCHANGED <<guard, wrapperHolds>>

\* The guard returns an error: Prepare closes its session, which repeats the
\* guard; Close keeps its workspace, unlocks, and makes the attempt Unknown.
GuardHolds(w) ==
  \/ /\ guard[w] = "preflight"
     /\ LeaveGuard(w, "ended")
     /\ Unlock(w)
     /\ UNCHANGED outcome
  \/ /\ guard[w] = "prepare"
     /\ EnterGuard(w, "abandon")
     /\ UNCHANGED <<wrapperHolds, outcome>>
  \/ /\ guard[w] \in {"abandon", "close"}
     /\ LeaveGuard(w, "ended")
     /\ Unlock(w)
     /\ outcome' = [outcome EXCEPT ![w] = IF guard[w] = "close" THEN "Unknown" ELSE @]

\* The loop of clearStoppedInFlight: inflight.json, then inflight.pending.
NextRecord(w) ==
  \/ /\ file[w] = "json"
     /\ Goto(w, "inspect")
     /\ file' = [file EXCEPT ![w] = "pending"]
     /\ UNCHANGED <<guard, wrapperHolds>>
  \/ /\ file[w] = "pending"
     /\ GuardPasses(w)

-----------------------------------------------------------------------------
\* clearStoppedInFlight, run while holding the operation lock

\* No record in this file: go on to the next one.
InspectEmpty(w) ==
  /\ pc[w] = "inspect"
  /\ Record(w) = None
  /\ NextRecord(w)
  /\ UNCHANGED <<remaining, outcome, processHolds, sessionVars, recordVars, workspaces>>

\* A complete record whose session has no live process.
InspectStopped(w) ==
  /\ pc[w] = "inspect"
  /\ Record(w) \in Invocation
  /\ ~Active(Record(w))
  /\ Goto(w, "removing")
  /\ UNCHANGED <<guard, file, remaining, outcome, lockVars, sessionVars, recordVars, workspaces>>

\* A torn record, an active session, or a process inventory that cannot be read.
InspectHolds(w) ==
  /\ pc[w] = "inspect"
  /\ Record(w) # None
  /\ GuardHolds(w)
  /\ UNCHANGED <<remaining, processHolds, sessionVars, recordVars, workspaces>>

\* Bug: the cleanup sweeps every other collection, recorded or not.
BugRemoveStaleWorkspace(w) ==
  /\ pc[w] = "removing"
  /\ Goto(w, "unlinking")
  /\ workspaces' = workspaces \cap {w}
  /\ UNCHANGED <<guard, file, remaining, outcome, lockVars, sessionVars, recordVars>>

RemoveStaleWorkspace(w) ==
  /\ pc[w] = "removing"
  /\ Goto(w, "unlinking")
  /\ workspaces' = workspaces \ {Record(w)}
  /\ UNCHANGED <<guard, file, remaining, outcome, lockVars, sessionVars, recordVars>>

RemoveRecord(w) ==
  IF file[w] = "json" THEN json' = None /\ UNCHANGED pending
                      ELSE pending' = None /\ UNCHANGED json

RemoveStaleRecord(w) ==
  /\ pc[w] = "unlinking"
  /\ RemoveRecord(w)
  /\ NextRecord(w)
  /\ UNCHANGED <<remaining, outcome, processHolds, sessionVars, workspaces>>

\* removeCollection, os.Remove or syncParent fails; a failed sync comes after the
\* collection was removed or the record unlinked.
RemovalFails(w) ==
  /\ \/ /\ pc[w] = "removing"
        /\ workspaces' \in {workspaces, workspaces \ {Record(w)}}
        /\ UNCHANGED recordVars
     \/ /\ pc[w] = "unlinking"
        /\ UNCHANGED recordVars \/ RemoveRecord(w)
        /\ UNCHANGED workspaces
  /\ GuardHolds(w)
  /\ UNCHANGED <<remaining, processHolds, sessionVars>>

-----------------------------------------------------------------------------
\* Engine.Prepare and Collection.Prepare

\* checkNoActiveExecution takes the lock for the duration of one guard.
BeginPreflight(w) ==
  /\ pc[w] = "idle"
  /\ LockFree
  /\ wrapperHolds' = wrapperHolds \cup {w}
  /\ EnterGuard(w, "preflight")
  /\ UNCHANGED <<remaining, outcome, processHolds, sessionVars, recordVars, workspaces>>

\* The lock is taken, or the request is refused before it is tried.
PreflightRefused(w) ==
  /\ pc[w] = "idle"
  /\ Goto(w, "ended")
  /\ UNCHANGED <<guard, file, remaining, outcome, lockVars, sessionVars, recordVars, workspaces>>

\* Collect makes a fresh workspace and fills it without holding the lock.
Collect(w) ==
  /\ pc[w] = "collecting"
  /\ Goto(w, "collected")
  /\ workspaces' = workspaces \cup {w}
  /\ UNCHANGED <<guard, file, remaining, outcome, lockVars, sessionVars, recordVars>>

\* Collection, the waivers, the frozen inputs or the runtime check fail, or the
\* lock is busy: the workspace is removed without the lock, and an error of the
\* removal is ignored.
CollectionAbandoned(w) ==
  /\ pc[w] = "collected"
  /\ Goto(w, "ended")
  /\ workspaces' \in {workspaces, workspaces \ {w}}
  /\ UNCHANGED <<guard, file, remaining, outcome, lockVars, sessionVars, recordVars>>

\* Bug: the lock is probed but not kept while the plan is made and executed.
BugBeginPrepare(w) ==
  /\ pc[w] = "collected"
  /\ LockFree
  /\ EnterGuard(w, "prepare")
  /\ UNCHANGED <<remaining, outcome, lockVars, sessionVars, recordVars, workspaces>>

BeginPrepare(w) ==
  /\ pc[w] = "collected"
  /\ LockFree
  /\ wrapperHolds' = wrapperHolds \cup {w}
  /\ EnterGuard(w, "prepare")
  /\ UNCHANGED <<remaining, outcome, processHolds, sessionVars, recordVars, workspaces>>

\* The plan is written; n of its actions are not "keep".
Plan(w) ==
  /\ pc[w] = "planning"
  /\ Goto(w, "prepared")
  /\ \E n \in 0..MaxCommands : remaining' = [remaining EXCEPT ![w] = n]
  /\ UNCHANGED <<guard, file, outcome, lockVars, sessionVars, recordVars, workspaces>>

\* Planning fails, or the plan cannot be presented: no attempt is reported.
PlanAbandoned(w) ==
  /\ pc[w] \in {"planning", "prepared"}
  /\ EnterGuard(w, "abandon")
  /\ UNCHANGED <<remaining, outcome, lockVars, sessionVars, recordVars, workspaces>>

-----------------------------------------------------------------------------
\* Execute, publicSession.Run and runCommand

\* Execute returns before Run: revalidation, the window or the policy refuses.
ExecuteHeld(w) ==
  /\ pc[w] = "prepared"
  /\ CloseWith(w, "none")
  /\ UNCHANGED <<remaining, lockVars, sessionVars, recordVars, workspaces>>

Execute(w) ==
  /\ pc[w] = "prepared"
  /\ Goto(w, "ready")
  /\ UNCHANGED <<guard, file, remaining, outcome, lockVars, sessionVars, recordVars, workspaces>>

\* Revalidation, time, policy, the runtime check, the pipe or Start fails: the
\* result carries no exit state.
RunHeld(w) ==
  /\ pc[w] = "ready"
  /\ CloseWith(w, "Unknown")
  /\ UNCHANGED <<remaining, lockVars, sessionVars, recordVars, workspaces>>

\* Bug: the child is started without its gate.
BugStartCommand(w) ==
  /\ pc[w] = "ready"
  /\ remaining[w] > 0
  /\ Goto(w, "recording")
  /\ process' = [process EXCEPT ![w] = "released"]
  /\ exit' = [exit EXCEPT ![w] = "none"]
  /\ reused' = reused \ {w}
  /\ processHolds' = processHolds \cup {w}
  /\ UNCHANGED <<guard, file, remaining, outcome, wrapperHolds, recordVars, workspaces>>

\* command.Start: a new session that waits at its gate and inherits the lock.
StartCommand(w) ==
  /\ pc[w] = "ready"
  /\ remaining[w] > 0
  /\ Goto(w, "recording")
  /\ process' = [process EXCEPT ![w] = "gated"]
  /\ exit' = [exit EXCEPT ![w] = "none"]
  /\ reused' = reused \ {w}
  /\ processHolds' = processHolds \cup {w}
  /\ UNCHANGED <<guard, file, remaining, outcome, wrapperHolds, recordVars, workspaces>>

\* saveInFlight: no record may exist, and writeNew creates the pending file
\* exclusively before it writes and syncs its content.
CreatePending(w) ==
  /\ pc[w] = "recording"
  /\ json = None
  /\ pending = None
  /\ pending' = Torn
  /\ Goto(w, "writing")
  /\ UNCHANGED <<guard, file, remaining, outcome, lockVars, sessionVars, json, workspaces>>

WritePending(w) ==
  /\ pc[w] = "writing"
  /\ pending' = w
  /\ Goto(w, "renaming")
  /\ UNCHANGED <<guard, file, remaining, outcome, lockVars, sessionVars, json, workspaces>>

RenamePending(w) ==
  /\ pc[w] = "renaming"
  /\ json' = w
  /\ pending' = None
  /\ Goto(w, "recorded")
  /\ UNCHANGED <<guard, file, remaining, outcome, lockVars, sessionVars, workspaces>>

\* Bug: a record that cannot be saved is ignored and the gate opens anyway.
BugSaveFails(w) ==
  /\ pc[w] \in {"recording", "writing", "renaming", "recorded"}
  /\ Goto(w, "waiting")
  /\ process' = [process EXCEPT ![w] = IF @ = "gated" THEN "released" ELSE @]
  /\ UNCHANGED <<guard, file, remaining, outcome, lockVars, exit, reused, recordVars, workspaces>>

\* Any step of saveInFlight, or the write to the gate, fails: SIGKILL to the
\* session's group, then Wait.  What the record files hold by then stays.
SaveFails(w) ==
  /\ pc[w] \in {"recording", "writing", "renaming", "recorded"}
  /\ process' = [process EXCEPT ![w] = "none"]
  /\ processHolds' = processHolds \ {w}
  /\ CloseWith(w, "Unknown")
  /\ UNCHANGED <<remaining, wrapperHolds, exit, reused, recordVars, workspaces>>

\* The record is synced and "start" is in the gate's pipe.
OpenGate(w) ==
  /\ pc[w] = "recorded"
  /\ Goto(w, "waiting")
  /\ process' = [process EXCEPT ![w] = IF @ = "gated" THEN "released" ELSE @]
  /\ UNCHANGED <<guard, file, remaining, outcome, lockVars, exit, reused, recordVars, workspaces>>

\* Bug: Wait also waits for descendants (an output pipe without WaitDelay).
BugWait(w) ==
  /\ pc[w] = "waiting"
  /\ exit[w] # "none"
  /\ process[w] = "none"
  /\ Goto(w, "finishing")
  /\ UNCHANGED <<guard, file, remaining, outcome, lockVars, sessionVars, recordVars, workspaces>>

\* command.Wait returns once the leader is gone, whatever its descendants do.
Wait(w) ==
  /\ pc[w] = "waiting"
  /\ exit[w] # "none"
  /\ Goto(w, "finishing")
  /\ UNCHANGED <<guard, file, remaining, outcome, lockVars, sessionVars, recordVars, workspaces>>

\* Bug: the record is removed as soon as the leader has exited.
BugFinishInFlight(w) ==
  /\ pc[w] = "finishing"
  /\ json = w
  /\ json' = None
  /\ \/ /\ exit[w] = "zero"
        /\ Goto(w, "ready")
        /\ remaining' = [remaining EXCEPT ![w] = @ - 1]
     \/ /\ exit[w] = "nonzero"
        /\ Goto(w, "observing")
        /\ UNCHANGED remaining
  /\ UNCHANGED <<guard, file, outcome, lockVars, sessionVars, pending, workspaces>>

\* Bug: a command that failed does not end the plan.
BugGoesOnAfterFailure(w) ==
  /\ pc[w] = "finishing"
  /\ json = w
  /\ ~Active(w)
  /\ json' = None
  /\ Goto(w, "ready")
  /\ remaining' = [remaining EXCEPT ![w] = IF exit[w] = "zero" THEN @ - 1 ELSE @]
  /\ UNCHANGED <<guard, file, outcome, lockVars, sessionVars, pending, workspaces>>

\* finishInFlight: the record is still ours and the whole session is gone.  A
\* zero exit goes on with the plan; any other exit is followed by observation.
FinishInFlight(w) ==
  /\ pc[w] = "finishing"
  /\ json = w
  /\ ~Active(w)
  /\ json' = None
  /\ \/ /\ exit[w] = "zero"
        /\ Goto(w, "ready")
        /\ remaining' = [remaining EXCEPT ![w] = @ - 1]
     \/ /\ exit[w] = "nonzero"
        /\ Goto(w, "observing")
        /\ UNCHANGED remaining
  /\ UNCHANGED <<guard, file, outcome, lockVars, sessionVars, pending, workspaces>>

\* The session is active or unobservable, the record cannot be removed or its
\* removal not synced, or Wait reports an error beside a zero exit: the exit code
\* is known, the state after it is not (or not trusted).
FinishHolds(w) ==
  /\ pc[w] = "finishing"
  /\ \/ UNCHANGED json
     \/ json = w /\ ~Active(w) /\ json' = None
  /\ CloseWith(w, "Unknown")
  /\ UNCHANGED <<remaining, lockVars, sessionVars, pending, workspaces>>

\* After a failed command the installed state is compared with the state before
\* the plan; it may also be unobservable.
ObserveFailure(w) ==
  /\ pc[w] = "observing"
  /\ \E r \in {"Failed", "Partial", "Unknown"} : CloseWith(w, r)
  /\ UNCHANGED <<remaining, lockVars, sessionVars, recordVars, workspaces>>

\* verifyAfterState once no action is left.
VerifyAfterState(w) ==
  /\ pc[w] = "ready"
  /\ remaining[w] = 0
  /\ \E r \in {"Succeeded", "Unknown"} : CloseWith(w, r)
  /\ UNCHANGED <<remaining, lockVars, sessionVars, recordVars, workspaces>>

\* The end of Close: the invocation's own collection, then the lock.
RemoveOwnWorkspace(w) ==
  /\ pc[w] = "removeOwn"
  /\ LeaveGuard(w, "ended")
  /\ Unlock(w)
  /\ workspaces' = workspaces \ {w}
  /\ UNCHANGED <<remaining, outcome, processHolds, sessionVars, recordVars>>

\* removeCollection fails, after the collection is gone when only its sync fails.
RemoveOwnFails(w) ==
  /\ pc[w] = "removeOwn"
  /\ GuardHolds(w)
  /\ workspaces' \in {workspaces, workspaces \ {w}}
  /\ UNCHANGED <<remaining, processHolds, sessionVars, recordVars>>

-----------------------------------------------------------------------------
\* The operating system and the owned session

\* The wrapper is killed: its descriptors close, its session keeps running.
Crash(w) ==
  /\ pc[w] \notin {"idle", "ended", "crashed"}
  /\ LeaveGuard(w, "crashed")
  /\ Unlock(w)
  /\ UNCHANGED <<remaining, outcome, processHolds, sessionVars, recordVars, workspaces>>

\* The session's process state becomes s; an empty session holds no descriptor.
SessionBecomes(w, s) ==
  /\ process' = [process EXCEPT ![w] = s]
  /\ processHolds' = IF s = "none" THEN processHolds \ {w} ELSE processHolds

\* The child reads "start" from its gate and executes Homebrew.
Launch(w) ==
  /\ process[w] = "released"
  /\ SessionBecomes(w, "running")
  /\ UNCHANGED <<wrapperVars, wrapperHolds, exit, reused, recordVars, workspaces>>

\* The gate's write end closed unused with the wrapper: the child exits with 125.
GateClosed(w) ==
  /\ process[w] = "gated"
  /\ pc[w] = "crashed"
  /\ SessionBecomes(w, "none")
  /\ UNCHANGED <<wrapperVars, wrapperHolds, exit, reused, recordVars, workspaces>>

\* The waiting child is killed from outside before it executes Homebrew.
GatedChildKilled(w) ==
  /\ process[w] \in {"gated", "released"}
  /\ SessionBecomes(w, "none")
  /\ exit' = [exit EXCEPT ![w] = "nonzero"]
  /\ UNCHANGED <<wrapperVars, wrapperHolds, reused, recordVars, workspaces>>

\* The leader exits, is interrupted or is killed; descendants may remain.
LeaderExits(w) ==
  /\ process[w] = "running"
  /\ \E s \in {"none", "orphaned"} : SessionBecomes(w, s)
  /\ \E code \in {"zero", "nonzero"} : exit' = [exit EXCEPT ![w] = code]
  /\ UNCHANGED <<wrapperVars, wrapperHolds, reused, recordVars, workspaces>>

DescendantsStop(w) ==
  /\ process[w] = "orphaned"
  /\ SessionBecomes(w, "none")
  /\ UNCHANGED <<wrapperVars, wrapperHolds, exit, reused, recordVars, workspaces>>

\* Homebrew or its descendants close the descriptors they inherited.
DropInheritedLock(w) ==
  /\ process[w] \in {"running", "orphaned"}
  /\ w \in processHolds
  /\ processHolds' = processHolds \ {w}
  /\ UNCHANGED <<wrapperVars, wrapperHolds, sessionVars, recordVars, workspaces>>

\* The number of an ended session still on record goes to an unrelated process.
ReuseNumber(w) ==
  /\ process[w] = "none"
  /\ w \in {json, pending} \ reused
  /\ reused' = reused \cup {w}
  /\ UNCHANGED <<wrapperVars, lockVars, process, exit, recordVars, workspaces>>

ReleaseNumber(w) ==
  /\ w \in reused
  /\ reused' = reused \ {w}
  /\ UNCHANGED <<wrapperVars, lockVars, process, exit, recordVars, workspaces>>

\* Every wrapper has returned or died and nothing it started is left.
Settled ==
  /\ \A w \in Invocation : pc[w] \in {"ended", "crashed"} /\ process[w] = "none"
  /\ UNCHANGED vars

-----------------------------------------------------------------------------
\* The specification

Guarding(w) ==
  \/ InspectEmpty(w) \/ InspectStopped(w) \/ InspectHolds(w)
  \/ RemoveStaleWorkspace(w) \/ RemoveStaleRecord(w) \/ RemovalFails(w)
  \/ RemoveOwnWorkspace(w) \/ RemoveOwnFails(w)

Preparing(w) ==
  \/ BeginPreflight(w) \/ PreflightRefused(w)
  \/ Collect(w) \/ CollectionAbandoned(w)
  \/ BeginPrepare(w) \/ Plan(w) \/ PlanAbandoned(w)

Executing(w) ==
  \/ ExecuteHeld(w) \/ Execute(w) \/ RunHeld(w)
  \/ StartCommand(w) \/ CreatePending(w) \/ WritePending(w) \/ RenamePending(w)
  \/ SaveFails(w) \/ OpenGate(w) \/ Wait(w)
  \/ FinishInFlight(w) \/ FinishHolds(w) \/ ObserveFailure(w) \/ VerifyAfterState(w)

\* The code of the wrapper; everything else is done to it.
Wrapper(w) == Guarding(w) \/ Preparing(w) \/ Executing(w)

Environment(w) ==
  \/ Crash(w) \/ Launch(w) \/ GateClosed(w) \/ GatedChildKilled(w)
  \/ LeaderExits(w) \/ DescendantsStop(w) \/ DropInheritedLock(w)
  \/ ReuseNumber(w) \/ ReleaseNumber(w)

Next == (\E w \in Invocation : Wrapper(w) \/ Environment(w)) \/ Settled

Spec == Init /\ [][Next]_vars

\* A wrapper that was started keeps running; a released child executes; the leader
\* of a command exits, because the command's context times out after 15 minutes and
\* WaitDelay kills it.  Nothing is assumed of descendants, or of crashes.
Fairness ==
  \A w \in Invocation :
    /\ WF_vars(pc[w] # "idle" /\ Wrapper(w))
    /\ WF_vars(Launch(w))
    /\ WF_vars(LeaderExits(w))

FairSpec == Spec /\ Fairness

-----------------------------------------------------------------------------
\* Properties

Launched == {w \in Invocation : process[w] \in {"released", "running", "orphaned"}}

\* Labels of an invocation that has passed Prepare's guard and not begun to close.
Admitted == {"planning", "prepared", "ready", "recording", "writing", "renaming",
             "recorded", "waiting", "finishing", "observing"}

\* "Never start Homebrew without the record": as long as any process of a launched
\* session may be alive, inflight.json names that session, whoever crashed and
\* whichever guards ran meanwhile (runCommand, saveInFlight, clearStoppedInFlight).
LaunchedIsRecorded == \A w \in Launched : json = w

\* At most one owned Homebrew session can change the prefix at any time.
OneMutator == \A v, w \in Launched : v = w

\* No invocation observes installed state for its plan, or acts on it, while the
\* session of another invocation may still change the prefix.
PlansOnQuietPrefix ==
  \A v, w \in Invocation : pc[v] \in Admitted /\ w \in Launched => v = w

\* A surviving session keeps its workspace until all of it has stopped
\* (Close and clearStoppedInFlight remove collections).
WorkspaceRetained == Launched \subseteq workspaces

\* An invocation that is collecting, planning or executing never loses its
\* workspace to the cleanup of another one.
LiveWorkspaceKept ==
  \A w \in Invocation :
    pc[w] \in Admitted \cup {"collected"} \/ guard[w] = "prepare" => w \in workspaces

\* A definite outcome is only reported once the whole session is gone and off the
\* record, and a success also has removed its workspace (finishInFlight, Close).
SettledOutcome ==
  \A w \in Invocation : outcome[w] \in {"Succeeded", "Failed", "Partial"} =>
    /\ process[w] = "none"
    /\ w \notin {json, pending}
    /\ pc[w] = "ended" => w \notin workspaces

\* An invocation that starts returns (or dies) whatever its descendants and the
\* other invocations do: no guard and no lock is ever waited for.
EveryInvocationEnds ==
  \A w \in Invocation : pc[w] # "idle" ~> pc[w] \in {"ended", "crashed"}

\* What one process session promises to the rest of the machine.
Owner == INSTANCE SessionOwnership WITH
  hold <- json,
  live <- Launched,
  settled <- {w \in Invocation : outcome[w] \in {"Succeeded", "Failed", "Partial"}}

\* The wrapper implements the ownership promise of SessionOwnership.
ImplementsOwnership == Owner!Spec

\* Documented: "after parent death a new invocation removes stale state only once
\* the child stops".  An invocation that begins after another one died, with no
\* process left, has removed the dead one's workspace by the time it plans.
StaleWorkspaceRemoved ==
  \A v, w \in Invocation :
    [](pc[v] = "idle" /\ pc[w] = "crashed" /\ process[w] = "none"
         => [](pc[v] = "planning" => w \notin workspaces))

-----------------------------------------------------------------------------
\* An invocation as a sequence of commands

Phase(w) ==
  CASE pc[w] \in {"ready", "recording", "writing", "renaming", "recorded", "waiting",
                  "finishing"} -> "open"
    [] pc[w] = "observing" -> "failed"
    [] pc[w] \in {"ended", "crashed"} \/ guard[w] \in {"abandon", "close"} -> "over"
    [] OTHER -> "before"

Commands(w) == INSTANCE CommandSequence WITH
  phase <- Phase(w),
  left <- IF Phase(w) = "open" THEN remaining[w] ELSE 0,
  busy <- pc[w] \in {"waiting", "finishing"},
  live <- w \in Launched,
  outcome <- outcome[w]

\* Whatever other invocations, guards and crashes do, an invocation launches its commands
\* one at a time, the next only when the whole session of the one before is gone, and
\* none after a failed one, a crash or an outcome (runCommand, finishInFlight).
RunsCommandsInTurn ==
  /\ \A w \in Invocation : Commands(w)!Init
  /\ [][\A w \in Invocation : [Commands(w)!Next]_(Commands(w)!vars)]_vars

-----------------------------------------------------------------------------
\* A measure of an invocation, the reason why it ends

Guarded == {"inspect", "removing", "unlinking"}

\* Steps of one run of clearStoppedInFlight.
GuardLeft(w) ==
  LET next == IF file[w] = "json" THEN 3 ELSE 0 IN
  CASE pc[w] = "inspect" -> next + 3
    [] pc[w] = "removing" -> next + 2
    [] pc[w] = "unlinking" -> next + 1

\* Steps the wrapper may still take: three guards, seven steps for each command, and
\* what is before, between and after them.
StepsLeft(w) ==
  LET commands == 7 * remaining[w]
      most == 7 * MaxCommands
  IN CASE pc[w] = "idle" -> most + 26
       [] pc[w] \in Guarded ->
            GuardLeft(w) + (CASE guard[w] = "preflight" -> most + 19
                              [] guard[w] = "prepare" -> most + 11
                              [] OTHER -> 1)
       [] pc[w] = "collecting" -> most + 19  [] pc[w] = "collected" -> most + 18
       [] pc[w] = "planning" -> most + 11    [] pc[w] = "prepared" -> commands + 10
       [] pc[w] = "ready" -> commands + 9    [] pc[w] = "recording" -> commands + 8
       [] pc[w] = "writing" -> commands + 7  [] pc[w] = "renaming" -> commands + 6
       [] pc[w] = "recorded" -> commands + 5 [] pc[w] = "waiting" -> commands + 4
       [] pc[w] = "finishing" -> commands + 3
       [] pc[w] = "observing" -> 8
       [] pc[w] = "removeOwn" -> 1
       [] OTHER -> 0

WrapperOf(w) == <<pc[w], guard[w], file[w], remaining[w], outcome[w]>>

\* Every step of an invocation brings its end nearer, and no other invocation, session or
\* crash moves it away: a guard that holds is not repeated and a busy lock not waited for.
InvocationAdvances ==
  [][\A w \in Invocation :
       \/ StepsLeft(w)' \in Nat /\ StepsLeft(w)' < StepsLeft(w)
       \/ UNCHANGED WrapperOf(w)]_vars

-----------------------------------------------------------------------------
\* The inductive invariant behind the safety properties

\* Labels at which the wrapper holds the operation lock.
Locked == Admitted \cup Guarded \cup {"removeOwn"}

LockExclusive ==
  /\ \A v, w \in wrapperHolds : v = w
  /\ \A w \in Invocation : pc[w] \in Locked => w \in wrapperHolds

GuardHasCaller ==
  \A w \in Invocation :
    /\ pc[w] \in Guarded <=> guard[w] # "none" /\ pc[w] # "removeOwn"
    /\ pc[w] = "removeOwn" => guard[w] \in {"abandon", "close"}
    /\ pc[w] \notin Guarded => file[w] = "json"

\* What the lock holder knows of the two records.
RecordsKnown ==
  \A w \in Invocation :
    /\ file[w] = "pending" => json = None
    /\ guard[w] = "close" => json \in {None, w}
    /\ pc[w] \in {"planning", "prepared", "ready", "recording", "observing", "removeOwn"}
         => json = None /\ pending = None
    /\ pc[w] = "writing" => json = None
    /\ pc[w] = "renaming" => json = None /\ pending = w
    /\ pc[w] \in {"recorded", "waiting", "finishing"} => json = w /\ pending = None

\* The session whose record is being removed has stopped for good.
StoppedStaysStopped ==
  \A w \in Invocation : pc[w] \in {"removing", "unlinking"} =>
    Record(w) \in Invocation /\ process[Record(w)] = "none"

\* Labels and callers of an invocation that has not started a session yet.
NotStarted(w) ==
  \/ pc[w] \in {"idle", "collecting", "collected", "planning", "prepared"}
  \/ guard[w] \in {"preflight", "prepare", "abandon"}

SessionKnown ==
  \A w \in Invocation :
    /\ NotStarted(w) => process[w] = "none" /\ w \notin {json, pending}
    /\ pc[w] \in {"ready", "observing"} => process[w] = "none"
    /\ pc[w] \in {"recording", "writing", "renaming", "recorded"}
         => process[w] \in {"none", "gated"}

\* The command that was started is one of the remaining actions.
CommandIsPending ==
  \A w \in Invocation :
    pc[w] \in {"recording", "writing", "renaming", "recorded", "waiting", "finishing"}
      => remaining[w] > 0

OutcomeIsLast ==
  \A w \in Invocation :
    outcome[w] # "none" => guard[w] = "close" \/ pc[w] \in {"ended", "crashed"}

\* The conjunction the proofs show to be inductive.
OwnershipInvariant ==
  /\ TypeOK
  /\ LockExclusive
  /\ GuardHasCaller
  /\ RecordsKnown
  /\ StoppedStaysStopped
  /\ SessionKnown
  /\ CommandIsPending
  /\ OutcomeIsLast
  /\ LaunchedIsRecorded
  /\ LiveWorkspaceKept
  /\ WorkspaceRetained
  /\ SettledOutcome

=============================================================================
