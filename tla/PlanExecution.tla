--------------------------- MODULE PlanExecution ---------------------------
(***************************************************************************)
(* One bound plan, from the observation of installed state to the outcome   *)
(* of the attempt: Collection.Prepare and publicActions, Execute, Run,      *)
(* runPendingActions, nextReadyAction, verifyAfterState, executionOutcome.  *)
(*                                                                          *)
(* Homebrew is the environment: while its session lives it may move any     *)
(* formula below the selected one, and its exit code is not trusted.  The   *)
(* operation lock does not exclude independent Homebrew clients, and the    *)
(* clock moves freely.  How the session itself is owned is OwnedExecution.  *)
(***************************************************************************)
EXTENDS Naturals, FiniteSets

CONSTANTS
  N,           \* formulae of the plan; a number is a formula's place in name order
  MaxExternal  \* bound on the changes independent Homebrew clients make

ASSUME NIsPositive == N \in Nat \ {0}

ASSUME MaxExternalIsNat == MaxExternal \in Nat

Formula == 1..N

VARIABLES
  deps,       \* the direct runtime dependencies in the verified graph
  targets,    \* the formulae the user named
  operation,  \* what the user asked for
  keg,        \* the installed state of each formula, as a plan distinguishes it
  requested,  \* installed formulae whose receipt says installed_on_request
  permitted,  \* executionAllowed at this instant: window, evidence and age
  external,   \* changes by independent clients so far
  pc,         \* where the attempt is
  plan,       \* the planned operation of each formula
  before,     \* the saved observation the plan is bound to
  entry,      \* history: the prefix when Run began to execute
  disturbed,  \* history: an independent client changed the prefix since then
  remaining,  \* planned actions that have not finished
  selected,   \* the action whose command runs, or ran last
  alive,      \* some process of its session is alive
  exit,       \* exit state of its leader
  outcome,    \* domain.AttemptOutcome, or "none"
  status      \* exit status of the wrapper: zero, Homebrew's own, or one

collection == <<deps, targets, operation>>
prefix == <<keg, requested>>
bound == <<plan, before>>
history == <<entry, disturbed>>
session == <<selected, alive, exit>>
result == <<outcome, status>>
vars == <<collection, prefix, permitted, external, pc, bound, history, remaining,
          session, result>>

-----------------------------------------------------------------------------
\* Types

\* "unusable" stands for every state publicActions refuses: pinned, an incomplete
\* or missing link, a source build or custom options, a version that is not older.
Kegs == {"absent", "outdated", "candidate", "unusable"}
Operations == {"install", "upgrade", "keep"}
Labels == {"planning", "prepared", "assessing", "entering", "admitting", "selecting",
           "launching", "running", "finishing", "observing", "closing", "closed"}
Observation == [keg : [Formula -> Kegs], requested : SUBSET Formula]

\* Every variable keeps its type.
TypeOK ==
  /\ deps \in [Formula -> SUBSET Formula]
  /\ targets \subseteq Formula
  /\ operation \in {"install", "upgrade"}
  /\ keg \in [Formula -> Kegs]
  /\ requested \subseteq Formula
  /\ permitted \in BOOLEAN
  /\ external \in 0..MaxExternal
  /\ pc \in Labels
  /\ plan \in [Formula -> Operations]
  /\ before \in Observation
  /\ entry \in Observation
  /\ disturbed \in BOOLEAN
  /\ remaining \subseteq Formula
  /\ selected \in Formula
  /\ alive \in BOOLEAN
  /\ exit \in {"none", "zero", "nonzero"}
  /\ outcome \in {"none", "Succeeded", "Failed", "Partial", "Unknown"}
  /\ status \in {"none", "zero", "homebrew", "one"}

-----------------------------------------------------------------------------
\* The dependency graph

\* A set of formulae that contains what its elements depend on.
Closed(S) == \A f \in S : deps[f] \subseteq S

\* The formulae the set S leads to, S included: the smallest closed set around it.
Below(S) == {f \in Formula : \A T \in SUBSET Formula : S \subseteq T /\ Closed(T) => f \in T}

\* parseMetadata and validGraph accept only an acyclic closure of the targets.
ValidGraph ==
  /\ \A f \in Formula : f \notin Below(deps[f])
  /\ targets # {}
  /\ Below(targets) = Formula

-----------------------------------------------------------------------------
\* publicState and publicActions

\* What publicState saves; equal values stand for equal digests.
Observed == [keg |-> keg, requested |-> requested]

\* publicActions succeeds on observation o for a request.
Plannable(o, op, wanted) ==
  \A f \in Formula :
    /\ o.keg[f] # "unusable"
    /\ ~(o.keg[f] = "absent" /\ op = "upgrade" /\ f \in wanted)

\* installedAction
Action(o, op, wanted, f) ==
  CASE o.keg[f] = "absent" -> "install"
    [] o.keg[f] = "outdated" -> "upgrade"
    [] OTHER -> IF op = "install" /\ f \in wanted \ o.requested THEN "install" ELSE "keep"

\* pendingActions: the actions to run, and the installs to confirm afterwards.
Planned(p) == {f \in Formula : p[f] # "keep"}
RequestedInstalls == {f \in targets : plan[f] = "install"}

\* Bug: the after-state is only checked for candidate versions.
BugMatchesPlan(o) == \A f \in Formula : Action(o, "upgrade", {}, f) = "keep"

\* verifyAfterState: seen as a request for those installs, nothing is left to do.
MatchesPlan(o) ==
  /\ Plannable(o, "install", RequestedInstalls)
  /\ \A f \in Formula : Action(o, "install", RequestedInstalls, f) = "keep"

-----------------------------------------------------------------------------
\* nextReadyAction

\* Bug: blocked by every dependency that has an action, finished or not.
BugReady == {f \in remaining : deps[f] \cap Planned(plan) = {}}

\* The pending actions none of whose direct dependencies is pending.
Ready == {f \in remaining : deps[f] \cap remaining = {}}

\* Bug: the first pending action in node order.
BugNextReadyAction == CHOOSE f \in remaining : \A g \in remaining : f <= g

\* The first of them in node order, which is name order.
NextReadyAction == CHOOSE f \in Ready : \A g \in Ready : f <= g

-----------------------------------------------------------------------------
Init ==
  /\ deps \in [Formula -> SUBSET Formula]
  /\ targets \in SUBSET Formula
  /\ ValidGraph
  /\ operation \in {"install", "upgrade"}
  /\ keg \in [Formula -> Kegs]
  /\ requested \in SUBSET {f \in Formula : keg[f] # "absent"}
  /\ permitted \in BOOLEAN
  /\ external = 0
  /\ pc = "planning"
  /\ plan = [f \in Formula |-> "keep"]
  /\ before = Observed
  /\ entry = Observed
  /\ disturbed = FALSE
  /\ remaining = {}
  /\ selected = 1
  /\ alive = FALSE
  /\ exit = "none"
  /\ outcome = "none"
  /\ status = "none"

\* The attempt has result r and the deferred Close follows.
Conclude(r) ==
  /\ pc' = "closing"
  /\ outcome' = r
  /\ UNCHANGED status

-----------------------------------------------------------------------------
\* Collection.Prepare

Prepare ==
  /\ pc = "planning"
  /\ Plannable(Observed, operation, targets)
  /\ pc' = "prepared"
  /\ plan' = [f \in Formula |-> Action(Observed, operation, targets, f)]
  /\ before' = Observed
  /\ UNCHANGED <<collection, prefix, permitted, external, history, remaining, session,
                 result>>

\* An unsupported state, or any other step of Prepare fails: no attempt is made.
PrepareFails ==
  /\ pc = "planning"
  /\ pc' = "closed"
  /\ status' = "one"
  /\ UNCHANGED <<collection, prefix, permitted, external, bound, history, remaining,
                 session, outcome>>

-----------------------------------------------------------------------------
\* Execute

Revalidate ==
  /\ pc = "prepared"
  /\ Observed = before
  /\ pc' = "assessing"
  /\ UNCHANGED <<collection, prefix, permitted, external, bound, history, remaining,
                 session, result>>

\* The explicit clock reading is inside the window and Evaluate allows.
Assess ==
  /\ pc = "assessing"
  /\ permitted
  /\ pc' = "entering"
  /\ UNCHANGED <<collection, prefix, permitted, external, bound, history, remaining,
                 session, result>>

\* The state changed or is unobservable, the window or the policy refuses, or the
\* context is cancelled: no outcome is recorded.
ExecuteHeld ==
  /\ pc \in {"prepared", "assessing"}
  /\ Conclude("none")
  /\ UNCHANGED <<collection, prefix, permitted, external, bound, history, remaining,
                 session>>

-----------------------------------------------------------------------------
\* publicSession.Run

\* Bug: Run relies on the revalidation Execute has already done.
BugRunRevalidate ==
  /\ pc = "entering"
  /\ pc' = "admitting"
  /\ entry' = Observed
  /\ disturbed' = FALSE
  /\ UNCHANGED <<collection, prefix, permitted, external, bound, remaining, session,
                 result>>

\* The second revalidation, immediately before execution.
RunRevalidate ==
  /\ pc = "entering"
  /\ Observed = before
  /\ pc' = "admitting"
  /\ entry' = Observed
  /\ disturbed' = FALSE
  /\ UNCHANGED <<collection, prefix, permitted, external, bound, remaining, session,
                 result>>

RunAdmitted ==
  /\ pc = "admitting"
  /\ permitted
  /\ pc' = "selecting"
  /\ remaining' = Planned(plan)
  /\ UNCHANGED <<collection, prefix, permitted, external, bound, history, session,
                 result>>

\* Revalidation, the window, a cyclic plan, the runtime check, Start, the record or
\* the gate fails: the result has no exit state.
RunHeld ==
  /\ \/ pc \in {"entering", "admitting", "launching"}
     \/ pc = "selecting" /\ remaining # {}
  /\ Conclude("Unknown")
  /\ UNCHANGED <<collection, prefix, permitted, external, bound, history, remaining,
                 session>>

SelectAction ==
  /\ pc = "selecting"
  /\ remaining # {}
  /\ Ready # {}
  /\ permitted
  /\ pc' = "launching"
  /\ selected' = NextReadyAction
  /\ UNCHANGED <<collection, prefix, permitted, external, bound, history, remaining,
                 alive, exit, result>>

\* checkPublicRuntime passes and runCommand opens the gate of a recorded session.
RunCommand ==
  /\ pc = "launching"
  /\ pc' = "running"
  /\ alive' = TRUE
  /\ exit' = "none"
  /\ UNCHANGED <<collection, prefix, permitted, external, bound, history, remaining,
                 selected, result>>

Wait ==
  /\ pc = "running"
  /\ exit # "none"
  /\ pc' = "finishing"
  /\ UNCHANGED <<collection, prefix, permitted, external, bound, history, remaining,
                 session, result>>

\* Bug: the exit state of the leader is taken for the end of the session.
BugFinishInFlight ==
  /\ pc = "finishing"
  /\ IF exit = "zero"
       THEN pc' = "selecting" /\ remaining' = remaining \ {selected}
       ELSE pc' = "observing" /\ UNCHANGED remaining
  /\ UNCHANGED <<collection, prefix, permitted, external, bound, history, session,
                 result>>

\* Bug: the finished action is not deleted from the pending ones.
BugKeepsAction ==
  /\ pc = "finishing"
  /\ ~alive
  /\ pc' = IF exit = "zero" THEN "selecting" ELSE "observing"
  /\ UNCHANGED <<collection, prefix, permitted, external, bound, history, remaining,
                 session, result>>

\* finishInFlight finds the session stopped; only a zero exit completes the action.
FinishInFlight ==
  /\ pc = "finishing"
  /\ ~alive
  /\ IF exit = "zero"
       THEN pc' = "selecting" /\ remaining' = remaining \ {selected}
       ELSE pc' = "observing" /\ UNCHANGED remaining
  /\ UNCHANGED <<collection, prefix, permitted, external, bound, history, session,
                 result>>

\* The session is active or unobservable, the record cannot be cleared, or Wait
\* reports an error beside a zero exit.
FinishHolds ==
  /\ pc = "finishing"
  /\ Conclude("Unknown")
  /\ UNCHANGED <<collection, prefix, permitted, external, bound, history, remaining,
                 session>>

\* executionOutcome of a nonzero exit: the digest of the state tells the two apart.
ObserveFailure ==
  /\ pc = "observing"
  /\ Conclude(IF Observed = before THEN "Failed" ELSE "Partial")
  /\ UNCHANGED <<collection, prefix, permitted, external, bound, history, remaining,
                 session>>

\* executionOutcome of a zero exit.
VerifyAfterState ==
  /\ pc = "selecting"
  /\ remaining = {}
  /\ Conclude(IF MatchesPlan(Observed) THEN "Succeeded" ELSE "Unknown")
  /\ UNCHANGED <<collection, prefix, permitted, external, bound, history, remaining,
                 session>>

\* publicState fails after the commands: AfterState is not a valid digest.
AfterStateUnavailable ==
  /\ \/ pc = "observing"
     \/ pc = "selecting" /\ remaining = {}
  /\ Conclude("Unknown")
  /\ UNCHANGED <<collection, prefix, permitted, external, bound, history, remaining,
                 session>>

\* Bug: the exit code of Homebrew is returned whenever it is known.
BugExitStatus(r) ==
  CASE r = "Succeeded" -> {"zero", "one"}
    [] r # "Succeeded" /\ exit = "nonzero" -> {"homebrew"}
    [] OTHER -> {IF exit = "zero" THEN "zero" ELSE "one"}

\* runBrew: a verified success (which may fail to be printed), Homebrew's own status
\* after a failed command, or the wrapper's.  A result that is not known to carry an
\* exit code follows no failed command.
ExitStatus(r) ==
  CASE r = "Succeeded" -> {"zero", "one"}
    [] r # "Succeeded" /\ exit = "nonzero" -> {"homebrew"}
    [] OTHER -> {"one"}

\* The deferred Close, whose failure makes any outcome unknown, and the return to
\* the command line.
Close ==
  /\ pc = "closing"
  /\ pc' = "closed"
  /\ outcome' \in {outcome, "Unknown"}
  /\ status' \in ExitStatus(outcome')
  /\ UNCHANGED <<collection, prefix, permitted, external, bound, history, remaining,
                 session>>

-----------------------------------------------------------------------------
\* The environment

\* Homebrew moves a formula at or below the selected one: it completes it, or has
\* unlinked or half poured it.
Pour(f) ==
  /\ alive
  /\ f \in Below({selected})
  /\ \E k \in {"candidate", "unusable"} : keg' = [keg EXCEPT ![f] = k]
  /\ UNCHANGED <<collection, requested, permitted, external, pc, bound, history,
                 remaining, session, result>>

\* A public install without --as-dependency marks the receipt.
Promote ==
  /\ alive
  /\ selected \in RequestedInstalls
  /\ keg[selected] = "candidate"
  /\ requested' = requested \cup {selected}
  /\ UNCHANGED <<collection, keg, permitted, external, pc, bound, history, remaining,
                 session, result>>

\* The leader exits, is interrupted or times out; descendants may go on.
LeaderExits ==
  /\ alive
  /\ exit = "none"
  /\ exit' \in {"zero", "nonzero"}
  /\ alive' \in BOOLEAN
  /\ UNCHANGED <<collection, prefix, permitted, external, pc, bound, history, remaining,
                 selected, result>>

DescendantsStop ==
  /\ alive
  /\ exit # "none"
  /\ alive' = FALSE
  /\ UNCHANGED <<collection, prefix, permitted, external, pc, bound, history, remaining,
                 selected, exit, result>>

\* An independent Homebrew client changes one formula of the plan.
ExternalChange(f) ==
  /\ external < MaxExternal
  /\ pc # "closed"
  /\ external' = external + 1
  /\ \E k \in Kegs : keg' = [keg EXCEPT ![f] = k]
  /\ \/ requested' = requested \ {f}
     \/ keg'[f] # "absent" /\ requested' = requested \cup {f}
  /\ disturbed' = TRUE
  /\ UNCHANGED <<collection, permitted, pc, bound, entry, remaining, session, result>>

\* Time passes or is set back: the window opens or closes, the age is reached or not.
ClockMoves ==
  /\ permitted' = ~permitted
  /\ UNCHANGED <<collection, prefix, external, pc, bound, history, remaining, session,
                 result>>

Settled ==
  /\ pc = "closed"
  /\ ~alive
  /\ UNCHANGED vars

-----------------------------------------------------------------------------
\* The specification

Wrapper ==
  \/ Prepare \/ PrepareFails
  \/ Revalidate \/ Assess \/ ExecuteHeld
  \/ RunRevalidate \/ RunAdmitted \/ RunHeld
  \/ SelectAction \/ RunCommand \/ Wait
  \/ FinishInFlight \/ FinishHolds \/ ObserveFailure
  \/ VerifyAfterState \/ AfterStateUnavailable \/ Close

Homebrew ==
  \/ \E f \in Formula : Pour(f)
  \/ Promote \/ LeaderExits \/ DescendantsStop

Next ==
  \/ Wrapper
  \/ Homebrew
  \/ \E f \in Formula : ExternalChange(f)
  \/ ClockMoves
  \/ Settled

Spec == Init /\ [][Next]_vars

\* The wrapper runs, and the context of a command ends its leader after 15 minutes.
\* Nothing is assumed of descendants, clocks or other clients.
FairSpec == Spec /\ WF_vars(Wrapper) /\ WF_vars(LeaderExits)

-----------------------------------------------------------------------------
\* Properties

\* Labels at which Run executes the plan.
Executing == {"selecting", "launching", "running", "finishing", "observing"}

\* A plan is only executed from a prefix it fits, whatever other clients did between
\* planning and execution: nothing kept was missing, nothing upgraded was current, no
\* formula is refused by publicActions (Revalidate in Execute and again in Run).
PlanFitsEntry ==
  pc \in Executing => \A f \in Formula :
    /\ entry.keg[f] # "unusable"
    /\ plan[f] = "keep" <=> /\ entry.keg[f] = "candidate"
                            /\ operation = "install" /\ f \in targets => f \in entry.requested
    /\ plan[f] = "upgrade" <=> entry.keg[f] = "outdated"

\* Every command follows the commands of its direct dependencies, each of which
\* exited with zero: no formula is ahead of a dependency the plan changes
\* (nextReadyAction over any validated graph).
DependenciesFirst ==
  LET finished == Planned(plan) \ remaining
      started == IF pc \in {"launching", "running", "finishing", "observing"}
                   THEN finished \cup {selected} ELSE finished
  IN pc \in Executing =>
       \A f \in started : deps[f] \cap Planned(plan) \subseteq finished \ {f}

\* The error "cyclic execution plan" is unreachable for a validated graph: a pending
\* action can always be selected.
NeverStuck == remaining # {} => Ready # {}

\* As long as only Homebrew sessions of the plan touch the prefix, a definite outcome
\* is the truth about it at any later time: Failed means the prefix is as Run found
\* it, Partial means it is not (executionOutcome, finishInFlight).
FailureIsTrue ==
  ~disturbed =>
    /\ outcome = "Failed" => Observed = entry
    /\ outcome = "Partial" => Observed # entry

\* Likewise Succeeded means that every formula is at its candidate, usable, and that
\* every named formula the install found absent, or current but unrequested, is now
\* marked as requested (verifyAfterState); so does an exit status of zero (runBrew).
SuccessIsWhole ==
  ~disturbed /\ (outcome = "Succeeded" \/ status = "zero") =>
    /\ \A f \in Formula : keg[f] = "candidate"
    /\ operation = "install" =>
         \A f \in targets : entry.keg[f] # "outdated" => f \in requested

\* Every attempt is closed: no state of the prefix, the clock or a session that
\* outlives its leader keeps the wrapper waiting or looping over the plan.
AttemptEnds == <>(pc = "closed")

\* Documented: "Commands run in dependency order".  No command starts while an action
\* below it in the dependency graph is pending.
WholeClosureFirst ==
  pc = "running" => (Below({selected}) \ {selected}) \cap remaining = {}

-----------------------------------------------------------------------------
\* A measure of the attempt, the reason why it ends

\* Steps the wrapper may still take: four for each pending action, those before the
\* first one, and an observation and Close after the last.
StepsLeft ==
  LET pending == 4 * Cardinality(remaining) IN
  CASE pc = "planning" -> 4 * N + 8   [] pc = "prepared" -> 4 * N + 7
    [] pc = "assessing" -> 4 * N + 6  [] pc = "entering" -> 4 * N + 5
    [] pc = "admitting" -> 4 * N + 4
    [] pc = "selecting" -> pending + 3  [] pc = "launching" -> pending + 2
    [] pc = "running" -> pending + 1    [] pc = "finishing" -> pending
    [] pc = "observing" -> 2  [] pc = "closing" -> 1  [] pc = "closed" -> 0

\* Every step of the wrapper brings its return nearer, and nobody else moves it away: no
\* action is run twice and no check is repeated until it passes (Execute,
\* runPendingActions).
AttemptAdvances ==
  [][\/ StepsLeft' \in Nat /\ StepsLeft' < StepsLeft
     \/ UNCHANGED <<pc, remaining, result>>]_vars

-----------------------------------------------------------------------------
\* The attempt as a sequence of commands

Phase ==
  CASE pc \in Executing \ {"observing"} -> "open"  [] pc = "observing" -> "failed"
    [] pc \in {"closing", "closed"} -> "over"      [] OTHER -> "before"

Commands == INSTANCE CommandSequence WITH
  phase <- Phase,
  left <- IF Phase = "open" THEN Cardinality(remaining) ELSE 0,
  busy <- pc \in {"running", "finishing"},
  live <- alive

\* Commands run one at a time, each action's once, none beside the session of another or
\* after a failed one, and a definite outcome follows the last (runPendingActions).
RunsCommandsInTurn == Commands!Spec

-----------------------------------------------------------------------------
\* The inductive invariant behind the safety properties

\* From the plan to the end of execution: the plan is that of the saved observation.
PlanIsBound ==
  pc \notin {"planning", "closing", "closed"} =>
    /\ Plannable(before, operation, targets)
    /\ plan = [f \in Formula |-> Action(before, operation, targets, f)]

\* Run starts from the saved observation, and no command takes a mark away.
EntryIsBefore ==
  pc \in Executing \cup {"admitting"} =>
    /\ entry = before
    /\ ~disturbed => entry.requested \subseteq requested

\* An outcome comes last, only an unknown one leaves processes behind, an attempt that
\* ran a command has one, and only a success gives the status zero.
OutcomeIsLast ==
  /\ outcome # "none" => pc \in {"closing", "closed"}
  /\ status # "none" => pc = "closed"
  /\ status = "zero" => outcome = "Succeeded"
  /\ exit # "none" => pc \in Executing \/ outcome # "none"
  /\ alive => pc \in {"running", "finishing"} \/ outcome = "Unknown"

\* The selected action is pending, and nothing it directly depends on is.
SelectedIsReady ==
  /\ pc \in Executing => remaining \subseteq Planned(plan)
  /\ pc \in {"launching", "running", "finishing", "observing"} => selected \in Ready

\* The conjunction the proofs show to be inductive.
PlanInvariant ==
  /\ TypeOK
  /\ PlanIsBound
  /\ EntryIsBefore
  /\ OutcomeIsLast
  /\ SelectedIsReady
  /\ DependenciesFirst
  /\ FailureIsTrue
  /\ SuccessIsWhole

=============================================================================
