# Verification of BrewWarden

BrewWarden (`bwd`) stands between a user and Homebrew: it collects evidence about
the bottles a request would install, decides whether the policy allows them, binds
the decision to one plan, and then runs public Homebrew commands under a lock, in
process sessions it keeps on record. This directory holds TLA+ models of the parts
of that program that are hard to test, the TLC configurations that check them on
small instances, and TLAPS proofs of the main properties for every instance.

Paths below are relative to `src/internal/` unless they say otherwise; `homebrew/`
is `adapters/homebrew/`.

## 1. The system

| Component | State it keeps | Operations | Modelled in |
|---|---|---|---|
| Owned process session (`homebrew/inflight.go`, `public_session.go`, `engine.go`) | `execution.lock`, `inflight.json`, `inflight.pending`, one `collection-*` directory per invocation, the session's processes | lock, guard (`clearStoppedInFlight`), record (`saveInFlight`), gate, wait, `finishInFlight`, `Close` | `OwnedExecution`, `SessionOwnership`, `CommandSequence`, `DurableRecord` |
| Bound plan (`homebrew/session.go`, `public_session.go`, `application/execute.go`) | saved plan and before-state, pending actions | `Prepare`, `Revalidate`, `Execute`, `Run`, `nextReadyAction`, `verifyAfterState`, `executionOutcome` | `PlanExecution`, `CommandSequence` |
| Process inventory (`homebrew/process_liveness.go`) | none between calls | `processSessionActive`, `sessionInProcesses` | `ProcessInventory` |
| Eligibility (`domain/decision.go`, `evidence.go`, `policy.go`) | none; an assessment is a value | `Evaluate`, `requiredEvidenceReason` | `Eligibility` |
| Dependency graph (`domain/decision.go`, `homebrew/metadata.go`) | `visitState` during one search | `validGraph`, `parseMetadata` | `DependencyGraph` |
| Application service (`application/`) | none | `Service.Run`, `Execute` | partly, in the two execution modules |
| Candidate collection (`homebrew/collect.go`, `fetch.go`, `archive.go`, `bottle_metadata.go`, `info.go`, `inputs.go`, `json.go`) | the files of one collection directory | `Collect`, `freezeInputs`, `readPrepared` | partly: `CandidateBinding` |
| Homebrew runtime (`homebrew/runtime.go`, `process.go`) | a private copy of the reviewed runtime | `materialize`, `checkPublicRuntime`, `writeNew` | partly: `InstalledSource`, `CandidateBinding`, `DurableRecord` |
| Attestation (`adapters/attestation/`) | none | `VerifyEvidence` | `BottleAttestation` |
| Advisories (`homebrew/advisories.go`, `vulns.go`, `http.go`) | none | `collectPublicAdvisories` | `AdvisoryScan` |
| Command line (`cli/`) | none | parsing, prompts, rendering, the exit status | partly: the exit status, in `PlanExecution` |
| Configuration, composition (`adapters/localstate/`, `composition/`) | one configuration file, read only | decoding, wiring | no |
| Repository and release tools (`src/tools/`, `src/scripts/`) | - | - | no |

How they interact: the command line calls `Service.Run`, which asks the engine for a
plan (`Engine.Prepare`: preflight guard, collection, waivers, `Collection.Prepare`)
and passes it to `Execute`. `Execute` revalidates, evaluates the policy and calls
`publicSession.Run`, which revalidates again and runs one Homebrew command after the
other; its deferred `Close` releases what is left. Invocations of the program share
nothing but the state directory; a Homebrew session inherits the locked descriptor
and can outlive the wrapper that started it.

What is hard:

- *Interleaving.* Invocations run concurrently. The lock is taken twice, with a
  collection of up to ten minutes in between, and without it while collecting.
- *Crashes.* The wrapper may be killed between any two steps; its child survives. Power
  may be lost between any two, and with it what was not synchronized.
- *Descendants.* `Wait` returns with the leader, the session may go on.
- *Observation.* "The session has stopped" is concluded from a scan that takes time.
- *Independent clients and clocks.* Neither the prefix nor the time is under the lock.
- *Partial failure.* One of several commands, a record, a cleanup may fail.
- *Sources that move.* Files, attestations, advisories and Homebrew itself (`brew
  update`) change while they are read one after the other.
- *Boundaries.* Duplicate evidence, expiry at the very second, cyclic documents.

`PROJECT.json` lists each hazard at its line with the properties aimed at it. What
makes the components correct, in a sentence each: a Homebrew session that may be
alive is on record and alone; a plan runs only from the state it was made for, in
dependency order, and its outcome is the truth about the prefix; "inactive" means
stopped; "allow" is earned by every artifact and claim; an accepted graph is exactly a
closed acyclic one; a bottle is as old as its first attestation; an advisory that
stands is not lost between three sources; what is executed is what was inspected; the
record of a launched command outlives the machine's power.

## 2. The modules

`X.tla` models a component, `MCX.tla` instantiates it for TLC, `XProofs.tla` holds its
theorems. Operators named `Bug...` are plausible mistakes in the code, each defined
before the operator it could stand for; a property is only kept if one of them breaks
it.

### OwnedExecution, SessionOwnership and CommandSequence

One wrapper per element of `Invocation`. `pc` is where it is, `guard` and `file` are
the caller and the loop of `clearStoppedInFlight`, `wrapperHolds` and `processHolds`
the open descriptions of the lock, `process`/`exit` the session it started last,
`json` and `pending` the content of the two records, `workspaces` the collection
directories. A wrapper runs once, so its identity also names its workspace and its
current session. Actions follow the code's calls: `BeginPreflight`, `Collect`,
`BeginPrepare`, `Plan`, `StartCommand`, `CreatePending` / `WritePending` /
`RenamePending` (the steps of `saveInFlight`), `OpenGate`, `Wait`, `FinishInFlight`,
`Inspect...` / `Remove...` (the guard), and the error path of each. The environment
may crash a wrapper at any label, close the gate of a dead one, let leaders exit with
or without descendants, let descendants close the inherited descriptor, and reuse the
number of a stopped session that is still on record. The guard's question "is any
process of that session alive" is one step here, with a true answer; `ProcessInventory`
is that step, and says when its answer can be wrong.

`SessionOwnership` is the promise: a session is launched only while it holds the
single reservation, the reservation is given up only when nothing of the session
runs, and a definite outcome is only reported after that. `OwnedExecution` implements
it with `inflight.json` as the reservation (`ImplementsOwnership`).

`CommandSequence` is the promise about the commands of one plan: they are launched one
at a time, the next only when the one before has finished and nothing of its session is
left; after a failed command, a crash or an outcome none follows; a success leaves none
to run, and Failed or Partial follow a failed one. Each invocation of `OwnedExecution`
implements it beside all the others (`RunsCommandsInTurn`), with the label of the wrapper
as the phase, `remaining` as what is left and the launched session as what is live. The
abstract launch is the opening of the gate: a child that waits at it is not a command yet.

### PlanExecution

One plan over the formulae `1..N` (numbers are name order, as nodes are sorted). A
keg is absent, outdated, at its candidate, or in one of the states `publicActions`
refuses; `requested` are the receipts marked `installed_on_request`. `plan`, `before`
and `remaining` are the code's plan, before-state digest and map of pending actions;
`entry` and `disturbed` are history: the prefix when `Run` was admitted, and whether
another client has changed it since. `permitted` is `executionAllowed` at this
instant and moves freely, which covers the closing of the window, a clock set back,
and an assessment that is allowed later. Homebrew may move every formula at or below
the selected one to a complete or a broken state, promote a requested install, exit
with any code and leave descendants; nothing is assumed of its exit code.

`RunsCommandsInTurn` maps the module to `CommandSequence` too: what is left is the number
of pending actions, and what is live the session of the selected one.

`status` is the exit status the command line derives when `Execute` has returned:
zero only for a verified success, Homebrew's own only if it is not zero, otherwise one.

### ProcessInventory

`table` is what each process number names: nothing, a process of the session, another
one, or a zombie of either. `List` starts `ps`, which is no snapshot: `ReadProcess` is
its reading of one number, in any order, and `EndList` its end. `FindMember` /
`PassOther` / `MissProcess` are one `getsid` each. Processes fork (under any free number),
exit, are reaped and leave the session between any two of these steps. A zombie answers
`ESRCH` when it is missed and its session when it is passed or found, so both platforms'
behaviours are included. The process of `ps` itself needs a free number and is otherwise
left out of the table, so others may take that number too.

`blind` is history: the session was lost from view. A member is `Hidden` when `ps` has
passed its number and it was not listed there, or has been asked for; a number ahead
of the scan `Tells` that the session lives by naming a member or, once listed, by naming
nothing. `blind` is set when, while a member is hidden, a number stops telling. That
happens in the four ways section 3 lists, and the code sees none of them.

### Eligibility

`Evaluate` as an operator of an exception and a time, over an assessment that grows:
items are added, an exception is requested, time passes. An item's place tells equal
items of a list apart. The reason codes nothing distinguishes are one code.

### DependencyGraph

The search of `validGraph` and `parseMetadata`, one call of `visit` per step on an
explicit stack; the list of targets is the dependency list of a `Root` that is no
artifact. `rank` is history: the order in which nodes were marked visited.

### BottleAttestation

`verifyBottle` for one bottle, one step per access to a file: `HashVerifier`,
`HashBottle`, `CheckedVersion` (which executes `gh`), `RunGH` (which executes it again
and lets it read the bottle), `RehashVerifier`, `RehashBottle`, `VerifyEvidence`. A
file is its content and a digest is that content; another process may rewrite either
file between any two steps. `ran` and `read` are history: what was executed and read,
which the code cannot see. `earlier` and `restored` are history too: equal digests
before and after do not show what was there in between, so both properties except a
file that was replaced and put back, and only that. An attestation is its signer,
subjects and verified timestamps. Assumed of `gh`, which is external: it returns
verified attestations of the bytes it reads, and every one the code would trust unless
it returns as many as its limit; of the service: what is published later is not older.

### AdvisoryScan

`collectPublicAdvisories`: the scan (`found`, the upstream database), the feed, then
the formula pages one by one, each read at its own moment while all three change.
Pages are read in any order, of which the code's is one. `report` and `index` are the
answers that were kept, `assessed` the applicability that becomes evidence. Assumed of
the scanner: its output has every open finding or none at all, and its exit code tells
which. An output that has lost some of several open findings would pass, for
`vulns.go:94` compares the exit code only with whether any finding is open; that the
scanner prints no such output is assumed. A page may be served without its advisory
status. `unanswered` and `standing`
are history: what has been true of the sources at every moment since the collection
began. Only of such advisories can a collection that takes time promise anything. The
HTTP `Age` of a response, by which up to a day's delay is accepted, is not modelled:
an answer here is at most as old as the collection.

### CandidateBinding and InstalledSource

`InstalledSource` is the standard prefix's Homebrew: `head` of its checkout and the
content of each `source` file, which brew update, git or the user change one by one, in
any order and to any content. `past`, `pastHead`, `restored` (something went back to
what it was before) and `moved` (something changed since a command was selected) are
history. `CandidateBinding` is one invocation beside it: `materialize` asks git
(`ReadHead`, `ReadStatus`: two commands, at two moments), copies file by file
(`CopyFile`), asks again (`Confirm`) and a third time for the record (`Identify`);
`Collect` acquires a snapshot, lists candidates, fetches, copies downloads, assesses and
freezes (`AcquireMetadata` to `FreezeInput`); `round` counts the readings of the frozen
inputs by `Prepare`, `Execute` and `Run`; before each command the release and every
copied file are compared again (`CheckRelease`, `CompareFile`). Homebrew reads a
snapshot and a download cache of its own, which is why the assessed bottle, the cached
one and the one the snapshot names are three things. `rewritten` is history: the inputs
another process wrote since they were last read.

What the properties except is what the code cannot see: a file or HEAD that went away
and came back between two looks (`restored`); a change after the last look before a
command (`moved`, `rewritten`). `CopyIsOfRelease` excepts the legacy release, which
`checkPublicRuntime` also accepts when git does not answer at all, and speaks of the
files the copy has: that none is missing is not promised, for a file created after its
directory was walked is in neither look. Assumed: a snapshot is signed, so only
an authentic one replaces another; Homebrew pours only what its snapshot's checksum
names; the sandbox keeps Homebrew's own processes from writing the inputs; nobody
writes the wrapper's private copy of the runtime. Every formula of the closure gets a
command here (a kept one has none in the code), and the comparison of the installed
state is left to `PlanExecution`.

### DurableRecord

The records and collections of `OwnedExecution`, with what a power loss leaves of them.
`dir` is the directory programs see, `disk` the set of directories that may be found
after a power loss: a change adds one, `syncParent` leaves only the current one. A
record's content is empty, written, synchronized or torn. `ordered` is chosen at the
start: a file system either keeps the order of directory changes, or a power loss mixes
names from any of the possible directories. The operation lock lets one wrapper at a
time touch the records, so invocations run one after the other here; whether a
recorded session is active is `OwnedExecution`'s question and either answer is taken
(after a power loss no process is left, but numbers are reused).

`CleanupIsNotForgotten` is promised on an ordered file system only. On another one a
guard may remove a collection and die, or fail, before it synchronizes the directory;
the next guard finds the collection gone and does not synchronize again
(`inflight.go:111`), removes the record and synchronizes the name of the record. If
power is lost in between, the directory may come back without its record. A torn
`inflight.pending` holds every later invocation by design: it may be of a command that
was about to start. `FinalNameIsWhole` says that only that name can be torn.

`RecordIsReservation` maps the module to `SessionOwnership` too: the reservation is the
directory's `inflight.json`, and a finished record counts as held until its removal is
synchronized, for a power loss may bring it back. A power loss is then a `Reserve` (a
rename that was not synchronized comes back), a `Free` or no step at all, and never
replaces one invocation's record by another's.

### How the modules fit together

`ProcessInventory` justifies the guard's atomic question in `OwnedExecution`, but for
its named exception.
`OwnedExecution` justifies that in `PlanExecution` only one session touches the
prefix and that `FinishInFlight` sees it stopped: both are proved to implement
`CommandSequence`, one with records, guards, gates and other invocations, the other with
the prefix, the graph and the clock. `ValidIsClosedAndAcyclic` proves that
the graphs `PlanExecution` starts from are exactly those `DependencyGraph` is proved to
accept (`VerdictAlways`), and `NeverStuckAlways` that "cyclic execution plan" is
unreachable for them. `Eligibility!AllowedWithoutGap` says
when `permitted` can come back. `BottleAttestation` and `AdvisoryScan` produce three of
the items `Eligibility` takes as they come: its publication time is the one of
`AgeIsFirstPublication`, its applicability that of `StandingFindingDenies` and
`StandingRecordDenies`. `CandidateBinding` justifies that the
candidate `BottleAttestation` and `AdvisoryScan` speak about is the one a command of
`PlanExecution` pours, and `InstalledSource` is composed into it. `DurableRecord`
justifies that `OwnedExecution` may take the effect of a file operation as lasting: both
are proved to implement `SessionOwnership`, one beside concurrent invocations and the
processes they leave, the other through power losses. The other links, the composition
with `InstalledSource` apart, are arguments between modules.

## 3. The runs

| Run | Instance | Checks |
|---|---|---|
| `ownership_three` | 3 invocations (symmetric), 1 command each | the ownership safety properties and the inductive invariant |
| `ownership_promise` | 2 invocations, up to 2 commands each | refinement of `SessionOwnership` and, for each invocation, of `CommandSequence`; every started invocation ends |
| `stale_workspace` | 2 invocations | finding 1 |
| `plan_outcome` | 2 formulae, every state, 1 external change; and an upgrade of 3 over every acyclic graph | the plan fits its prefix, commands follow their dependencies, the outcome and exit status are true, the attempt ends, the inductive invariant |
| `whole_closure` | an upgrade of 3 formulae over every acyclic graph | finding 2 |
| `inventory_scan` | 4 process numbers, 3 observations | when "inactive" and "held" can be relied on; the scan answers |
| `eligibility` | 1 artifact assembled from 13 items beside a complete one, 6 exceptions, times 1..5 | allow is earned; no gap in time; what an exception relaxes; what was denied is never allowed |
| `bottle_attestation` | 7 attestations, 2 rewritten files, 3 results at most | what was verified, by what, and how old it is |
| `advisory_scan` | 2 formulae (symmetric), 3 kinds of record, every state of the sources, 1 change | what stood throughout is not cleared |
| `candidate_binding` | 3 source files, 3 commits, 2 snapshots, 2 formulae, 2 changes | what was inspected is what is copied, executed and poured |
| `durable_record` | 3 invocations (symmetric), both kinds of file system | the record survives a power loss, whole, and the cleanup with it |
| `graph_search` | 3 artifacts, every document with lists up to 2 | the search against the definition of a closed acyclic graph |

What the properties say is stated above each of them in the modules. Some points:

- `LaunchedIsRecorded` speaks of *processes*, not of the wrapper's intentions: as long
  as anything of a launched session may be alive, whoever crashed and whatever guards
  ran in between, `inflight.json` names it. Hence at most one session can change the
  prefix (`OneMutator`, a theorem without a run of its own), and together with the lock
  `PlansOnQuietPrefix`.
- `SettledOutcome` ties an outcome to the end of the whole session; `FailureIsTrue`
  and `SuccessIsWhole` tie it to the prefix, at any later time until another client
  changes it. `SuccessIsWhole` names what the code does not promise: a named formula
  that was *outdated* and installed as a dependency only is upgraded and not promoted.
- `InactiveMeansStopped` carries the exception `~blind`. Without it the property is
  false, in four ways; TLC finds the session alive behind "inactive" (or its last witness
  gone) as soon as any one of them is left out of `blind`. In each, a member forks a child
  under a number the scan has passed, and then, before the scan comes to it, (1) is
  reaped before `ps` has read it, (2) leaves the session by `setsid` before `ps` has read
  it, (3) leaves it after it was listed and before it was asked for, or (4) ends, and its
  listed number is taken by an unrelated process. All of it must happen within one
  observation of at most five seconds, but only the last needs a number to be reused: the
  first needs no more than a fork and an exit at the right moment. What the code does
  detect, and what the property is about, is every other way: forks and exits behind the
  questions, zombies, and listed processes that are gone, over all observations.
- The same exception limits the properties of `OwnedExecution`, whose guard asks its
  question in one step. They hold of the code as far as no guard meets the exception.
- `DenialIsFinal` is about the outcome of `Evaluate` at each later evaluation. A denied
  assessment may be *held* later, since an invalid exception, or one that has expired, is
  reported before the evidence is looked at; it is never allowed.
- `DependenciesFirst` is the order the code does provide (finding 2 shows what it does
  not): every command follows those of its *direct* dependencies.

### Bounds

Two invocations meet in every pairwise interleaving of lock, guard and records; the
third allows a survivor, a cleaner and a newcomer at once. One command shows every
step, two the reuse of a session slot between commands; nothing else is counted. Two
formulae show a dependency, a kept one and a partial failure; three are needed for a
chain and a diamond, for which only the order matters, so `plan_outcome` takes either a
pair in every state, its third formula being apart, or an upgrade of three. One
external change is enough to fall before, between and after the two revalidations; the
theorems lift all these bounds. Four process numbers are a member, its child, a free
one for `ps` and an unrelated process. The clock of `eligibility` passes every boundary of the
items and exceptions (begin, end, minimum age); its second artifact has all its evidence
and only its age changes, since an artifact is judged by its own items alone. Lists of two over three artifacts
include duplicates, self-loops, cycles of length two and three, gaps and unrequested
nodes. The seven
attestations are four that are accepted, with equal and different times, two names and
a later publication, and one each with a mixed subject, another signer and other bytes;
of the accepted ones any three reach `Limit`, which is 100 in the code, so that a whole,
a cut-off and an exactly full answer occur. Two rewrites replace a file and put it back,
or replace both files. One change of a source, beside every initial state of all three,
falls before, between and after the requests; the theorems lift the bound.
Two changes in `candidate_binding` are a file and HEAD of an update, a change and its
reversal, or a source and an input; the run works files and inputs off in one order, the
theorems in any and with any number of changes. Three invocations in `durable_record`
are one that launches a command, one that cleans up after it and is interrupted, and one
that starts from what is left.
`MaxRewrites`, `MaxChanges`, `Limit`, `MaxCommands`, `MaxExternal`, `MaxTime`, `MaxItems`, `MaxAttempts` and `Lists`
are all the bounds; `MaxAttempts` is 3 in the code, `MaxItems` 32.

Deadlock is checked everywhere except in `eligibility`, where an assessment
that has reached the last time and its last item has nothing left to do. A final
stutter (`Settled`, `Returned`, `Decided`, `Finished`) is an explicit action with its condition.

### Fairness

`OwnedExecution` and `PlanExecution` assume that a wrapper that was started keeps
being scheduled until it returns or dies, that a released child executes, and that
the *leader* of a command exits: its context times out after 15 minutes, cancellation
signals its group, and `WaitDelay` kills it. Nothing is assumed of descendants, other
clients, crashes, the clock or the release of a reused number, and a wrapper need not
be started. `ProcessInventory` and `DependencyGraph` assume that a sequential loop is
scheduled; in the first the process table may change for ever.

## 4. Proofs

The proofs hold for every value of the constants under the named assumptions of the
modules (`NamesDistinct`, `MaxCommandsIsNat`, `NIsPositive`, `MaxExternalIsNat`,
`MaxAttemptsIsPositive`, `ClaimsAreDistinct`, `BoundsAreNaturals`, `InputsAreTyped`,
`SourcesAreTyped`, `ArtifactsAreFinite`, `RootIsNoArtifact`, `ListsAreTyped`, `SourceIsTyped`,
`BindingIsTyped`, `PidsAreFinite`, `NoneIsNoInvocation`), which TLC evaluates in the runs.

- **OwnedExecutionProofs.** `OwnershipInvariant` is inductive; it is checked by
  `ownership_three`. The safety properties alone are not: what a guard may remove
  depends on what the lock holder knows of the two records at each label
  (`RecordsKnown`), on the lock being exclusive at those labels (`LockExclusive`), on a
  stopped session staying stopped while its record is removed
  (`StoppedStaysStopped`), and on invocations that have not started anything being on
  no record, and a child that is not released yet waiting at its gate or dead
  (`SessionKnown`). From it follow type correctness, all safety properties,
  and `OwnershipImplemented`: every step of the wrapper or its environment is a step of
  `SessionOwnership` or leaves its variables unchanged. `RunsCommandsInTurnAlways` is the
  same for `CommandSequence` and every invocation: a step of another one leaves its labels,
  pending commands, session and outcome alone (`OthersUnmoved`), and each of its own steps
  is one of the sequence or none (`CommandsSimulation`). It needs that no session is left
  where a plan goes on and that the gate holds a child back until it opens
  (`SessionKnown`), that what was started is still to be done (`CommandIsPending`), and
  that an outcome comes last (`OutcomeIsLast`).
- **PlanExecutionProofs.** `PlanInvariant` binds the plan to the saved observation up
  to the end of execution (`PlanIsBound`), the entry to that observation
  (`EntryIsBefore`), and processes to the labels where they may exist (`OutcomeIsLast`).
  From it follow `DependenciesFirst`, `PlanFitsEntry`, `FailureIsTrue` and
  `SuccessIsWhole`. What a set of formulae leads to is the smallest closed set around it
  (`Below`), a definition without recursion: in a valid graph a dependency leads to fewer
  formulae than what depends on it, so of the pending actions the one that leads to the
  fewest waits for none (`AcyclicHasFirst`, `NeverStuckAlways`). `RankedPlanAdvances` is
  the same from a rank. `RunsCommandsInTurnAlways` maps every step of the wrapper, of
  Homebrew and of others to `CommandSequence`; that a command can be launched follows from
  `OutcomeIsLast` (nothing of an earlier session is left) and `SelectedIsReady` (it is
  pending), and a finished action lowers what is left by one (`PendingFacts`).
- **GuardProofs**, for `ProcessInventory` and `DurableRecord`. Of the first, the
  invariant is the existence of a witness: as long as the session lives, was not lost
  from view and nothing listed was found gone, some number that `ps` has still to read, or
  that is still to be asked for, will tell (`WitnessRemains`). `ps` keeps it because it
  lists every process it comes to, a fork because the parent is live, an exit because
  the number names a zombie, and then, if listed, nothing; if a step takes a witness away
  and no member is hidden, a live member is a witness itself. `QuietStep` adds that on a
  machine where nothing changes each listed number still names its process when it is
  asked for (`QuietIsSeen`), whence `QuietIsDecided`. Of the second, a fact about the
  directory programs see says nothing of a power loss: `DurableInvariant` speaks of every
  directory that may be found on the disk. Each of them has a launched command's record
  (`OwedIsEverywhere`), whole content under the final name (`WholeEverywhere`), at most
  one record among them all (`OneReservation`) and, where changes keep their order, an
  unfinished command's collection only beside its record (`CleanupEverywhere`). Because
  they agree on the final name, a power loss may mix their names at will
  (`SurvivorsMixed`). They agree because the directory is synchronized between the
  pending record and its rename, which also settles what became of earlier records, and
  again before the gate (`DiskKnown`). TLC finds no violation of `DurableInvariant` and
  `RecordIsReservation` for three invocations without symmetry (135 493 states). The three properties and
  `RecordIsReservation` follow.
- **EligibilityProofs.** Type correctness and the four properties, without an
  inductive strengthening: three are facts about `Evaluate` in any typed state. For
  `DenialIsFinal` what an outcome of Deny rests on, the exception apart, is shown to stay
  (`Denied`, `DeniedStays`): items are kept, and a finding observed by now was observed
  by any later time (`DenialsGrow`).
- **DependencyGraphProofs.** `RankInvariant` is the classical one of depth-first
  search: the stack holds exactly the nodes being visited, what a call has passed is
  visited but for the call it waits for, and a visited node comes after what it depends
  on. It yields `AcceptedIsRanked`. `VerdictInvariant` decides both directions of
  `VerdictIsExact`, whose definition `ClosedAndAcyclic` is free of recursion: the nodes
  are the smallest set the targets lead to, and every set of nodes has an element that
  depends on none of them. Accepted: visited nodes are in order (`VisitedIsOrdered`), and
  marked ones belong to every set the targets cannot leave (`MarkedIsReached`). Refused:
  the stack is a path (`StackIsPath`), so that from an element met again on, its nodes
  depend on one another all round (`VisitingIsCycle`); a node left over lies outside a
  closed set, the visited ones; the limits on lengths refuse nothing valid, a list
  without repetitions being an injection into the nodes (`DistinctIsShort`).
- **BottleAttestationProofs.** As long as no file was put back, what a file contains is
  new (`FreshUnlessRestored`), so a digest taken earlier either is of what is there now
  or of something that never returns (`DigestIsPast`); a second, equal digest excludes
  the latter (`RehashDecides`). With what `gh` may leave out (`AnswerIsWhole`) this gives
  `VerifiedWhatWasHashed` and `AgeIsFirstPublication`.
- **AdvisoryScanProofs.** What stood since the start stands in the sources now
  (`HistoryIsCurrent`), hence is in every answer when it is fetched and still
  in it at the end (`HistoryIsFetched`). `ClearAnswers` is the lemma about
  `combineAdvisories`: a page that clears a candidate answers for all of it. It uses
  nothing of the order in which pages are read.
- **CandidateBindingProofs.** As long as nothing was put back, what is there is new
  (`Fresh`), and a copied file is of the current content or of one that never returns
  (`CopyWasThere`). A status that found HEAD's tree clean was taken after the copy, so the
  copy holds files of that release or replaced ones, unless HEAD has left it
  (`RecordIsOfCopy`, `HeadWasThere`); that HEAD is at the recorded release again, and each
  file equal to the installed one, excludes both (`CheckDecides`). `CommandIsChecked`
  says the same of one command's check and `InputsAreBound` of the inputs. The sum is
  `BindingInvariant`, checked by `candidate_binding`; `CopyIsOfRelease` follows from
  `CheckDecides`, the other properties are conjuncts.

**Termination.** `InvocationAdvances`, `AttemptAdvances`, `ScanAdvances` and
`SearchAdvances` are the part of the four liveness properties that is about the code: each
module's `StepsLeft` is a natural number that every step of the program lowers, while no
step of another process, session or client changes it. They are proved in the proof
modules of their components (`SearchAdvancesAlways` for cyclic graphs and lists with
repetitions too), with no bound on external changes, forks or invocations. They exclude
what a finite run cannot: that a scan, a guard or a plan starts over for ever
because something else keeps moving. `CallIsInList` and `AttemptIsLeft` are the conjuncts
of the inductive invariants that they need.

Only model-checked: the liveness properties themselves (`EveryInvocationEnds`,
`AttemptEnds`, `Decides`, `SearchEnds`). What is missing from a measure to each of them is
that a program that has not ended can take a step (ENABLED) and, being scheduled, takes
it (fairness), which the provers cannot derive. Of the properties the passing runs
check, each of the others is stated by a theorem.

## 5. Findings

1. `stale_workspace`: the adapter's README promises that after the death of a wrapper
   a new invocation removes its stale state. Only workspaces named by a record are
   removed, and a wrapper that dies while collecting, planning or presenting has none:
   its collection directory, with the downloaded bottles, stays for good.
2. `whole_closure`: commands are said to run in dependency order. `nextReadyAction`
   looks at direct dependencies that have an action; across a formula that is kept, a
   dependent can be upgraded before what it depends on. Whether Homebrew tolerates
   that depends on the formulae.

## 6. Not modelled, and the plan

Abstracted on purpose: the content of plans, receipts, digests and messages; the
sandbox profile, which appears as an assumption about who may write what; parsing (an
answer is usable or the step fails); the exact window (`permitted` covers any clock).
Not modelled: of the command line, arguments, prompts and rendering; the configuration,
which is one strict file read once and a constant of the models; composition, which is
wiring; the repository's and release tools, which are not part of the running program.
They keep no state that interacts with the above and nothing in them runs concurrently.

The work was done in this order, most important first:

1. `OwnedExecution` and `SessionOwnership`, safety, refinement, liveness, proofs.
2. `PlanExecution`, safety, liveness, proofs; later the exit status.
3. `ProcessInventory`, which the first relies on.
4. `Eligibility`.
5. `DependencyGraph`, which the second relies on; later both directions of its verdict.
6. `BottleAttestation` and `AdvisoryScan`, with proofs.
7. `InstalledSource` and `CandidateBinding`, with proofs.
8. `DurableRecord`; later its inductive invariant and that it implements `SessionOwnership`.
9. The measures of the four loops, and that a valid plan is never stuck, as theorems.
10. `CommandSequence`, implemented by the first two.

What is left, and why it was put last:

- `InstalledState`: the four keg states of `PlanExecution` from links and receipts
  (`installedLink`, `installedAction`), duplicates and half-finished pours, as the
  refinement of the abstract ones. The code reads them in one pass from what one command
  printed and from files Homebrew writes; the abstract states already include each case
  `publicActions` refuses.
- A composition of `PlanExecution` with one invocation of `OwnedExecution` by instance.
  Both implement `CommandSequence`, which says what their product would need of each
  other about commands; that the two agree step by step on which command is running was
  not composed, the product of their states being large.
- An abstract specification of an evidence item (what it claims was true of the
  candidate during the collection), implemented by `BottleAttestation` and
  `AdvisoryScan`, from which `Eligibility` takes its items.
