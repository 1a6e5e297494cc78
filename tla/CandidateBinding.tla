-------------------------- MODULE CandidateBinding --------------------------
(***************************************************************************)
(* What one invocation inspects and what it executes.  Runtime.materialize  *)
(* copies the installed Homebrew source and names its release; Collect      *)
(* pins a metadata snapshot, fetches and assesses bottles and freezes its   *)
(* inputs; Prepare, Revalidate and runPendingActions bind every command to  *)
(* them again.  Nothing is locked meanwhile: the prefix is changed by brew  *)
(* update, git or the user, upstream publishes, and a process a collection  *)
(* command left behind may still write the workspace.                       *)
(***************************************************************************)
EXTENDS InstalledSource

CONSTANTS
  LegacyTree,  \* the files supportedRuntimeDigest stands for
  None,        \* no revision
  Formula,     \* the formulae of the closure
  Targets,     \* those the user named: the first metadata batch
  Snapshot,    \* the authentic metadata snapshots
  Bottle,      \* what a bottle may contain; a digest is the content itself
  Offers       \* the candidate of each formula in each snapshot

Packages == <<"cache", "api">>      \* metadataCachePath
Cached(f) == <<"downloads", f>>     \* what brew fetch left in cache/downloads
Copied(f) == <<"inputs", f>>        \* what copyDownloads made of it

\* The inputs a plan freezes.
Input == {Packages} \cup {Cached(f) : f \in Formula} \cup {Copied(f) : f \in Formula}

\* Bottles and snapshots of a workspace; Absent before they are there.
Stored == Snapshot \cup Bottle \cup {Absent}

ASSUME BindingIsTyped ==
  /\ LegacyTree \in [File -> Content]
  /\ \A f \in Tracked : LegacyTree[f] = Tree[Legacy][f]
  /\ None \notin Commit
  /\ Targets \subseteq Formula
  /\ Absent \notin Snapshot \cup Bottle
  /\ Offers \in [Snapshot -> [Formula -> Bottle]]

\* The inputs another process may write, and with what: a snapshot is signed, so only
\* another authentic one is accepted in its place.
MayHold(x) == IF x = Packages THEN Snapshot ELSE Bottle \cup {Absent}

VARIABLES
  round,       \* the operation under way
  stage,       \* the step it is at
  todo,        \* the files, inputs or formulae that step has left
  git,         \* the answer of reviewedBrewSource, as far as it is
  selected,    \* the revision materialize selected, or None
  copy,        \* the copied runtime
  revision,    \* the recorded runtimeRevision
  published,   \* the snapshot upstream serves
  candidates,  \* the candidate of each formula
  disk,        \* the inputs in the workspace
  frozen,      \* their digests, as Collect froze them
  rewritten,   \* history: those written since they were last compared
  pending,     \* the formulae whose command has not finished
  current,     \* the formula of the selected command
  poured       \* what Homebrew poured for each formula

runtime == <<selected, copy, revision>>
inputs == <<candidates, disk, frozen, rewritten>>
commands == <<pending, current, poured>>
wrapper == <<round, stage, todo, git, runtime, inputs, commands>>
vars == <<installed, changes, published, wrapper>>

Rounds == {"collect", "prepare", "execute", "run"}
Stages == {"select", "copy", "confirm", "identify", "metadata", "dependencies", "fetch",
           "download", "assess", "freeze", "inputs", "check", "compare", "observe", "next",
           "running", "closed"}

\* Every variable keeps its type.
TypeOK ==
  /\ SourceTypeOK
  /\ round \in Rounds /\ stage \in Stages
  /\ todo \subseteq File \/ todo \subseteq Input \/ todo \subseteq Formula
  /\ git \in [step : {"rev-parse", "status", "answered"}, revision : Release \cup {None}]
  /\ selected \in Release \cup {None}
  /\ copy \in [File -> Content]
  /\ revision \in Release \cup {None}
  /\ published \in Snapshot
  /\ candidates \in [Formula -> Bottle \cup {Absent}]
  /\ disk \in [Input -> Stored] /\ frozen \in [Input -> Stored]
  /\ rewritten \subseteq Input
  /\ pending \subseteq Formula /\ current \in Formula \cup {None}
  /\ poured \in [Formula -> Stored]

Unasked == [step |-> "rev-parse", revision |-> None]
Unavailable == [step |-> "answered", revision |-> None]

Init ==
  /\ SourceInit
  /\ round = "collect" /\ stage = "select" /\ todo = {}
  /\ git = Unasked
  /\ selected = None /\ revision = None
  /\ copy = [f \in File |-> Absent]
  /\ published \in Snapshot
  /\ candidates = [f \in Formula |-> Absent]
  /\ disk = [x \in Input |-> Absent]
  /\ frozen = disk
  /\ rewritten = {}
  /\ pending = {} /\ current = None
  /\ poured = [f \in Formula |-> Absent]

\* The operation goes on with stage s, which has items to work off.
GoTo(s, items) == stage' = s /\ todo' = items /\ git' = Unasked

-----------------------------------------------------------------------------
\* reviewedBrewSource: two git commands, in four places

Asking == stage \in {"select", "confirm", "identify", "check"} /\ git.step # "answered"

\* rev-parse; only a reviewed commit is asked about further.
ReadHead ==
  /\ Asking /\ git.step = "rev-parse"
  /\ git' = IF head \in Release THEN [step |-> "status", revision |-> head] ELSE Unavailable
  /\ UNCHANGED <<installed, changes, published, round, stage, todo, runtime, inputs, commands>>

\* status, against whatever HEAD is by now.
ReadStatus ==
  /\ Asking /\ git.step = "status"
  /\ git' = IF Clean THEN [git EXCEPT !.step = "answered"] ELSE Unavailable
  /\ UNCHANGED <<installed, changes, published, round, stage, todo, runtime, inputs, commands>>

GitFails ==
  /\ Asking
  /\ git' = Unavailable
  /\ UNCHANGED <<installed, changes, published, round, stage, todo, runtime, inputs, commands>>

-----------------------------------------------------------------------------
\* Runtime.materializeFrom and installedRevision

\* Without a reviewed checkout only the legacy fixture is left.
SelectRelease ==
  /\ stage = "select" /\ git.step = "answered"
  /\ selected' = git.revision
  /\ GoTo("copy", File)
  /\ UNCHANGED <<installed, changes, published, round, copy, revision, inputs, commands>>

\* copyRuntimeFiles, one file at a time.
CopyFile(f) ==
  /\ stage = "copy" /\ f \in todo
  /\ copy' = [copy EXCEPT ![f] = source[f]]
  /\ todo' = todo \ {f}
  /\ UNCHANGED <<installed, changes, published, round, stage, git, selected, revision,
                 inputs, commands>>

\* The manifest names the release; an unreviewed copy must have the fixture's digest.
CopyDone ==
  /\ stage = "copy" /\ todo = {}
  /\ \/ selected # None /\ GoTo("confirm", {})
     \/ selected = None /\ copy = LegacyTree /\ GoTo("identify", {})
  /\ UNCHANGED <<installed, changes, published, round, runtime, inputs, commands>>

\* The fresh answer is that of the selection.
Confirm ==
  /\ stage = "confirm" /\ git.step = "answered"
  /\ git.revision = selected
  /\ GoTo("identify", {})
  /\ UNCHANGED <<installed, changes, published, round, runtime, inputs, commands>>

\* installedRevision asks once more and records that answer, not the selected revision.
Identify ==
  /\ stage = "identify" /\ git.step = "answered"
  /\ \/ git.revision # None /\ revision' = git.revision
     \/ /\ git.revision = None
        /\ selected \in {None, Legacy} /\ copy = LegacyTree
        /\ revision' = Legacy
  /\ GoTo("metadata", {})
  /\ UNCHANGED <<installed, changes, published, round, selected, copy, inputs, commands>>

-----------------------------------------------------------------------------
\* Collector.collect

\* The first info batch: Homebrew acquires the snapshot that is published now.
AcquireMetadata ==
  /\ stage = "metadata"
  /\ disk' = [disk EXCEPT ![Packages] = published]
  /\ candidates' = [f \in Formula |-> IF f \in Targets THEN Offers[published][f] ELSE Absent]
  /\ GoTo("dependencies", {})
  /\ UNCHANGED <<installed, changes, published, round, runtime, frozen, rewritten, commands>>

\* The other batches run without network, from the snapshot in the workspace.
InspectDependencies ==
  /\ stage = "dependencies"
  /\ candidates' = [f \in Formula |->
                      IF f \in Targets THEN candidates[f] ELSE Offers[disk[Packages]][f]]
  /\ GoTo("fetch", {})
  /\ UNCHANGED <<installed, changes, published, round, runtime, disk, frozen, rewritten,
                 commands>>

\* fetchBottles runs with network again and may refresh the snapshot; Homebrew keeps
\* what its snapshot s names.
FetchBottles(s) ==
  /\ stage = "fetch"
  /\ disk' = [x \in Input |->
                CASE x[1] = "cache" -> s
                  [] x[1] = "downloads" -> Offers[s][x[2]]
                  [] OTHER -> disk[x]]
  /\ GoTo("download", Formula)
  /\ UNCHANGED <<installed, changes, published, round, runtime, candidates, frozen, rewritten,
                 commands>>

\* copyDownloads: the cached bottle has the candidate's digest.
CopyDownload(f) ==
  /\ stage = "download" /\ f \in todo
  /\ disk[Cached(f)] = candidates[f]
  /\ disk' = [disk EXCEPT ![Copied(f)] = candidates[f]]
  /\ todo' = todo \ {f}
  /\ UNCHANGED <<installed, changes, published, round, stage, git, runtime, candidates, frozen,
                 rewritten, commands>>

\* collectCandidateEvidence: the verifier reads the copy (see BottleAttestation).
AssessCandidate(f) ==
  /\ stage = "assess" /\ f \in todo
  /\ disk[Copied(f)] = candidates[f]
  /\ todo' = todo \ {f}
  /\ UNCHANGED <<installed, changes, published, round, stage, git, runtime, inputs, commands>>

\* freezeInputs at the end of Collect, one file at a time.
FreezeInput(x) ==
  /\ stage = "freeze" /\ x \in todo
  /\ disk[x] # Absent
  /\ frozen' = [frozen EXCEPT ![x] = disk[x]]
  /\ todo' = todo \ {x}
  /\ UNCHANGED <<installed, changes, published, round, stage, git, runtime, candidates, disk,
                 rewritten, commands>>

\* A loop of the collection has no item left.
CollectionGoesOn ==
  /\ todo = {}
  /\ \/ stage = "download" /\ GoTo("assess", Formula) /\ UNCHANGED round
     \/ stage = "assess" /\ GoTo("freeze", Input) /\ UNCHANGED round
     \/ stage = "freeze" /\ GoTo("inputs", Input) /\ round' = "prepare"
  /\ UNCHANGED <<installed, changes, published, runtime, inputs, commands>>

-----------------------------------------------------------------------------
\* Collection.Prepare, Revalidate in Execute, and Revalidate in Run

\* Bug: an input is read without comparing its digest.
BugReadInput(x) ==
  /\ stage = "inputs" /\ x \in todo
  /\ todo' = todo \ {x}
  /\ rewritten' = rewritten \ {x}
  /\ UNCHANGED <<installed, changes, published, round, stage, git, runtime, candidates, disk,
                 frozen, commands>>

\* The second freezeInputs of Prepare, and readPrepared: the inputs are as frozen.
ReadInput(x) ==
  /\ stage = "inputs" /\ x \in todo
  /\ disk[x] = frozen[x]
  /\ todo' = todo \ {x}
  /\ rewritten' = rewritten \ {x}
  /\ UNCHANGED <<installed, changes, published, round, stage, git, runtime, candidates, disk,
                 frozen, commands>>

InputsRead ==
  /\ stage = "inputs" /\ todo = {}
  /\ IF round = "prepare" THEN GoTo("check", {}) ELSE GoTo("observe", {})
  /\ UNCHANGED <<installed, changes, published, round, runtime, inputs, commands>>

\* Bug: the metadata of the execution are not matched with the candidates.
BugMatchesMetadata == TRUE

\* matchExecutionMetadata: the snapshot describes the candidates.
MatchesMetadata == \A f \in Formula : Offers[disk[Packages]][f] = candidates[f]

\* publicState; Prepare makes its plan of it, the others compare it (PlanExecution).
Observe ==
  /\ stage = "observe"
  /\ MatchesMetadata
  /\ \/ round = "prepare" /\ round' = "execute" /\ GoTo("inputs", Input) /\ pending' = Formula
     \/ round = "execute" /\ round' = "run" /\ GoTo("inputs", Input) /\ UNCHANGED pending
     \/ round = "run" /\ GoTo("next", {}) /\ UNCHANGED <<round, pending>>
  /\ UNCHANGED <<installed, changes, published, runtime, inputs, current, poured>>

-----------------------------------------------------------------------------
\* checkPublicRuntime: in Prepare and before every command

\* The release is the recorded one; for the legacy fixture no answer is enough.
CheckRelease ==
  /\ stage = "check" /\ git.step = "answered"
  /\ git.revision = revision \/ (git.revision = None /\ revision = Legacy)
  /\ GoTo("compare", {f \in File : copy[f] # Absent})
  /\ UNCHANGED <<installed, changes, published, round, runtime, inputs, commands>>

\* Bug: the release is all that is checked.
BugCompareFile(f) ==
  /\ stage = "compare" /\ f \in todo
  /\ todo' = todo \ {f}
  /\ UNCHANGED <<installed, changes, published, round, stage, git, runtime, inputs, commands>>

\* Every copied file is compared with the installed one.
CompareFile(f) ==
  /\ stage = "compare" /\ f \in todo
  /\ source[f] = copy[f]
  /\ todo' = todo \ {f}
  /\ UNCHANGED <<installed, changes, published, round, stage, git, runtime, inputs, commands>>

RuntimeChecked ==
  /\ stage = "compare" /\ todo = {}
  /\ IF round = "prepare" THEN GoTo("observe", {}) ELSE GoTo("running", {})
  /\ UNCHANGED <<installed, changes, published, round, runtime, inputs, commands>>

-----------------------------------------------------------------------------
\* runPendingActions

\* Bug: the runtime is only checked before the first command.
BugSelectCommand(f) ==
  /\ stage = "next" /\ f \in pending
  /\ current' = f
  /\ moved' = FALSE
  /\ IF pending = Formula THEN GoTo("check", {}) ELSE GoTo("running", {})
  /\ UNCHANGED <<head, source, pastHead, past, restored, changes, published, round, runtime,
                 inputs, pending, poured>>

\* Which command is next is PlanExecution's.
SelectCommand(f) ==
  /\ stage = "next" /\ f \in pending
  /\ current' = f
  /\ moved' = FALSE
  /\ GoTo("check", {})
  /\ UNCHANGED <<head, source, pastHead, past, restored, changes, published, round, runtime,
                 inputs, pending, poured>>

\* Homebrew runs without network: it pours what is cached if it is what its snapshot
\* names, and the profile keeps its processes from writing any input.
RunCommand ==
  /\ stage = "running"
  /\ disk[Cached(current)] = Offers[disk[Packages]][current]
  /\ poured' = [poured EXCEPT ![current] = disk[Cached(current)]]
  /\ pending' = pending \ {current}
  /\ GoTo("next", {})
  /\ UNCHANGED <<installed, changes, published, round, runtime, inputs, current>>

\* Nothing is left to run, or anything at all fails or is cancelled on the way.
Ends ==
  /\ stage # "closed"
  /\ GoTo("closed", {})
  /\ UNCHANGED <<installed, changes, published, round, runtime, inputs, commands>>

Settled == stage = "closed" /\ UNCHANGED vars

-----------------------------------------------------------------------------
\* The environment

Publish(s) ==
  /\ Count
  /\ s # published
  /\ published' = s
  /\ UNCHANGED <<installed, wrapper>>

\* A process that outlived a collection command, or any other, writes an input.
StrayWrite(x, c) ==
  /\ Count
  /\ c # disk[x]
  /\ disk[x] # Absent
  /\ disk' = [disk EXCEPT ![x] = c]
  /\ rewritten' = rewritten \cup {x}
  /\ UNCHANGED <<installed, published, round, stage, todo, git, runtime, candidates, frozen,
                 commands>>

Environment ==
  \/ SourceChanges /\ UNCHANGED <<published, wrapper>>
  \/ \E s \in Snapshot : Publish(s)
  \/ \E x \in Input : \E c \in MayHold(x) : StrayWrite(x, c)

Runtime ==
  \/ ReadHead \/ ReadStatus \/ GitFails
  \/ SelectRelease \/ CopyDone \/ Confirm \/ Identify
  \/ \E f \in File : CopyFile(f)

Collect ==
  \/ AcquireMetadata \/ InspectDependencies \/ CollectionGoesOn
  \/ \E s \in {disk[Packages], published} : FetchBottles(s)
  \/ \E f \in Formula : CopyDownload(f) \/ AssessCandidate(f)
  \/ \E x \in Input : FreezeInput(x)

Bind ==
  \/ \E x \in Input : ReadInput(x)
  \/ InputsRead \/ Observe \/ CheckRelease \/ RuntimeChecked
  \/ \E f \in File : CompareFile(f)

Execute ==
  \/ \E f \in Formula : SelectCommand(f)
  \/ RunCommand

Next == Runtime \/ Collect \/ Bind \/ Execute \/ Ends \/ Settled \/ Environment

Spec == Init /\ [][Next]_vars

-----------------------------------------------------------------------------
\* Properties

\* A plan's copy of Homebrew holds no file of any release but the recorded one, however
\* an update raced the copy and the checks: unless HEAD or a file went back to what it
\* was before.  The legacy release is excepted, which checkPublicRuntime also accepts
\* without an answer of git.  That no file is missing from the copy is not promised.
CopyIsOfRelease ==
  round \in {"execute", "run"} /\ ~restored /\ revision # Legacy =>
    \A f \in Tracked : copy[f] \in {Absent, Tree[revision][f]}

\* The source that runs a command is the one that was inspected, file by file, and that
\* of the recorded release, unless it changed after the command was selected: no update
\* during an earlier command reaches a later one (checkPublicRuntime in the loop).
CommandRunsWhatWasInspected ==
  stage = "running" /\ ~moved =>
    /\ \A f \in File : copy[f] \in {Absent, source[f]}
    /\ revision # Legacy => head = revision /\ Clean

\* What Homebrew pours is the bottle that was assessed, although it reads cache and
\* snapshot of its own, a fetch may have refreshed the snapshot and another process may
\* have rewritten the bottles at any time: unless it replaced the snapshot itself after
\* the last revalidation had read it.
PoursWhatWasAssessed ==
  \A f \in Formula :
    \/ poured[f] \in {Absent, candidates[f]}
    \/ Packages \in rewritten

\* While commands are executed every input is as it was at the end of the collection,
\* unless it was written after the last revalidation had read it (readPrepared).
ExecutesFrozen ==
  stage \in {"next", "check", "compare", "running"} /\ round = "run" =>
    \A x \in Input : disk[x] = frozen[x] \/ x \in rewritten

-----------------------------------------------------------------------------
\* The inductive invariant behind the properties

Beginning == {"select", "copy", "confirm", "identify"}
Collecting ==
  Beginning \cup {"metadata", "dependencies", "fetch", "download", "assess", "freeze"}

\* Each step belongs to its operations, and the revision is recorded by Identify.
Placed ==
  /\ stage \in Collecting => round = "collect"
  /\ stage \in {"inputs", "observe"} => round # "collect"
  /\ stage \in {"check", "compare"} => round \in {"prepare", "run"}
  /\ stage \in {"next", "running"} => round = "run"
  /\ stage \in Beginning => revision = None
  /\ stage \notin Beginning \cup {"closed"} => revision # None
  /\ stage \in {"dependencies", "fetch"} => disk[Packages] \in Snapshot
  /\ round = "run" /\ stage \in {"check", "compare", "running"} => current \in Formula

\* What was copied is there, or was.
CopyWasThere == \A f \in File : copy[f] \in past[f] \cup {source[f], Absent}

\* What status asked about was HEAD, and is unless it moved.
HeadWasThere ==
  git.step = "status" =>
    /\ git.revision \in Release
    /\ git.revision = head \/ git.revision \in pastHead

\* Of the tracked files, the copy holds those of r or some that were replaced.
OfRelease(r) == \A f \in Tracked : copy[f] \in past[f] \cup {Tree[r][f], Absent}

\* The release recorded for the copy is its own, unless HEAD has left it: the status
\* behind the record looked at the files of that release after they were copied.
RecordIsOfCopy ==
  /\ stage = "identify" /\ git.step = "answered" /\ git.revision # None =>
       OfRelease(git.revision) \/ git.revision \in pastHead
  /\ revision # None => OfRelease(revision) \/ revision \in pastHead

\* HEAD at the recorded release again rules out that it had left it, and each file that
\* is compared rules out that it was replaced.
CheckDecides ==
  /\ stage = "check" /\ git.step # "rev-parse" /\ git.revision = revision =>
       restored \/ OfRelease(revision)
  /\ stage = "compare" /\ revision # Legacy =>
       \/ restored
       \/ /\ OfRelease(revision)
          /\ \A f \in Tracked \ todo : copy[f] \in {Absent, Tree[revision][f]}
  /\ stage = "observe" \/ round \in {"execute", "run"} =>
       \/ restored \/ revision = Legacy
       \/ \A f \in Tracked : copy[f] \in {Absent, Tree[revision][f]}

\* What the check of a command has found so far is still so, unless something moved.
CommandIsChecked ==
  ~moved =>
    /\ git.step = "status" => git.revision = head
    /\ stage = "check" /\ git.step = "answered" /\ git.revision # None =>
         git.revision = head /\ Clean
    /\ stage = "compare" =>
         /\ revision # Legacy => head = revision /\ Clean
         /\ \A f \in File \ todo : copy[f] \in {Absent, source[f]}

\* What was compared with its frozen digest is still so, or on record as rewritten.
InputsAreBound ==
  /\ stage = "inputs" => \A x \in Input \ todo : disk[x] = frozen[x] \/ x \in rewritten
  /\ stage \in {"check", "compare", "observe", "next", "running"} =>
       \A x \in Input : disk[x] = frozen[x] \/ x \in rewritten
  /\ round = "run" /\ stage \in {"next", "check", "compare", "running"} =>
       MatchesMetadata \/ Packages \in rewritten
  /\ round # "run" \/ stage \in {"inputs", "observe"} => \A f \in Formula : poured[f] = Absent

\* The conjunction the proofs show to be inductive.
BindingInvariant ==
  /\ TypeOK
  /\ Placed
  /\ Fresh
  /\ CopyWasThere
  /\ HeadWasThere
  /\ RecordIsOfCopy
  /\ CheckDecides
  /\ CommandIsChecked
  /\ InputsAreBound
  /\ CommandRunsWhatWasInspected
  /\ PoursWhatWasAssessed

=============================================================================
