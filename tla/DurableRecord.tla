---------------------------- MODULE DurableRecord ----------------------------
(***************************************************************************)
(* What a power loss leaves of the state directory.  OwnedExecution treats   *)
(* a file operation as lasting once it returns; here a directory change lasts *)
(* only after syncParent and a file's content only after fsync, and a power  *)
(* loss at any step ends every process and keeps what it happens to keep.    *)
(*                                                                          *)
(* Sources: adapters/homebrew/{inflight,public_session,engine,collect}.go    *)
(* and writeNew and syncParent of runtime.go.  The operation lock lets one   *)
(* wrapper at a time change the records, so one wrapper runs at a time here; *)
(* whether a recorded session is active is OwnedExecution's question, and a  *)
(* guard may find either.                                                   *)
(***************************************************************************)

CONSTANTS
  Invocation,  \* runs of the wrapper, one after the other
  None         \* no record file; no wrapper running

ASSUME NoneIsNoInvocation == None \notin Invocation

VARIABLES
  running,   \* the wrapper that runs
  begun,     \* invocations that were started
  at,        \* where the running wrapper is
  guard,     \* which caller the running clearStoppedInFlight returns to
  file,      \* which record that guard is looking at
  dir,       \* the directory as programs see it: two records and the collections
  disk,      \* the directories a power loss may leave; a synchronization leaves one
  content,   \* content of the record file of each invocation
  owed,      \* whether a cleanup of the invocation's command is still owed
  ordered    \* the file system keeps directory changes in the order they were made

wrapperVars == <<running, begun, at, guard, file>>
recordVars == <<wrapperVars, dir, disk, content, owed, ordered>>

Empty == [json |-> None, pending |-> None, workspaces |-> {}]

RecordInit ==
  /\ running = None /\ begun = {} /\ at = "idle" /\ guard = "none" /\ file = "json"
  /\ dir = Empty
  /\ disk = {Empty}
  /\ content = [w \in Invocation |-> "empty"]
  /\ owed = [w \in Invocation |-> "no"]
  /\ ordered \in BOOLEAN

-----------------------------------------------------------------------------
\* Helpers

\* A change of the directory is visible at once, and may or may not reach the disk.
Change(d) ==
  /\ dir' = d
  /\ disk' = disk \cup {d}

\* syncParent of any name in the directory makes all of it last.
syncParent ==
  /\ disk' = {dir}
  /\ UNCHANGED dir

\* readInFlight accepts content that was written, synchronized or not.
Readable(w) == content[w] \in {"written", "synced"}

Goto(label) ==
  /\ at' = label
  /\ UNCHANGED <<running, begun, guard, file>>

EnterGuard(caller) ==
  /\ at' = "inspect" /\ guard' = caller /\ file' = "json"
  /\ UNCHANGED <<running, begun>>

\* The wrapper returns, or dies.
Leave ==
  /\ running' = None /\ at' = "idle" /\ guard' = "none" /\ file' = "json"
  /\ UNCHANGED begun

\* Both records are clear: collect, start the plan, or remove the own collection.
GuardPasses ==
  \/ guard = "preflight" /\ Goto("collecting")
  \/ guard = "prepare" /\ Goto("ready")
  \/ guard = "close" /\ Goto("removeOwn")

\* The guard returns an error; a failed Prepare still closes its session.
GuardHolds == IF guard = "prepare" THEN EnterGuard("close") ELSE Leave

\* The loop of clearStoppedInFlight.
NextRecord ==
  \/ /\ file = "json"
     /\ at' = "inspect" /\ file' = "pending"
     /\ UNCHANGED <<running, begun, guard>>
  \/ /\ file = "pending"
     /\ GuardPasses

-----------------------------------------------------------------------------
\* clearStoppedInFlight

InspectEmpty ==
  /\ at = "inspect"
  /\ dir[file] = None
  /\ NextRecord
  /\ UNCHANGED <<dir, disk, content, owed, ordered>>

InspectStopped ==
  /\ at = "inspect"
  /\ dir[file] # None /\ Readable(dir[file])
  /\ Goto("removing")
  /\ UNCHANGED <<dir, disk, content, owed, ordered>>

\* A torn record, an active session or an inventory that cannot be read.
InspectHolds ==
  /\ at = "inspect"
  /\ dir[file] # None
  /\ GuardHolds
  /\ UNCHANGED <<dir, disk, content, owed, ordered>>

\* removeCollection: a collection that is already gone is not synchronized again.
RemoveCollection ==
  /\ at = "removing"
  /\ \/ /\ dir[file] \in dir.workspaces
        /\ Change([dir EXCEPT !.workspaces = @ \ {dir[file]}])
        /\ Goto("syncRemoved")
     \/ /\ dir[file] \notin dir.workspaces
        /\ Goto("unlinking")
        /\ UNCHANGED <<dir, disk>>
  /\ owed' = [owed EXCEPT ![dir[file]] = IF @ = "owed" THEN "cleaning" ELSE @]
  /\ UNCHANGED <<content, ordered>>

SyncRemoved ==
  /\ at = "syncRemoved"
  /\ syncParent
  /\ Goto("unlinking")
  /\ UNCHANGED <<content, owed, ordered>>

RemoveRecord ==
  /\ at = "unlinking"
  /\ Change([dir EXCEPT ![file] = None])
  /\ Goto("syncUnlinked")
  /\ UNCHANGED <<content, owed, ordered>>

SyncUnlinked ==
  /\ at = "syncUnlinked"
  /\ syncParent
  /\ NextRecord
  /\ UNCHANGED <<content, owed, ordered>>

\* Bug: a collection that cannot be removed is ignored, and its record removed.
BugRemovalFails ==
  \/ /\ at = "removing"
     /\ Goto("unlinking")
     /\ UNCHANGED <<dir, disk, content, owed, ordered>>
  \/ /\ at \in {"syncRemoved", "unlinking", "syncUnlinked"}
     /\ GuardHolds
     /\ UNCHANGED <<dir, disk, content, owed, ordered>>

\* A removal or a synchronization fails.
RemovalFails ==
  /\ at \in {"removing", "syncRemoved", "unlinking", "syncUnlinked"}
  /\ GuardHolds
  /\ UNCHANGED <<dir, disk, content, owed, ordered>>

-----------------------------------------------------------------------------
\* An invocation up to its plan

Begin(w) ==
  /\ running = None /\ w \notin begun
  /\ running' = w /\ begun' = begun \cup {w}
  /\ at' = "inspect" /\ guard' = "preflight" /\ file' = "json"
  /\ UNCHANGED <<dir, disk, content, owed, ordered>>

\* Collect makes the collection, which nothing synchronizes yet.
Collect ==
  /\ at = "collecting"
  /\ Change([dir EXCEPT !.workspaces = @ \cup {running}])
  /\ Goto("collected")
  /\ UNCHANGED <<content, owed, ordered>>

\* A failed Collect removes it with RemoveAll, later failures with removeCollection.
CollectionAbandoned ==
  /\ at = "collected"
  /\ LET removed == [dir EXCEPT !.workspaces = @ \ {running}]
     IN dir' = removed /\ disk' \in {disk \cup {removed}, {removed}}
  /\ Leave
  /\ UNCHANGED <<content, owed, ordered>>

BeginPrepare ==
  /\ at = "collected"
  /\ EnterGuard("prepare")
  /\ UNCHANGED <<dir, disk, content, owed, ordered>>

-----------------------------------------------------------------------------
\* runCommand: saveInFlight, the gate and finishInFlight

\* writeNew: the pending record is created exclusively.
CreatePending ==
  /\ at = "ready"
  /\ dir.json = None /\ dir.pending = None
  /\ Change([dir EXCEPT !.pending = running])
  /\ content' = [content EXCEPT ![running] = "empty"]
  /\ Goto("writing")
  /\ UNCHANGED <<owed, ordered>>

WritePending ==
  /\ at = "writing"
  /\ content' = [content EXCEPT ![running] = "written"]
  /\ Goto("fsync")
  /\ UNCHANGED <<dir, disk, owed, ordered>>

\* Bug: the file is closed without being synchronized.
BugSyncContent ==
  /\ at = "fsync"
  /\ Goto("syncCreated")
  /\ UNCHANGED <<dir, disk, content, owed, ordered>>

SyncContent ==
  /\ at = "fsync"
  /\ content' = [content EXCEPT ![running] = "synced"]
  /\ Goto("syncCreated")
  /\ UNCHANGED <<dir, disk, owed, ordered>>

SyncCreated ==
  /\ at = "syncCreated"
  /\ syncParent
  /\ Goto("renaming")
  /\ UNCHANGED <<content, owed, ordered>>

RenamePending ==
  /\ at = "renaming"
  /\ Change([dir EXCEPT !.json = running, !.pending = None])
  /\ Goto("syncRenamed")
  /\ UNCHANGED <<content, owed, ordered>>

\* Bug: saveInFlight returns once the record is renamed.
BugSyncRenamed ==
  /\ at = "syncRenamed"
  /\ Goto("recorded")
  /\ UNCHANGED <<dir, disk, content, owed, ordered>>

SyncRenamed ==
  /\ at = "syncRenamed"
  /\ syncParent
  /\ Goto("recorded")
  /\ UNCHANGED <<content, owed, ordered>>

\* A step of saveInFlight or the gate's pipe fails: the child is killed unstarted.
SaveFails ==
  /\ at \in {"ready", "writing", "fsync", "syncCreated", "renaming", "syncRenamed", "recorded"}
  /\ EnterGuard("close")
  /\ UNCHANGED <<dir, disk, content, owed, ordered>>

\* From here on Homebrew may change the prefix.
OpenGate ==
  /\ at = "recorded"
  /\ owed' = [owed EXCEPT ![running] = "owed"]
  /\ Goto("waiting")
  /\ UNCHANGED <<dir, disk, content, ordered>>

\* finishInFlight: the whole session is gone, and the record is still this one.
FinishInFlight ==
  /\ at = "waiting"
  /\ dir.json = running /\ Readable(running)
  /\ Change([dir EXCEPT !.json = None])
  /\ owed' = [owed EXCEPT ![running] = "no"]
  /\ Goto("syncFinished")
  /\ UNCHANGED <<content, ordered>>

\* Go on with the next command, or with the last observations and Close.
SyncFinished ==
  /\ at = "syncFinished"
  /\ syncParent
  /\ Goto("ready")
  /\ UNCHANGED <<content, owed, ordered>>

\* The session is still active, or the record cannot be removed or synchronized.
FinishHolds ==
  /\ at \in {"waiting", "syncFinished"}
  /\ EnterGuard("close")
  /\ UNCHANGED <<dir, disk, content, owed, ordered>>

\* The session is closed with no command running: refused, failed or complete.
Close ==
  /\ at = "ready"
  /\ EnterGuard("close")
  /\ UNCHANGED <<dir, disk, content, owed, ordered>>

\* The end of Close: its own collection, then the lock.
RemoveOwn ==
  /\ at = "removeOwn"
  /\ \/ /\ running \in dir.workspaces
        /\ Change([dir EXCEPT !.workspaces = @ \ {running}])
        /\ Goto("syncOwn")
     \/ /\ running \notin dir.workspaces
        /\ Leave
        /\ UNCHANGED <<dir, disk>>
  /\ UNCHANGED <<content, owed, ordered>>

SyncOwn ==
  /\ at = "syncOwn"
  /\ syncParent
  /\ Leave
  /\ UNCHANGED <<content, owed, ordered>>

-----------------------------------------------------------------------------
\* Faults

\* The wrapper dies at any step, or fails to remove its own collection.
Crash ==
  /\ running # None
  /\ Leave
  /\ UNCHANGED <<dir, disk, content, owed, ordered>>

\* Each name as one of the possible directories has it, unless the order is kept.
Survivors ==
  IF ordered THEN disk
  ELSE [json : {d.json : d \in disk}, pending : {d.pending : d \in disk},
        workspaces : {W \in SUBSET UNION {d.workspaces : d \in disk} :
                        \A w \in Invocation : (\A d \in disk : w \in d.workspaces) => w \in W}]

\* A content that was not synchronized is whole or torn.
ContentAfter(c) ==
  CASE c = "empty" -> {"torn"} [] c = "written" -> {"synced", "torn"} [] OTHER -> {c}

PowerLoss ==
  /\ Leave
  /\ \E d \in Survivors : dir' = d /\ disk' = {d}
  /\ content' \in {f \in [Invocation -> {"synced", "torn"}] :
                     \A w \in Invocation : f[w] \in ContentAfter(content[w])}
  /\ UNCHANGED <<owed, ordered>>

-----------------------------------------------------------------------------
\* The specification

Guarding ==
  \/ InspectEmpty \/ InspectStopped \/ InspectHolds
  \/ RemoveCollection \/ SyncRemoved \/ RemoveRecord \/ SyncUnlinked \/ RemovalFails

Preparing == Collect \/ CollectionAbandoned \/ BeginPrepare

Saving ==
  \/ CreatePending \/ WritePending \/ SyncContent \/ SyncCreated
  \/ RenamePending \/ SyncRenamed \/ SaveFails

Finishing == OpenGate \/ FinishInFlight \/ SyncFinished \/ FinishHolds

Closing == Close \/ RemoveOwn \/ SyncOwn

RecordNext ==
  \/ \E w \in Invocation : Begin(w)
  \/ Guarding \/ Preparing \/ Saving \/ Finishing \/ Closing
  \/ Crash \/ PowerLoss

RecordSpec == RecordInit /\ [][RecordNext]_recordVars

-----------------------------------------------------------------------------
\* Properties

\* From the opening of the gate until the command is finished or a guard cleans up
\* after it, inflight.json names it and can be read, whatever the file system reorders
\* and whenever power is lost (saveInFlight, writeNew, syncParent).
RecordOutlivesPower ==
  \A w \in Invocation : owed[w] = "owed" => dir.json = w /\ Readable(w)

\* The final name never holds a torn record, so a guard is never blocked for good by
\* inflight.json; only inflight.pending can be torn (writeNew before Rename).
FinalNameIsWhole == dir.json # None => Readable(dir.json)

\* On a file system that keeps the order of directory changes, the collection of a
\* command that was not finished never outlives its record: a cleanup that fails or is
\* interrupted by a power loss is taken up again (clearStoppedInFlight).
CleanupIsNotForgotten ==
  ordered => \A w \in dir.workspaces : owed[w] # "no" => dir.json = w

-----------------------------------------------------------------------------
\* The inductive invariant behind the three properties

GuardLabels == {"inspect", "removing", "syncRemoved", "unlinking", "syncUnlinked"}

SavingLabels == {"ready", "writing", "fsync", "syncCreated", "renaming"}

\* The labels from the end of a guard that passed to the rename: no record is in use.
ClearLabels == SavingLabels \cup {"collecting", "collected", "removeOwn", "syncOwn"}

NamedLabels == {"syncRenamed", "recorded", "waiting"}

Labels == GuardLabels \cup ClearLabels \cup NamedLabels \cup {"idle", "syncFinished"}

Directories ==
  [json : Invocation \cup {None}, pending : Invocation \cup {None},
   workspaces : SUBSET Invocation]

\* Every variable keeps its type, and what programs see is one of the directories that
\* may be found after a power loss.
RecordTypeOK ==
  /\ running \in Invocation \cup {None}
  /\ begun \subseteq Invocation
  /\ at \in Labels
  /\ guard \in {"none", "preflight", "prepare", "close"}
  /\ file \in {"json", "pending"}
  /\ dir \in disk /\ disk \subseteq Directories
  /\ content \in [Invocation -> {"empty", "written", "synced", "torn"}]
  /\ owed \in [Invocation -> {"no", "owed", "cleaning"}]
  /\ ordered \in BOOLEAN
  /\ running = None <=> at = "idle"

\* An invocation that has not begun is in no directory, and nothing is owed to it.
NewIsUnknown ==
  /\ running # None => running \in begun
  /\ \A d \in disk : d.json \in begun \cup {None} /\ d.workspaces \subseteq begun
  /\ \A w \in Invocation : w \notin begun => owed[w] = "no"

\* What the running wrapper knows of the directory at each of its labels.
DirKnown ==
  /\ at \in GuardLabels /\ file = "pending" => dir.json = None
  /\ at \in {"removing", "syncRemoved", "unlinking"} => dir[file] # None
  /\ at \in {"syncRemoved", "unlinking"} =>
       dir[file] \notin dir.workspaces /\ owed[dir[file]] # "owed"
  /\ at = "syncUnlinked" => dir[file] = None
  /\ at \in ClearLabels \cup {"syncFinished"} => dir.json = None
  /\ at \in NamedLabels => dir.json = running /\ content[running] = "synced"
  /\ at \in {"writing", "fsync", "syncCreated", "renaming"} => dir.pending = running
  /\ at = "fsync" => content[running] = "written"
  /\ at \in {"syncCreated", "renaming"} => content[running] = "synced"

\* Which callers' guards run before the invocation's own first record.
BeforeFirst ==
  \/ at \in GuardLabels /\ guard \in {"preflight", "prepare"}
  \/ at \in {"collecting", "collected"}

\* Until its rename no directory has the record of the running wrapper under the final
\* name, and until its gate nothing is owed to it; before the rename, and once it is
\* recorded, every directory is the one it sees.
DiskKnown ==
  /\ BeforeFirst => owed[running] = "no"
  /\ BeforeFirst \/ at \in SavingLabels => \A d \in disk : d.json # running
  /\ at \in {"renaming", "recorded", "waiting"} => disk = {dir}
  /\ at = "syncFinished" => \A d \in disk : d.json \in {None, running}

\* No two of them have records of different invocations under the final name: what a
\* power loss brings back is never another invocation's record.
OneReservation ==
  \A d, e \in disk : d.json # None /\ e.json # None => d.json = e.json

\* A command whose cleanup nobody has begun is on record in every directory that may be
\* found after a power loss, so that their names may be mixed at will.
OwedIsEverywhere ==
  \A w \in Invocation : owed[w] = "owed" =>
    content[w] = "synced" /\ \A d \in disk : d.json = w

\* Each of them has whole content under the final name.
WholeEverywhere == \A d \in disk : d.json # None => content[d.json] = "synced"

\* Each of them has the collection of an unfinished command only beside its record.
CleanupEverywhere == \A d \in disk : \A w \in d.workspaces : owed[w] # "no" => d.json = w

\* The conjunction the proofs show to be inductive.
DurableInvariant ==
  /\ RecordTypeOK
  /\ NewIsUnknown
  /\ DirKnown
  /\ DiskKnown
  /\ OneReservation
  /\ OwedIsEverywhere
  /\ WholeEverywhere
  /\ ordered => CleanupEverywhere

-----------------------------------------------------------------------------
\* The record as the reservation of SessionOwnership

\* A session is live from its gate until its wrapper finishes it or a guard that found
\* it stopped cleans up; the removal of a finished record counts once it is synchronized.
Owner == INSTANCE SessionOwnership WITH
  hold <- IF at = "syncFinished" THEN running ELSE dir.json,
  live <- {w \in Invocation : owed[w] = "owed"},
  settled <- {}

\* Through every crash and power loss inflight.json is a reservation of one session: it
\* is never replaced by another's and never lost while its session is live, and no
\* session is launched without it (saveInFlight, finishInFlight, clearStoppedInFlight).
RecordIsReservation == Owner!Spec

=============================================================================
