---------------------------- MODULE GuardProofs ----------------------------
(***************************************************************************)
(* What a guard that finds a record of an earlier invocation relies on.     *)
(*                                                                          *)
(* An inactive answer of processSessionActive means that the session has    *)
(* stopped, for every process table.  The argument follows a witness: a     *)
(* number ps has still to come to that names a member, or a listed number   *)
(* still to be asked for that names a member or nothing.                    *)
(*                                                                          *)
(* The record is there, and whole, after any crash and power loss.  The     *)
(* argument is about every directory that may be found on the disk.         *)
(***************************************************************************)
EXTENDS ProcessInventory, DurableRecord, FiniteSetTheorems, TLAPS

-----------------------------------------------------------------------------
\* ProcessInventory

LEMMA TypeStep == TypeOK /\ [Next]_vars => TypeOK'
<1> SUFFICES ASSUME TypeOK, [Next]_vars PROVE TypeOK'
  OBVIOUS
<1> USE DEF TypeOK, Processes, Members, Zombies
<1>1. CASE Observe
  <2>1. CASE List
    <3>1. attempt' \in 0..MaxAttempts
      BY <2>1, MaxAttemptsIsPositive DEF List
    <3>2. QED
      BY <2>1, <3>1 DEF List, Named
  <2>2. CASE ListFails \/ AskFails \/ EndList
    BY <2>2 DEF ListFails, AskFails, EndList, Return
  <2>3. ASSUME NEW p \in Pid, ReadProcess(p) PROVE TypeOK'
    BY <2>3 DEF ReadProcess, Named
  <2>4. ASSUME NEW p \in Pid, FindMember(p) \/ PassOther(p) \/ MissProcess(p)
        PROVE  TypeOK'
    BY <2>4 DEF FindMember, PassOther, MissProcess, Return
  <2>5. CASE ConcludeInactive \/ ConcludeChanged
    BY <2>5 DEF ConcludeInactive, ConcludeChanged, Return
  <2>6. QED
    BY <1>1, <2>1, <2>2, <2>3, <2>4, <2>5 DEF Observe
<1>2. CASE Machine
  <2>1. ASSUME NEW p \in Pid, NEW q \in Processes, Becomes(p, q) PROVE TypeOK'
    BY <2>1 DEF Becomes, observer
  <2>2. QED
    BY <1>2, <2>1 DEF Machine, Fork, Exit, Reap, LeaveSession
<1>3. CASE Returned \/ UNCHANGED vars
  BY <1>3 DEF Returned, vars, observer
<1>4. QED
  BY <1>1, <1>2, <1>3 DEF Next

\* A step of the machine keeps a witness.  When it takes one away and no member is hidden,
\* the member that remains is a witness itself.
LEMMA MachineKeepsWitness ==
  ASSUME TypeOK, WitnessRemains, Machine
  PROVE  WitnessRemains'
<1> USE DEF TypeOK, Processes, Members, Zombies
<1>1. PICK p \in Pid, q \in Processes : Becomes(p, q) /\ (q = "member" => ~Stopped)
  BY DEF Machine, Fork, Exit, Reap, LeaveSession, Stopped
<1> SUFFICES ASSUME pc \in {"reading", "asking"}, ~changed, ~blind', ~Stopped'
             PROVE  \E w \in Pid : Tells(w, table[w])'
  BY <1>1 DEF WitnessRemains, Becomes, observer
<1>2. ~blind /\ ~Stopped
  BY <1>1 DEF Becomes, Stopped
<1>3. PICK w \in Pid : Tells(w, table[w])
  BY <1>2 DEF WitnessRemains
<1>4. CASE w # p
  BY <1>1, <1>3, <1>4 DEF Becomes, observer, Tells
<1>5. CASE w = p /\ Tells(p, q)
  BY <1>1, <1>5 DEF Becomes, observer, Tells
<1>6. CASE w = p /\ ~Tells(p, q)
  <2>1. Hidden = {}
    BY <1>1, <1>3, <1>6 DEF Becomes
  <2>2. PICK m \in Pid : table'[m] = "member"
    BY DEF Stopped
  <2>3. m # p
    BY <1>1, <1>3, <1>6, <2>2 DEF Becomes, Tells
  <2>4. table[m] = "member" /\ m \in unread \cup unvisited
    BY <1>1, <2>1, <2>2, <2>3 DEF Becomes, Hidden
  <2>5. QED
    BY <1>1, <2>2, <2>4 DEF Becomes, observer, Tells
<1>7. QED
  BY <1>4, <1>5, <1>6

\* A step of the scan keeps it too: the witness is listed when ps comes to it, and passed
\* only when it shows itself.
LEMMA ObserveKeepsWitness ==
  ASSUME TypeOK, AnswerIsLast, WitnessRemains, Observe
  PROVE  WitnessRemains'
<1> USE DEF TypeOK, Processes, Members, Zombies
<1>1. CASE List
  BY <1>1 DEF List, WitnessRemains, Stopped, Tells
<1>2. ASSUME NEW p \in Pid, PassOther(p) \/ MissProcess(p)
      PROVE  WitnessRemains'
  BY <1>2 DEF PassOther, MissProcess, WitnessRemains, AnswerIsLast, Stopped, Tells
<1>3. CASE pc' \notin {"reading", "asking"}
  BY <1>3 DEF WitnessRemains
<1>4. CASE ListFails \/ AskFails \/ ConcludeInactive \/ ConcludeChanged
  BY <1>3, <1>4 DEF ListFails, AskFails, ConcludeInactive, ConcludeChanged, Return
<1>5. ASSUME NEW p \in Pid, FindMember(p)
      PROVE  WitnessRemains'
  BY <1>3, <1>5 DEF FindMember, Return
<1>6. ASSUME NEW p \in Pid, ReadProcess(p)
      PROVE  WitnessRemains'
  BY <1>6 DEF ReadProcess, WitnessRemains, Stopped, Tells, Named
<1>7. CASE EndList
  BY <1>7 DEF EndList, WitnessRemains, Stopped, Tells
<1>8. QED
  BY <1>1, <1>2, <1>4, <1>5, <1>6, <1>7 DEF Observe

LEMMA AnswerStep ==
  ASSUME TypeOK, AnswerIsLast, Next
  PROVE  AnswerIsLast'
BY DEF TypeOK, AnswerIsLast, Next, Observe, List, ListFails, FindMember, PassOther,
   MissProcess, AskFails, ConcludeInactive, ConcludeChanged, Return, Machine, Fork, Exit,
   Reap, LeaveSession, Becomes, observer, Returned, vars, ReadProcess, EndList

LEMMA InactiveStep ==
  ASSUME TypeOK, AnswerIsLast, WitnessRemains, InactiveMeansStopped, Next
  PROVE  InactiveMeansStopped'
<1> USE DEF TypeOK, Processes, Members, Zombies
<1>1. CASE Observe
  <2>1. CASE ConcludeInactive
    BY <2>1 DEF ConcludeInactive, Return, InactiveMeansStopped, WitnessRemains, Stopped,
       AnswerIsLast, Tells
  <2>2. CASE List \/ EndList \/ ConcludeChanged
    BY <2>2 DEF List, EndList, ConcludeChanged, Return, InactiveMeansStopped, AnswerIsLast
  <2>3. CASE ListFails \/ AskFails
    BY <2>3 DEF ListFails, AskFails, Return, InactiveMeansStopped
  <2>4. ASSUME NEW p \in Pid, FindMember(p) \/ PassOther(p) \/ MissProcess(p)
        PROVE  InactiveMeansStopped'
    BY <2>4 DEF FindMember, PassOther, MissProcess, Return, InactiveMeansStopped, Stopped
  <2>5. ASSUME NEW p \in Pid, ReadProcess(p) PROVE InactiveMeansStopped'
    BY <2>5 DEF ReadProcess, InactiveMeansStopped, AnswerIsLast
  <2>6. QED
    BY <1>1, <2>1, <2>2, <2>3, <2>4, <2>5 DEF Observe
<1>2. CASE Machine
  BY <1>2 DEF Machine, Fork, Exit, Reap, LeaveSession, Becomes, Tells, observer,
     InactiveMeansStopped, AnswerIsLast, Stopped
<1>3. CASE Returned
  BY <1>3 DEF Returned, vars, observer, InactiveMeansStopped, Stopped
<1>4. QED
  BY <1>1, <1>2, <1>3 DEF Next

\* Only a failure of ps or getsid holds the answer while nothing on the machine moves.
LEMMA QuietStep ==
  TypeOK /\ QuietIsSeen /\ QuietIsDecided /\ Next => QuietIsSeen' /\ QuietIsDecided'
<1> SUFFICES ASSUME TypeOK, QuietIsSeen, QuietIsDecided, Next
             PROVE  QuietIsSeen' /\ QuietIsDecided'
  OBVIOUS
<1> USE DEF QuietIsSeen, QuietIsDecided
<1>1. CASE List \/ EndList
  BY <1>1 DEF List, EndList, NoZombie, Named
<1>2. ASSUME NEW p \in Pid, ReadProcess(p) PROVE QuietIsSeen' /\ QuietIsDecided'
  BY <1>2 DEF ReadProcess, NoZombie, Named
<1>3. CASE ListFails \/ AskFails
  BY <1>3 DEF ListFails, AskFails, Return, NoZombie, Named
<1>4. ASSUME NEW p \in Pid, FindMember(p) \/ PassOther(p)
      PROVE  QuietIsSeen' /\ QuietIsDecided'
  BY <1>4 DEF FindMember, PassOther, Return, NoZombie, Named
<1>5. ASSUME NEW p \in Pid, MissProcess(p) PROVE QuietIsSeen' /\ QuietIsDecided'
  \* A listed number of a quiet machine is neither free nor a zombie.
  <2>1. ~quiet
    BY <1>5 DEF MissProcess, NoZombie, Named
  <2>2. QED
    BY <1>5, <2>1 DEF MissProcess
<1>6. CASE ConcludeInactive \/ ConcludeChanged
  BY <1>6 DEF ConcludeInactive, ConcludeChanged, Return, NoZombie, Named
<1>7. CASE Machine
  <2>1. ~quiet'
    BY <1>7 DEF Machine, Fork, Exit, Reap, LeaveSession, Becomes
  <2>2. QED
    BY <2>1
<1>8. CASE Returned
  BY <1>8 DEF Returned, vars, observer, NoZombie, Named
<1>9. QED
  BY <1>1, <1>2, <1>3, <1>4, <1>5, <1>6, <1>7, <1>8 DEF Next, Observe

LEMMA ScanStep == ScanInvariant /\ [Next]_vars => ScanInvariant'
<1> SUFFICES ASSUME ScanInvariant, [Next]_vars PROVE ScanInvariant'
  OBVIOUS
<1>1. CASE Next
  <2>1. TypeOK' /\ AnswerIsLast' /\ InactiveMeansStopped'
    BY <1>1, TypeStep, AnswerStep, InactiveStep DEF ScanInvariant
  <2>2. WitnessRemains'
    <3>1. CASE Observe
      BY <3>1, ObserveKeepsWitness DEF ScanInvariant
    <3>2. CASE Machine
      BY <3>2, MachineKeepsWitness DEF ScanInvariant
    <3>3. CASE Returned
      BY <3>3 DEF Returned, vars, observer, ScanInvariant, WitnessRemains, Stopped, Tells
    <3>4. QED
      BY <1>1, <3>1, <3>2, <3>3 DEF Next
  <2>3. QuietIsSeen' /\ QuietIsDecided'
    BY <1>1, QuietStep DEF ScanInvariant
  <2>4. AttemptIsLeft'
    BY <1>1 DEF ScanInvariant, AttemptIsLeft, Next, Observe, List, ListFails, FindMember,
       PassOther, MissProcess, AskFails, ConcludeInactive, ConcludeChanged, Return, Machine,
       Fork, Exit, Reap, LeaveSession, Becomes, observer, Returned, vars, ReadProcess,
       EndList
  <2>5. QED
    BY <2>1, <2>2, <2>3, <2>4 DEF ScanInvariant
<1>2. CASE UNCHANGED vars
  BY <1>2 DEF vars, observer, ScanInvariant, TypeOK, AnswerIsLast, WitnessRemains,
     InactiveMeansStopped, Stopped, QuietIsSeen, QuietIsDecided, NoZombie, Named,
     AttemptIsLeft, Tells
<1>3. QED
  BY <1>1, <1>2

\* The inductive invariant holds of every observation of every process table.
THEOREM ScanAlways == Spec => []ScanInvariant
<1>1. Init => ScanInvariant
  <2>1. 0 \in 0..MaxAttempts /\ 0 < MaxAttempts
    BY MaxAttemptsIsPositive
  <2>2. QED
    BY <2>1 DEF Init, ScanInvariant, TypeOK, AnswerIsLast, WitnessRemains,
       InactiveMeansStopped, QuietIsSeen, QuietIsDecided, Processes, Members, Zombies,
       NoZombie, Named, AttemptIsLeft
<1>2. QED
  BY <1>1, ScanStep, PTL DEF Spec

\* An inactive answer is never given for a session with a live process, however ps and
\* the questions interleave with its forks and exits, unless the session was lost from
\* view: a member is hidden behind the scan, and one ahead of it was reaped before ps came
\* to it, left the session, or passed its listed number on (processSessionActive).
THEOREM InactiveAlways == Spec => []InactiveMeansStopped
<1>1. ScanInvariant => InactiveMeansStopped
  BY DEF ScanInvariant
<1>2. QED
  BY <1>1, ScanAlways, PTL

\* On a machine where nothing changes the session is decided, active or inactive, unless
\* ps or getsid fails (processSessionActive).
THEOREM QuietAlways == Spec => []QuietIsDecided
<1>1. ScanInvariant => QuietIsDecided
  BY DEF ScanInvariant
<1>2. QED
  BY <1>1, ScanAlways, PTL

\* Steps of one observation, and of the observations that may still follow.
Observation == 2 * Cardinality(Pid) + 3
Later == (MaxAttempts - attempt) * Observation

LEMMA ProductGrows ==
  ASSUME NEW k \in Nat, NEW n \in Nat
  PROVE  k * n \in Nat /\ (k + 1) * n = k * n + n
OBVIOUS

\* A set of process numbers is finite, and loses one with each that is read or asked for.
LEMMA ListedFacts ==
  ASSUME NEW S \in SUBSET Pid
  PROVE  /\ Cardinality(S) \in Nat /\ Cardinality(S) <= Cardinality(Pid)
         /\ Cardinality(Pid) \in Nat /\ Observation \in Nat
         /\ \A p \in S : Cardinality(S \ {p}) = Cardinality(S) - 1
<1>1. IsFiniteSet(S) /\ Cardinality(S) <= Cardinality(Pid)
  BY PidsAreFinite, FS_Subset
<1>2. Cardinality(S) \in Nat /\ Cardinality(Pid) \in Nat
  BY <1>1, PidsAreFinite, FS_CardinalityType
<1>3. \A p \in S : Cardinality(S \ {p}) = Cardinality(S) - 1
  BY <1>1, FS_RemoveElement, Zenon
<1>4. QED
  BY <1>1, <1>2, <1>3 DEF Observation

Lowers == StepsLeft' \in Nat /\ StepsLeft' < StepsLeft

\* Each step of the scan lowers the measure.
LEMMA ObserveLowers ==
  ASSUME TypeOK, AttemptIsLeft, Observe
  PROVE  Lowers
<1>1. /\ Cardinality(unvisited) \in Nat /\ Cardinality(Pid) \in Nat
      /\ Cardinality(unread) \in Nat
      /\ Cardinality(unvisited) <= Cardinality(Pid)
      /\ Observation \in Nat /\ Observation = 2 * Cardinality(Pid) + 3
  BY ListedFacts DEF TypeOK, Observation
<1>2. /\ attempt \in Nat /\ MaxAttempts \in Nat /\ attempt <= MaxAttempts
      /\ MaxAttempts - attempt \in Nat /\ Later \in Nat
  <2>1. attempt \in Nat /\ MaxAttempts \in Nat /\ attempt <= MaxAttempts
    BY MaxAttemptsIsPositive DEF TypeOK
  <2>2. MaxAttempts - attempt \in Nat
    BY <2>1
  <2>3. QED
    BY <1>1, <2>1, <2>2, ProductGrows DEF Later
<1>3. /\ pc = "listing" => StepsLeft = Later
      /\ pc = "reading" => StepsLeft = Later + Cardinality(unread) + Cardinality(Pid) + 2
      /\ pc = "asking" => StepsLeft = Later + Cardinality(unvisited) + 1
      /\ pc' = "listing" => StepsLeft' = Later'
      /\ pc' = "reading" =>
           StepsLeft' = Later' + Cardinality(unread') + Cardinality(Pid) + 2
      /\ pc' = "asking" => StepsLeft' = Later' + Cardinality(unvisited') + 1
      /\ pc' = "returned" => StepsLeft' = 0
  BY DEF StepsLeft, Later, Observation
<1>4. pc = "listing" => Later = (MaxAttempts - (attempt + 1)) * Observation + Observation
                        /\ (MaxAttempts - (attempt + 1)) * Observation \in Nat
  <2> SUFFICES ASSUME pc = "listing"
               PROVE  /\ Later = (MaxAttempts - (attempt + 1)) * Observation + Observation
                      /\ (MaxAttempts - (attempt + 1)) * Observation \in Nat
    OBVIOUS
  <2> DEFINE k == MaxAttempts - (attempt + 1)
  <2>1. k \in Nat /\ k + 1 = MaxAttempts - attempt
    BY <1>2 DEF AttemptIsLeft
  <2>2. (k + 1) * Observation = k * Observation + Observation /\ k * Observation \in Nat
    <3> HIDE DEF k
    <3>1. QED
      BY <1>1, <2>1, ProductGrows
  <2>3. QED
    BY <2>1, <2>2 DEF Later
<1> HIDE DEF Observation
<1> USE DEF Lowers
<1>5. CASE List
  <2>1. pc = "listing" /\ pc' = "reading" /\ unread' = Pid /\ attempt' = attempt + 1
    BY <1>5 DEF List
  <2>2. Later' = (MaxAttempts - (attempt + 1)) * Observation
    BY <2>1 DEF Later, Observation
  <2>3. QED
    BY <1>1, <1>3, <1>4, <2>1, <2>2
<1>6. ASSUME NEW p \in Pid, ReadProcess(p) PROVE Lowers
  <2>1. /\ pc = "reading" /\ pc' = "reading" /\ p \in unread
        /\ unread' = unread \ {p} /\ attempt' = attempt
    BY <1>6 DEF ReadProcess
  <2>2. Cardinality(unread') = Cardinality(unread) - 1 /\ Cardinality(unread') \in Nat
    <3>1. unread \in SUBSET Pid /\ unread' \in SUBSET Pid
      BY <2>1 DEF TypeOK
    <3>2. QED
      BY <2>1, <3>1, ListedFacts
  <2>3. Later' = Later
    BY <2>1 DEF Later, Observation
  <2>4. QED
    BY <1>1, <1>2, <1>3, <2>1, <2>2, <2>3
<1>7. CASE EndList
  <2>1. /\ pc = "reading" /\ pc' = "asking" /\ unvisited' = unvisited /\ attempt' = attempt
    BY <1>7 DEF EndList
  <2>2. Later' = Later /\ Cardinality(unvisited') = Cardinality(unvisited)
    BY <2>1 DEF Later, Observation
  <2>3. QED
    BY <1>1, <1>2, <1>3, <2>1, <2>2
<1>8. CASE ListFails \/ AskFails \/ ConcludeInactive
  BY <1>1, <1>2, <1>3, <1>4, <1>8 DEF ListFails, AskFails, ConcludeInactive, Return
<1>9. ASSUME NEW p \in Pid, FindMember(p) PROVE Lowers
  BY <1>1, <1>2, <1>3, <1>9 DEF FindMember, Return
<1>10. ASSUME NEW p \in Pid, PassOther(p) \/ MissProcess(p) PROVE Lowers
  <2>1. /\ pc = "asking" /\ pc' = "asking" /\ p \in unvisited
        /\ unvisited' = unvisited \ {p} /\ attempt' = attempt
    BY <1>10 DEF PassOther, MissProcess
  <2>2. Cardinality(unvisited') = Cardinality(unvisited) - 1
    BY <2>1, ListedFacts DEF TypeOK
  <2>3. Later' = Later
    BY <2>1 DEF Later, Observation
  <2>4. QED
    BY <1>1, <1>2, <1>3, <2>1, <2>2, <2>3
<1>11. CASE ConcludeChanged
  <2>1. pc = "asking" /\ Later' = Later /\ (pc' = "listing" \/ pc' = "returned")
    BY <1>11 DEF ConcludeChanged, Return, Later, Observation
  <2>2. QED
    BY <1>1, <1>2, <1>3, <2>1
<1>12. QED
  BY <1>5, <1>6, <1>7, <1>8, <1>9, <1>10, <1>11 DEF Observe

\* The scan only moves towards its answer, however processes come and go
\* (processSessionActive).
THEOREM ScanAdvancesAlways == Spec => ScanAdvances
<1>1. ScanInvariant /\ [Next]_vars => [Lowers \/ UNCHANGED observer]_vars
  <2>1. Machine => UNCHANGED observer
    BY DEF Machine, Fork, Exit, Reap, LeaveSession, Becomes
  <2>2. Returned => UNCHANGED vars
    BY DEF Returned
  <2>3. QED
    BY <2>1, <2>2, ObserveLowers DEF Next, ScanInvariant
<1>2. QED
  BY <1>1, ScanAlways, PTL DEF Spec, ScanAdvances, Lowers

-----------------------------------------------------------------------------
\* DurableRecord

\* The kinds of step: one that at most synchronizes the directory, one that removes a
\* collection, and those that change something else.
Settles ==
  /\ dir' = dir /\ disk' \in {disk, {dir}}
  /\ UNCHANGED <<content, owed, ordered>>

Clears ==
  /\ \E w \in Invocation : dir' = [dir EXCEPT !.workspaces = @ \ {w}]
  /\ dir' \in disk' /\ disk' \subseteq disk \cup {dir'}
  /\ UNCHANGED <<content, owed, ordered>>

\* What is removed is a name or a collection of the directory.
LEMMA GuardedRecord ==
  ASSUME RecordTypeOK
  PROVE  /\ dir \in Directories
         /\ dir[file] \in Invocation \cup {None}
         /\ [dir EXCEPT ![file] = None] \in Directories
<1>1. dir \in Directories
  BY DEF RecordTypeOK
<1>2. CASE file = "json"
  BY <1>1, <1>2 DEF Directories
<1>3. CASE file = "pending"
  BY <1>1, <1>3 DEF Directories
<1>4. QED
  BY <1>1, <1>2, <1>3 DEF RecordTypeOK

LEMMA StepKinds ==
  ASSUME RecordTypeOK, [RecordNext]_recordVars
  PROVE  \/ Settles \/ Clears \/ RemoveCollection \/ RemoveRecord \/ Collect
         \/ CreatePending \/ WritePending \/ SyncContent \/ RenamePending
         \/ OpenGate \/ FinishInFlight \/ PowerLoss
<1>1. ASSUME NEW w \in Invocation, Begin(w) PROVE Settles
  BY <1>1 DEF Begin, Settles
<1>2. CASE InspectEmpty \/ InspectStopped \/ InspectHolds \/ RemovalFails \/ BeginPrepare
  BY <1>2 DEF InspectEmpty, InspectStopped, InspectHolds, RemovalFails, BeginPrepare, Settles
<1>3. CASE SaveFails \/ FinishHolds \/ Close \/ Crash \/ UNCHANGED recordVars
  BY <1>3 DEF SaveFails, FinishHolds, Close, Crash, recordVars, Settles
<1>4. CASE SyncRemoved \/ SyncUnlinked \/ SyncCreated \/ SyncRenamed \/ SyncFinished \/ SyncOwn
  BY <1>4 DEF SyncRemoved, SyncUnlinked, SyncCreated, SyncRenamed, SyncFinished, SyncOwn,
     syncParent, Settles
<1>5. CASE CollectionAbandoned
  <2>1. running \in Invocation
    BY <1>5 DEF CollectionAbandoned, RecordTypeOK
  <2>2. QED
    BY <1>5, <2>1 DEF CollectionAbandoned, Clears
<1>6. CASE RemoveOwn
  <2>1. running \in Invocation
    BY <1>6 DEF RemoveOwn, RecordTypeOK
  <2>2. QED
    BY <1>6, <2>1 DEF RemoveOwn, Change, Clears, Settles
<1>7. QED
  BY <1>1, <1>2, <1>3, <1>4, <1>5, <1>6
     DEF RecordNext, Guarding, Preparing, Saving, Finishing, Closing

\* What a power loss may leave has names and collections of the directories before.
LEMMA SurvivorsMixed ==
  ASSUME RecordTypeOK, NEW e \in Survivors
  PROVE  /\ e \in Directories
         /\ \E d \in disk : d.json = e.json
         /\ \A w \in e.workspaces : \E d \in disk : w \in d.workspaces
         /\ ordered => e \in disk
<1>1. CASE ordered
  BY <1>1 DEF Survivors, RecordTypeOK
<1>2. CASE ~ordered
  <2>1. PICK d1 \in disk, d2 \in disk, W \in SUBSET UNION {d.workspaces : d \in disk} :
          e = [json |-> d1.json, pending |-> d2.pending, workspaces |-> W]
    BY <1>2 DEF Survivors
  <2>2. d1 \in Directories /\ d2 \in Directories /\ W \subseteq Invocation
    BY <2>1 DEF RecordTypeOK, Directories
  <2>3. QED
    BY <1>2, <2>1, <2>2 DEF Directories
<1>3. QED
  BY <1>1, <1>2

\* Where the wrapper goes: every caller of a guard has a label to return to, and only a
\* beginning changes which invocation runs.
LEMMA WrapperMoves ==
  ASSUME RecordTypeOK, [RecordNext]_recordVars
  PROVE  /\ begun \subseteq begun' /\ begun' \subseteq Invocation
         /\ running' \in {running, None} \cup begun'
         /\ at' \in Labels /\ (running' = None <=> at' = "idle")
         /\ guard' \in {"none", "preflight", "prepare", "close"}
         /\ file' \in {"json", "pending"}
<1> USE DEF RecordTypeOK, Labels, GuardLabels, ClearLabels, SavingLabels, NamedLabels,
        NextRecord, GuardPasses, GuardHolds, EnterGuard, Leave, Goto
<1>1. CASE \E w \in Invocation : Begin(w)
  BY <1>1, NoneIsNoInvocation DEF Begin
<1>2. CASE InspectEmpty \/ InspectStopped \/ InspectHolds
  BY <1>2 DEF InspectEmpty, InspectStopped, InspectHolds
<1>3. CASE RemoveCollection \/ SyncRemoved \/ RemoveRecord \/ SyncUnlinked \/ RemovalFails
  BY <1>3 DEF RemoveCollection, SyncRemoved, RemoveRecord, SyncUnlinked, RemovalFails
<1>4. CASE Preparing \/ Closing
  BY <1>4 DEF Preparing, Collect, CollectionAbandoned, BeginPrepare, Closing, Close,
     RemoveOwn, SyncOwn
<1>5. CASE Saving
  BY <1>5 DEF Saving, CreatePending, WritePending, SyncContent, SyncCreated,
     RenamePending, SyncRenamed, SaveFails
<1>6. CASE Finishing \/ Crash \/ PowerLoss
  BY <1>6 DEF Finishing, OpenGate, FinishInFlight, SyncFinished, FinishHolds, Crash, PowerLoss
<1>7. CASE UNCHANGED recordVars
  BY <1>7 DEF recordVars, wrapperVars
<1>8. QED
  BY <1>1, <1>2, <1>3, <1>4, <1>5, <1>6, <1>7 DEF RecordNext, Guarding

LEMMA RecordTypeStep == RecordTypeOK /\ [RecordNext]_recordVars => RecordTypeOK'
<1> SUFFICES ASSUME RecordTypeOK, [RecordNext]_recordVars PROVE RecordTypeOK'
  OBVIOUS
<1>1. /\ running' \in Invocation \cup {None} /\ begun' \subseteq Invocation
      /\ at' \in Labels /\ (running' = None <=> at' = "idle")
      /\ guard' \in {"none", "preflight", "prepare", "close"}
      /\ file' \in {"json", "pending"}
  BY WrapperMoves DEF RecordTypeOK
<1>2. /\ dir' \in disk' /\ disk' \subseteq Directories
      /\ content' \in [Invocation -> {"empty", "written", "synced", "torn"}]
      /\ owed' \in [Invocation -> {"no", "owed", "cleaning"}]
      /\ ordered' \in BOOLEAN
  <2> USE GuardedRecord DEF RecordTypeOK
  <2>1. CASE Settles
    BY <2>1 DEF Settles
  <2>2. CASE Clears
    BY <2>2 DEF Clears, Directories
  <2>3. CASE RemoveCollection
    <3>1. dir' \in disk' /\ disk' \subseteq disk \cup {dir'}
      BY <2>3 DEF RemoveCollection, Change
    <3>2. dir' = dir \/ dir' = [dir EXCEPT !.workspaces = @ \ {dir[file]}]
      BY <2>3 DEF RemoveCollection, Change
    <3>3. dir' \in Directories
      BY <3>2 DEF Directories
    <3>4. owed' \in [Invocation -> {"no", "owed", "cleaning"}]
      BY <2>3 DEF RemoveCollection
    <3>5. QED
      BY <2>3, <3>1, <3>3, <3>4 DEF RemoveCollection
  <2>4. CASE RemoveRecord
    BY <2>4 DEF RemoveRecord, Change
  <2>5. CASE Collect
    BY <2>5 DEF Collect, Change, Directories
  <2>6. CASE CreatePending \/ RenamePending
    <3>1. running \in Invocation
      BY <2>6 DEF CreatePending, RenamePending
    <3>2. dir' \in Directories
      BY <2>6, <3>1 DEF CreatePending, RenamePending, Change, Directories
    <3>3. QED
      BY <2>6, <3>1, <3>2 DEF CreatePending, RenamePending, Change
  <2>7. CASE WritePending \/ SyncContent
    BY <2>7 DEF WritePending, SyncContent
  <2>8. CASE OpenGate
    BY <2>8 DEF OpenGate
  <2>9. CASE FinishInFlight
    BY <2>9 DEF FinishInFlight, Change, Directories
  <2>10. CASE PowerLoss
    BY <2>10, SurvivorsMixed DEF PowerLoss
  <2>11. QED
    BY StepKinds, <2>1, <2>2, <2>3, <2>4, <2>5, <2>6, <2>7, <2>8, <2>9, <2>10
<1>3. QED
  BY <1>1, <1>2 DEF RecordTypeOK

LEMMA NewStep ==
  ASSUME RecordTypeOK, NewIsUnknown, [RecordNext]_recordVars
  PROVE  NewIsUnknown'
<1> DEFINE Known(d) == d.json \in begun \cup {None} /\ d.workspaces \subseteq begun
<1>1. \A d \in disk' : d.json \in begun' \cup {None} /\ d.workspaces \subseteq begun'
  <2>1. \A d \in disk : Known(d)
    BY DEF NewIsUnknown
  <2>2. dir \in disk /\ dir \in Directories
    BY DEF RecordTypeOK
  <2>3. SUFFICES \A d \in disk' : Known(d)
    BY WrapperMoves
  <2> USE <2>1, <2>2
  <2>4. CASE Settles \/ WritePending \/ SyncContent \/ OpenGate
    BY <2>4 DEF Settles, WritePending, SyncContent, OpenGate
  <2>5. CASE Clears
    BY <2>5 DEF Clears, Directories
  <2>6. CASE RemoveCollection
    <3>1. dir' = dir \/ dir' = [dir EXCEPT !.workspaces = @ \ {dir[file]}]
      BY <2>6 DEF RemoveCollection, Change
    <3>2. Known(dir')
      BY <3>1 DEF Directories
    <3>3. QED
      BY <2>6, <3>2 DEF RemoveCollection, Change
  <2>7. CASE RemoveRecord
    <3>1. Known([dir EXCEPT ![file] = None])
      BY DEF Directories, RecordTypeOK
    <3>2. QED
      BY <2>7, <3>1 DEF RemoveRecord, Change
  <2>8. CASE Collect \/ CreatePending \/ RenamePending
    <3>1. running \in begun
      BY <2>8 DEF Collect, CreatePending, RenamePending, RecordTypeOK, NewIsUnknown
    <3>2. Known(dir')
      BY <2>8, <3>1 DEF Collect, CreatePending, RenamePending, Change, Directories
    <3>3. QED
      BY <2>8, <3>2 DEF Collect, CreatePending, RenamePending, Change
  <2>9. CASE FinishInFlight
    BY <2>9 DEF FinishInFlight, Change, Directories
  <2>10. CASE PowerLoss
    BY <2>10, SurvivorsMixed DEF PowerLoss
  <2>11. QED
    BY StepKinds, <2>4, <2>5, <2>6, <2>7, <2>8, <2>9, <2>10
<1>2. \A w \in Invocation : w \notin begun => owed'[w] = "no"
  <2>1. CASE RemoveCollection
    BY <2>1, GuardedRecord DEF RemoveCollection, RecordTypeOK, NewIsUnknown
  <2>2. CASE OpenGate
    <3>1. running \in begun
      BY <2>2 DEF OpenGate, RecordTypeOK, NewIsUnknown
    <3>2. QED
      BY <2>2, <3>1 DEF OpenGate, RecordTypeOK, NewIsUnknown
  <2>3. CASE FinishInFlight
    BY <2>3 DEF FinishInFlight, RecordTypeOK, NewIsUnknown
  <2>4. CASE Settles \/ Clears \/ RemoveRecord \/ Collect \/ CreatePending
    BY <2>4 DEF Settles, Clears, RemoveRecord, Collect, CreatePending, NewIsUnknown
  <2>5. CASE WritePending \/ SyncContent \/ RenamePending \/ PowerLoss
    BY <2>5 DEF WritePending, SyncContent, RenamePending, PowerLoss, NewIsUnknown
  <2>6. QED
    BY StepKinds, <2>1, <2>2, <2>3, <2>4, <2>5
<1>3. QED
  BY <1>1, <1>2, WrapperMoves DEF NewIsUnknown

\* Each label's knowledge comes from the step that reached it: only the running wrapper
\* changes the directory, and a fault leads to a label that knows nothing.
LEMMA DirStep ==
  ASSUME RecordTypeOK, DirKnown, OwedIsEverywhere, [RecordNext]_recordVars
  PROVE  DirKnown'
<1> USE DEF DirKnown, GuardLabels, ClearLabels, SavingLabels, NamedLabels
<1>1. dir \in Directories /\ dir[file] \in Invocation \cup {None} /\ dir \in disk
  BY GuardedRecord DEF RecordTypeOK
<1>2. ASSUME at' = "inspect", file' = "json" PROVE DirKnown'
  BY <1>2
<1>3. ASSUME at' = "idle" PROVE DirKnown'
  BY <1>3
<1>4. CASE \E w \in Invocation : Begin(w)
  BY <1>2, <1>4 DEF Begin
<1>5. CASE InspectHolds \/ RemovalFails
  BY <1>2, <1>3, <1>5 DEF InspectHolds, RemovalFails, GuardHolds, EnterGuard, Leave
<1>6. CASE SaveFails \/ FinishHolds \/ Close \/ BeginPrepare
  BY <1>2, <1>6 DEF SaveFails, FinishHolds, Close, BeginPrepare, EnterGuard
<1>7. CASE CollectionAbandoned \/ SyncOwn \/ Crash \/ PowerLoss
  BY <1>3, <1>7 DEF CollectionAbandoned, SyncOwn, Crash, PowerLoss, Leave
<1>8. CASE InspectEmpty \/ SyncUnlinked
  <2>1. dir[file] = None /\ dir' = dir /\ NextRecord
    BY <1>8 DEF InspectEmpty, SyncUnlinked, syncParent
  <2>2. CASE file = "json"
    BY <2>1, <2>2 DEF NextRecord
  <2>3. CASE file = "pending"
    BY <1>8, <2>1, <2>3 DEF InspectEmpty, SyncUnlinked, NextRecord, GuardPasses, Goto
  <2>4. QED
    BY <2>2, <2>3 DEF RecordTypeOK
<1>9. CASE InspectStopped \/ SyncRemoved
  BY <1>9 DEF InspectStopped, SyncRemoved, syncParent, Goto
<1>10. CASE RemoveCollection
  <2>1. dir[file] \in Invocation /\ file' = file
    BY <1>1, <1>10 DEF RemoveCollection, Goto
  <2>2. dir' = dir \/ dir' = [dir EXCEPT !.workspaces = @ \ {dir[file]}]
    BY <1>10 DEF RemoveCollection, Change
  <2>3. dir'.json = dir.json /\ dir'[file] = dir[file]
    BY <2>2, <1>1 DEF Directories, RecordTypeOK
  <2>4. dir[file] \notin dir'.workspaces
    BY <1>1, <1>10 DEF RemoveCollection, Change, Directories
  <2>5. owed'[dir[file]] # "owed"
    BY <1>10, <2>1 DEF RemoveCollection, RecordTypeOK
  <2>6. QED
    BY <1>10, <2>1, <2>3, <2>4, <2>5 DEF RemoveCollection, Goto
<1>11. CASE RemoveRecord
  <2>1. file' = file /\ at' = "syncUnlinked"
    BY <1>11 DEF RemoveRecord, Goto
  <2>2. dir'[file] = None /\ (file = "pending" => dir'.json = dir.json)
    BY <1>1, <1>11 DEF RemoveRecord, Change, Directories, RecordTypeOK
  <2>3. QED
    BY <1>11, <2>1, <2>2 DEF RemoveRecord
<1>12. CASE Collect
  BY <1>1, <1>12 DEF Collect, Change, Goto, Directories
<1>13. CASE RemoveOwn
  BY <1>1, <1>3, <1>13 DEF RemoveOwn, Change, Goto, Leave, Directories
<1>14. CASE CreatePending \/ RenamePending \/ FinishInFlight
  BY <1>1, <1>14 DEF CreatePending, RenamePending, FinishInFlight, Change, Goto, Directories
<1>15. CASE WritePending \/ SyncContent
  <2>1. running \in Invocation
    BY <1>15 DEF WritePending, SyncContent, RecordTypeOK
  <2>2. QED
    BY <1>15, <2>1 DEF WritePending, SyncContent, Goto, RecordTypeOK
<1>16. CASE SyncCreated \/ SyncRenamed \/ SyncFinished
  BY <1>16 DEF SyncCreated, SyncRenamed, SyncFinished, syncParent, Goto
<1>17. CASE OpenGate
  BY <1>17 DEF OpenGate, Goto
<1>18. CASE UNCHANGED recordVars
  BY <1>18 DEF recordVars, wrapperVars
<1>19. QED
  BY <1>4, <1>5, <1>6, <1>7, <1>8, <1>9, <1>10, <1>11, <1>12, <1>13, <1>14, <1>15, <1>16,
     <1>17, <1>18 DEF RecordNext, Guarding, Preparing, Saving, Finishing, Closing

\* Before the rename no directory has the record, since an invocation begins unknown and
\* names only inflight.pending; once synchronized, every directory is the one seen.
LEMMA DiskStep ==
  ASSUME RecordTypeOK, NewIsUnknown, DirKnown, DiskKnown, [RecordNext]_recordVars
  PROVE  DiskKnown'
<1> USE DEF DiskKnown, BeforeFirst, GuardLabels, SavingLabels
<1>1. dir \in Directories /\ dir[file] \in Invocation \cup {None} /\ dir \in disk
  BY GuardedRecord DEF RecordTypeOK
<1>2. ASSUME at' = "inspect", guard' = "close" PROVE DiskKnown'
  BY <1>2
<1>3. ASSUME at' = "idle" PROVE DiskKnown'
  BY <1>3
<1>4. ASSUME NEW w \in Invocation, Begin(w) PROVE DiskKnown'
  BY <1>4, NoneIsNoInvocation DEF Begin, NewIsUnknown
<1>5. CASE InspectHolds \/ RemovalFails
  BY <1>2, <1>3, <1>5 DEF InspectHolds, RemovalFails, GuardHolds, EnterGuard, Leave
<1>6. CASE SaveFails \/ FinishHolds \/ Close
  BY <1>2, <1>6 DEF SaveFails, FinishHolds, Close, EnterGuard
<1>7. CASE CollectionAbandoned \/ SyncOwn \/ Crash \/ PowerLoss
  BY <1>3, <1>7 DEF CollectionAbandoned, SyncOwn, Crash, PowerLoss, Leave
<1>8. CASE InspectEmpty \/ SyncUnlinked
  BY <1>1, <1>8 DEF InspectEmpty, SyncUnlinked, syncParent, NextRecord, GuardPasses, Goto
<1>9. CASE InspectStopped \/ SyncRemoved \/ BeginPrepare
  BY <1>1, <1>9 DEF InspectStopped, SyncRemoved, syncParent, BeginPrepare, EnterGuard, Goto
<1>10. CASE RemoveCollection
  <2>1. at' \in {"syncRemoved", "unlinking"} /\ running' = running /\ guard' = guard
    BY <1>10 DEF RemoveCollection, Goto
  <2>2. dir' = dir \/ dir' = [dir EXCEPT !.workspaces = @ \ {dir[file]}]
    BY <1>10 DEF RemoveCollection, Change
  <2>3. dir'.json = dir.json /\ disk' \subseteq disk \cup {dir'}
    BY <1>1, <1>10, <2>2 DEF RemoveCollection, Change, Directories
  <2>4. running \in Invocation
    BY <1>10 DEF RecordTypeOK, RemoveCollection
  <2>5. owed[running] = "no" => owed'[running] = "no"
    BY <1>10, <2>4 DEF RemoveCollection, RecordTypeOK
  <2>6. QED
    BY <1>1, <1>10, <2>1, <2>3, <2>5 DEF RemoveCollection
<1>11. CASE RemoveRecord
  <2>1. dir'.json \in {dir.json, None} /\ disk' = disk \cup {dir'}
    BY <1>1, <1>11 DEF RemoveRecord, Change, Directories, RecordTypeOK
  <2>2. QED
    BY <1>1, <1>11, <2>1 DEF RemoveRecord, Goto, RecordTypeOK
<1>12. CASE Collect
  BY <1>1, <1>12 DEF Collect, Change, Goto, Directories
<1>13. CASE RemoveOwn
  BY <1>3, <1>13 DEF RemoveOwn, Goto, Leave
<1>14. CASE CreatePending
  BY <1>1, <1>14 DEF CreatePending, Change, Goto, Directories
<1>15. CASE RenamePending
  BY <1>15 DEF RenamePending, Goto
<1>16. CASE FinishInFlight
  <2>1. dir'.json = None /\ disk' = disk \cup {dir'} /\ disk = {dir} /\ dir.json = running
    BY <1>1, <1>16 DEF FinishInFlight, Change, Directories
  <2>2. QED
    BY <1>16, <2>1 DEF FinishInFlight, Goto
<1>17. CASE WritePending \/ SyncContent
  BY <1>17 DEF WritePending, SyncContent, Goto
<1>18. CASE SyncCreated \/ SyncRenamed \/ SyncFinished
  BY <1>1, <1>18 DEF SyncCreated, SyncRenamed, SyncFinished, syncParent, Goto, DirKnown,
     RecordTypeOK
<1>19. CASE OpenGate
  BY <1>19 DEF OpenGate, Goto
<1>20. CASE UNCHANGED recordVars
  BY <1>20 DEF recordVars, wrapperVars
<1>21. QED
  BY <1>4, <1>5, <1>6, <1>7, <1>8, <1>9, <1>10, <1>11, <1>12, <1>13, <1>14, <1>15, <1>16,
     <1>17, <1>18, <1>19, <1>20 DEF RecordNext, Guarding, Preparing, Saving, Finishing, Closing

\* A rename follows the synchronization of the pending record, which also settles what
\* became of the records before; a power loss then brings back at most this one.
LEMMA OneStep ==
  ASSUME RecordTypeOK, DirKnown, DiskKnown, OneReservation, [RecordNext]_recordVars
  PROVE  OneReservation'
<1> USE DEF OneReservation
<1>1. dir \in Directories /\ dir \in disk
  BY DEF RecordTypeOK
<1>2. ASSUME dir'.json \in {dir.json, None}, disk' \subseteq disk \cup {dir'}
      PROVE  OneReservation'
  <2>1. \A d \in disk' : d.json # None => \E e \in disk : e.json = d.json
    BY <1>1, <1>2
  <2>2. QED
    BY <2>1
<1>3. CASE Settles \/ WritePending \/ SyncContent \/ OpenGate
  BY <1>1, <1>3 DEF Settles, WritePending, SyncContent, OpenGate
<1>4. CASE Clears \/ Collect \/ CreatePending \/ FinishInFlight
  <2>1. dir'.json \in {dir.json, None} /\ disk' \subseteq disk \cup {dir'}
    BY <1>1, <1>4 DEF Clears, Collect, CreatePending, FinishInFlight, Change, Directories
  <2>2. QED
    BY <1>2, <2>1
<1>5. CASE RemoveCollection
  <2>1. dir' = dir \/ dir' = [dir EXCEPT !.workspaces = @ \ {dir[file]}]
    BY <1>5 DEF RemoveCollection, Change
  <2>2. dir'.json = dir.json /\ disk' \subseteq disk \cup {dir'}
    BY <1>1, <1>5, <2>1 DEF RemoveCollection, Change, Directories
  <2>3. QED
    BY <1>2, <2>2
<1>6. CASE RemoveRecord
  <2>1. dir'.json \in {dir.json, None} /\ disk' = disk \cup {dir'}
    BY <1>1, <1>6 DEF RemoveRecord, Change, Directories, RecordTypeOK
  <2>2. QED
    BY <1>2, <2>1
<1>7. CASE RenamePending
  <2>1. disk = {dir} /\ dir.json = None
    BY <1>7 DEF RenamePending, DiskKnown, DirKnown, ClearLabels, SavingLabels
  <2>2. disk' = {dir, dir'}
    BY <1>7, <2>1 DEF RenamePending, Change
  <2>3. QED
    BY <2>1, <2>2
<1>8. CASE PowerLoss
  BY <1>8 DEF PowerLoss
<1>9. QED
  BY StepKinds, <1>3, <1>4, <1>5, <1>6, <1>7, <1>8

LEMMA OwedStep ==
  ASSUME RecordTypeOK, DirKnown, DiskKnown, OwedIsEverywhere, [RecordNext]_recordVars
  PROVE  OwedIsEverywhere'
<1> USE DEF OwedIsEverywhere
<1>1. dir \in Directories /\ dir \in disk
  BY DEF RecordTypeOK
\* With no record under the final name nobody is owed anything.
<1>2. ASSUME dir.json = None, owed' = owed PROVE OwedIsEverywhere'
  BY <1>1, <1>2, NoneIsNoInvocation
<1>3. CASE CreatePending \/ WritePending \/ SyncContent \/ RenamePending
  BY <1>2, <1>3 DEF CreatePending, WritePending, SyncContent, RenamePending, DirKnown,
     ClearLabels, SavingLabels
<1>4. CASE Settles
  BY <1>1, <1>4 DEF Settles
<1>5. CASE Clears \/ Collect
  BY <1>1, <1>5 DEF Clears, Collect, Change, Directories
<1>6. CASE RemoveCollection
  <2>1. dir' = dir \/ dir' = [dir EXCEPT !.workspaces = @ \ {dir[file]}]
    BY <1>6 DEF RemoveCollection, Change
  <2>2. dir'.json = dir.json /\ disk' \subseteq disk \cup {dir'}
    BY <1>1, <1>6, <2>1 DEF RemoveCollection, Change, Directories
  <2>3. ASSUME NEW w \in Invocation, owed'[w] = "owed" PROVE owed[w] = "owed"
    BY <1>6, <2>3, GuardedRecord DEF RemoveCollection, RecordTypeOK
  <2>4. QED
    BY <1>1, <1>6, <2>2, <2>3 DEF RemoveCollection
<1>7. CASE RemoveRecord
  <2>1. CASE file = "json"
    \* The only command that could be owed is the one whose cleanup was begun.
    BY <1>1, <1>7, <2>1 DEF RemoveRecord, DirKnown
  <2>2. CASE file = "pending"
    BY <1>1, <1>7, <2>2 DEF RemoveRecord, Change, Directories
  <2>3. QED
    BY <2>1, <2>2 DEF RecordTypeOK
<1>8. CASE OpenGate
  <2>1. dir.json = running /\ content[running] = "synced" /\ disk = {dir}
    BY <1>8 DEF OpenGate, DirKnown, DiskKnown, NamedLabels
  <2>2. QED
    BY <1>8, <2>1 DEF OpenGate, RecordTypeOK
<1>9. CASE FinishInFlight
  BY <1>1, <1>9 DEF FinishInFlight, RecordTypeOK
<1>10. CASE PowerLoss
  <2>1. \A w \in Invocation : content[w] = "synced" => content'[w] = "synced"
    BY <1>10 DEF PowerLoss, ContentAfter
  <2>2. PICK e \in Survivors : disk' = {e}
    BY <1>10 DEF PowerLoss
  <2>3. \E d \in disk : d.json = e.json
    BY SurvivorsMixed
  <2>4. QED
    BY <1>10, <2>1, <2>2, <2>3 DEF PowerLoss
<1>11. QED
  BY StepKinds, <1>3, <1>4, <1>5, <1>6, <1>7, <1>8, <1>9, <1>10

LEMMA WholeStep ==
  ASSUME RecordTypeOK, DirKnown, DiskKnown, WholeEverywhere, [RecordNext]_recordVars
  PROVE  WholeEverywhere'
<1> USE DEF WholeEverywhere
<1>1. dir \in Directories /\ dir \in disk /\ disk \subseteq Directories
  BY DEF RecordTypeOK
<1>2. CASE Settles \/ OpenGate
  BY <1>1, <1>2 DEF Settles, OpenGate
<1>3. CASE Clears \/ Collect
  BY <1>1, <1>3 DEF Clears, Collect, Change, Directories
<1>4. CASE RemoveCollection
  <2>1. dir' = dir \/ dir' = [dir EXCEPT !.workspaces = @ \ {dir[file]}]
    BY <1>4 DEF RemoveCollection, Change
  <2>2. dir'.json = dir.json /\ disk' \subseteq disk \cup {dir'}
    BY <1>1, <1>4, <2>1 DEF RemoveCollection, Change, Directories
  <2>3. QED
    BY <1>1, <1>4, <2>2 DEF RemoveCollection
<1>5. CASE RemoveRecord \/ FinishInFlight
  <2>1. dir'.json \in {dir.json, None} /\ disk' = disk \cup {dir'}
    BY <1>1, <1>5 DEF RemoveRecord, FinishInFlight, Change, Directories, RecordTypeOK
  <2>2. QED
    BY <1>1, <1>5, <2>1 DEF RemoveRecord, FinishInFlight
\* What is being written has no final name yet.
<1>6. CASE CreatePending \/ WritePending \/ SyncContent
  <2>1. running \in Invocation /\ \A d \in disk : d.json # running
    BY <1>6 DEF CreatePending, WritePending, SyncContent, RecordTypeOK, DiskKnown, SavingLabels
  <2>2. \A d \in disk' : d.json # running /\ \E e \in disk : d.json = e.json
    BY <1>1, <1>6, <2>1 DEF CreatePending, WritePending, SyncContent, Change, Directories
  <2>3. \A w \in Invocation : w # running => content'[w] = content[w]
    BY <1>6 DEF CreatePending, WritePending, SyncContent, RecordTypeOK
  <2>4. \A d \in disk : d.json \in Invocation \cup {None}
    BY <1>1 DEF Directories
  <2>5. QED
    BY <2>1, <2>2, <2>3, <2>4
<1>7. CASE RenamePending
  <2>1. dir'.json = running /\ content[running] = "synced"
    BY <1>1, <1>7 DEF RenamePending, Change, Directories, DirKnown
  <2>2. QED
    BY <1>7, <2>1 DEF RenamePending, Change
<1>8. CASE PowerLoss
  <2>1. \A w \in Invocation : content[w] = "synced" => content'[w] = "synced"
    BY <1>8 DEF PowerLoss, ContentAfter
  <2>2. PICK e \in Survivors : disk' = {e}
    BY <1>8 DEF PowerLoss
  <2>3. \E d \in disk : d.json = e.json
    BY SurvivorsMixed
  <2>4. QED
    BY <1>1, <2>1, <2>2, <2>3 DEF Directories
<1>9. QED
  BY StepKinds, <1>2, <1>3, <1>4, <1>5, <1>6, <1>7, <1>8

\* A record goes only after its collection, and an owed one is never replaced; without
\* the order of the changes a power loss could still mix the two.
LEMMA CleanupStep ==
  ASSUME RecordTypeOK, NewIsUnknown, DirKnown, DiskKnown, ordered, CleanupEverywhere,
         [RecordNext]_recordVars
  PROVE  CleanupEverywhere'
<1> USE DEF CleanupEverywhere
<1>1. dir \in Directories /\ dir \in disk /\ disk \subseteq Directories
  BY DEF RecordTypeOK
<1>2. \A d \in disk : d.workspaces \subseteq Invocation
  BY <1>1 DEF Directories
<1>3. CASE Settles \/ WritePending \/ SyncContent
  BY <1>1, <1>3 DEF Settles, WritePending, SyncContent
<1>4. CASE Clears
  BY <1>1, <1>4 DEF Clears, Directories
<1>5. CASE RemoveCollection
  <2>1. dir' = dir \/ dir' = [dir EXCEPT !.workspaces = @ \ {dir[file]}]
    BY <1>5 DEF RemoveCollection, Change
  <2>2. dir'.json = dir.json /\ dir'.workspaces \subseteq dir.workspaces
    BY <1>1, <2>1 DEF Directories
  <2>3. disk' \subseteq disk \cup {dir'}
    BY <1>5 DEF RemoveCollection, Change
  <2>4. ASSUME NEW w \in Invocation, owed'[w] # "no" PROVE owed[w] # "no"
    BY <1>5, <2>4, GuardedRecord DEF RemoveCollection, RecordTypeOK
  <2>5. QED
    BY <1>1, <1>2, <2>2, <2>3, <2>4
<1>6. CASE RemoveRecord
  <2>1. /\ dir'.workspaces = dir.workspaces /\ disk' = disk \cup {dir'}
        /\ file = "pending" => dir'.json = dir.json
    BY <1>1, <1>6 DEF RemoveRecord, Change, Directories, RecordTypeOK
  <2>2. file = "json" => dir.json \notin dir.workspaces
    BY <1>6 DEF RemoveRecord, DirKnown
  <2>3. QED
    BY <1>1, <1>6, <2>1, <2>2 DEF RemoveRecord, RecordTypeOK
<1>7. CASE Collect
  <2>1. owed[running] = "no"
    BY <1>7 DEF Collect, DiskKnown, BeforeFirst
  <2>2. QED
    BY <1>1, <1>7, <2>1 DEF Collect, Change, Directories
<1>8. CASE CreatePending
  BY <1>1, <1>8 DEF CreatePending, Change, Directories
<1>9. CASE RenamePending
  <2>1. \A w \in dir.workspaces : owed[w] = "no"
    BY <1>1, <1>2, <1>9, NoneIsNoInvocation
       DEF RenamePending, DirKnown, ClearLabels, SavingLabels
  <2>2. QED
    BY <1>1, <1>9, <2>1 DEF RenamePending, Change, Directories
<1>10. CASE OpenGate
  <2>1. dir.json = running /\ disk = {dir}
    BY <1>10 DEF OpenGate, DirKnown, DiskKnown, NamedLabels
  <2>2. QED
    BY <1>2, <1>10, <2>1 DEF OpenGate, RecordTypeOK
<1>11. CASE FinishInFlight
  <2>1. /\ dir.json = running /\ dir'.workspaces = dir.workspaces /\ disk' = disk \cup {dir'}
        /\ owed' = [owed EXCEPT ![running] = "no"]
    BY <1>1, <1>11 DEF FinishInFlight, Change, Directories
  <2>2. QED
    BY <1>1, <1>2, <2>1 DEF RecordTypeOK
<1>12. CASE PowerLoss
  BY <1>12, SurvivorsMixed DEF PowerLoss
<1>13. QED
  BY StepKinds, <1>3, <1>4, <1>5, <1>6, <1>7, <1>8, <1>9, <1>10, <1>11, <1>12

LEMMA OrderIsKept == RecordTypeOK /\ [RecordNext]_recordVars => ordered' = ordered
BY StepKinds DEF Settles, Clears, RemoveCollection, RemoveRecord, Collect, CreatePending,
   WritePending, SyncContent, RenamePending, OpenGate, FinishInFlight, PowerLoss

LEMMA DurableStep == DurableInvariant /\ [RecordNext]_recordVars => DurableInvariant'
<1> SUFFICES ASSUME DurableInvariant, [RecordNext]_recordVars PROVE DurableInvariant'
  OBVIOUS
<1> USE DEF DurableInvariant
<1>1. RecordTypeOK' /\ NewIsUnknown'
  BY RecordTypeStep, NewStep
<1>2. DirKnown' /\ DiskKnown'
  BY DirStep, DiskStep
<1>3. OneReservation' /\ OwedIsEverywhere' /\ WholeEverywhere'
  BY OneStep, OwedStep, WholeStep
<1>4. ordered' => CleanupEverywhere'
  BY OrderIsKept, CleanupStep
<1>5. QED
  BY <1>1, <1>2, <1>3, <1>4

\* The inductive invariant holds of every sequence of invocations, crashes and power
\* losses, whatever order of directory changes the file system keeps.
THEOREM DurableAlways == RecordSpec => []DurableInvariant
<1>1. RecordInit => DurableInvariant
  <2> SUFFICES ASSUME RecordInit PROVE DurableInvariant
    OBVIOUS
  <2> USE DEF RecordInit, Empty
  <2>1. RecordTypeOK
    BY DEF RecordTypeOK, Labels, Directories
  <2>2. NewIsUnknown /\ OneReservation /\ OwedIsEverywhere
    BY DEF NewIsUnknown, OneReservation, OwedIsEverywhere
  <2>3. DirKnown /\ DiskKnown
    BY DEF DirKnown, DiskKnown, BeforeFirst, GuardLabels, ClearLabels, SavingLabels,
       NamedLabels
  <2>4. WholeEverywhere /\ CleanupEverywhere
    BY DEF WholeEverywhere, CleanupEverywhere
  <2>5. QED
    BY <2>1, <2>2, <2>3, <2>4 DEF DurableInvariant
<1>2. QED
  BY <1>1, DurableStep, PTL DEF RecordSpec

\* A launched command is on record and readable until a guard cleans up after it, through
\* any crash and power loss (saveInFlight, writeNew, syncParent).
THEOREM RecordOutlivesPowerAlways == RecordSpec => []RecordOutlivesPower
<1>1. DurableInvariant => RecordOutlivesPower
  BY DEF DurableInvariant, RecordTypeOK, OwedIsEverywhere, RecordOutlivesPower, Readable
<1>2. QED
  BY <1>1, DurableAlways, PTL

\* No power loss leaves a torn inflight.json (writeNew before Rename).
THEOREM FinalNameIsWholeAlways == RecordSpec => []FinalNameIsWhole
<1>1. DurableInvariant => FinalNameIsWhole
  BY DEF DurableInvariant, RecordTypeOK, WholeEverywhere, FinalNameIsWhole, Readable
<1>2. QED
  BY <1>1, DurableAlways, PTL

\* Where directory changes keep their order, an unfinished command's collection is never
\* without its record (clearStoppedInFlight).
THEOREM CleanupIsNotForgottenAlways == RecordSpec => []CleanupIsNotForgotten
<1>1. DurableInvariant => CleanupIsNotForgotten
  BY DEF DurableInvariant, RecordTypeOK, CleanupEverywhere, CleanupIsNotForgotten
<1>2. QED
  BY <1>1, DurableAlways, PTL

-----------------------------------------------------------------------------
\* DurableRecord implements SessionOwnership

Live == {w \in Invocation : owed[w] = "owed"}

\* The two mapped variables change only as SessionOwnership allows, or not at all.
LEMMA ReservationSimulation ==
  ASSUME DurableInvariant, [RecordNext]_recordVars
  PROVE  [Owner!Next]_(Owner!vars)
<1> DEFINE Hold == IF at = "syncFinished" THEN running ELSE dir.json
<1> DEFINE Mapped == <<Hold, Live>>
<1> USE DEF DurableInvariant
<1>1. /\ dir \in Directories /\ dir[file] \in Invocation \cup {None} /\ dir \in disk
      /\ owed \in [Invocation -> {"no", "owed", "cleaning"}]
  BY GuardedRecord DEF RecordTypeOK
\* A live session is recorded in every directory, and none is while a removal waits.
<1>2. Live \subseteq Invocation /\ \A w \in Live, d \in disk : d.json = w
  BY DEF Live, OwedIsEverywhere
<1>3. dir.json = None => Live = {}
  BY <1>1, <1>2, NoneIsNoInvocation
<1>4. at = "syncFinished" => running \in Invocation /\ dir.json = None
  BY DEF RecordTypeOK, DirKnown
\* The ways a step may move the mapped variables.
<1>5. ASSUME Mapped' = Mapped PROVE [Owner!Next]_(Owner!vars)
  BY <1>5 DEF Owner!vars, Live
<1>6. ASSUME NEW w \in Invocation, Hold = None, Hold' = w, Live' = Live
      PROVE  Owner!Next
  BY <1>6 DEF Owner!Next, Owner!Reserve, Live
<1>7. ASSUME NEW w \in Invocation, Hold = w, Hold' = Hold, Live = {}, Live' = {w}
      PROVE  Owner!Next
  BY <1>7 DEF Owner!Next, Owner!Launch, Live
<1>8. ASSUME NEW w \in Invocation, Hold' = Hold, Live = {w}, Live' = {}
      PROVE  Owner!Next
  BY <1>8 DEF Owner!Next, Owner!Stop, Live
<1>9. ASSUME Hold # None, Hold' = None, Live = {}, Live' = {}
       PROVE  Owner!Next
  BY <1>9 DEF Owner!Next, Owner!Free, Live
<1> HIDE DEF Mapped
\* A wrapper that leaves "syncFinished" lets go of the reservation.
<1>10. ASSUME at = "syncFinished", at' # "syncFinished", dir' = dir, owed' = owed
       PROVE  Owner!Next
  BY <1>3, <1>4, <1>9, <1>10, NoneIsNoInvocation DEF Live
<1>11. ASSUME at # "syncFinished", at' # "syncFinished", dir'.json = dir.json, owed' = owed
       PROVE  [Owner!Next]_(Owner!vars)
  BY <1>5, <1>11 DEF Mapped, Live
<1>12. CASE (\E w \in Invocation : Begin(w)) \/ InspectEmpty \/ InspectStopped
            \/ InspectHolds \/ RemovalFails
  BY <1>11, <1>12 DEF Begin, InspectEmpty, InspectStopped, InspectHolds, RemovalFails,
     NextRecord, GuardPasses, GuardHolds, EnterGuard, Leave, Goto, RecordTypeOK
<1>13. CASE SyncRemoved \/ SyncUnlinked \/ SyncCreated \/ SyncRenamed \/ SyncOwn
  BY <1>11, <1>13 DEF SyncRemoved, SyncUnlinked, SyncCreated, SyncRenamed, SyncOwn,
     syncParent, NextRecord, GuardPasses, Leave, Goto
<1>14. CASE Preparing \/ RemoveOwn
  BY <1>1, <1>11, <1>14 DEF Preparing, Collect, CollectionAbandoned, BeginPrepare,
     RemoveOwn, Change, Directories, EnterGuard, Leave, Goto
<1>15. CASE CreatePending \/ WritePending \/ SyncContent \/ SaveFails \/ Close
  BY <1>1, <1>11, <1>15 DEF CreatePending, WritePending, SyncContent, SaveFails, Close,
     Change, Directories, EnterGuard, Goto
<1>16. CASE RemoveCollection
  \* A guard that found the session stopped says so.
  <2>1. dir' = dir \/ dir' = [dir EXCEPT !.workspaces = @ \ {dir[file]}]
    BY <1>16 DEF RemoveCollection, Change
  <2>2. dir'.json = dir.json /\ at # "syncFinished" /\ at' # "syncFinished"
    BY <1>1, <1>16, <2>1 DEF RemoveCollection, Goto, Directories
  <2>3. Hold' = Hold /\ Live' = Live \ {dir[file]}
    BY <1>1, <1>16, <2>2 DEF RemoveCollection, Live
  <2>4. CASE dir[file] \in Live
    <3>1. Live = {dir[file]}
      BY <1>1, <1>2, <2>4
    <3>2. QED
      BY <1>2, <1>8, <2>3, <3>1
  <2>5. CASE dir[file] \notin Live
    BY <1>5, <2>3, <2>5 DEF Mapped
  <2>6. QED
    BY <2>4, <2>5
<1>17. CASE RemoveRecord
  <2>1. /\ at # "syncFinished" /\ at' # "syncFinished" /\ owed' = owed
        /\ dir[file] # None /\ owed[dir[file]] # "owed"
        /\ dir' = [dir EXCEPT ![file] = None]
    BY <1>17 DEF RemoveRecord, Change, Goto, DirKnown
  <2>2. CASE file = "json"
    <3>1. dir.json # None /\ dir'.json = None
      BY <1>1, <2>1, <2>2 DEF Directories
    <3>2. Live = {}
      BY <1>1, <1>2, <2>1, <2>2 DEF Live
    <3>3. QED
      BY <1>9, <2>1, <3>1, <3>2 DEF Live
  <2>3. CASE file = "pending"
    BY <1>1, <1>11, <2>1, <2>3 DEF Directories
  <2>4. QED
    BY <2>2, <2>3 DEF RecordTypeOK
<1>18. CASE RenamePending
  \* saveInFlight reserves: no record, hence nothing launched.
  <2>1. running \in Invocation /\ dir.json = None /\ at = "renaming" /\ owed' = owed
    BY <1>18 DEF RenamePending, RecordTypeOK, DirKnown, ClearLabels, SavingLabels
  <2>2. dir'.json = running /\ at' = "syncRenamed"
    BY <1>1, <1>18 DEF RenamePending, Change, Goto, Directories
  <2>3. QED
    BY <1>6, <2>1, <2>2 DEF Live
<1>19. CASE OpenGate
  \* The released session is launched under its own record, unless it already was.
  <2>1. /\ running \in Invocation /\ dir.json = running /\ dir' = dir
        /\ at # "syncFinished" /\ at' # "syncFinished"
        /\ owed' = [owed EXCEPT ![running] = "owed"]
    BY <1>19 DEF OpenGate, Goto, RecordTypeOK, DirKnown, NamedLabels
  <2>2. Hold = running /\ Hold' = Hold /\ Live' = Live \cup {running}
    BY <1>1, <2>1 DEF Live
  <2>3. Live \subseteq {running}
    BY <1>1, <1>2, <2>1
  <2>4. CASE Live = {}
    BY <1>7, <2>1, <2>2, <2>4
  <2>5. CASE Live = {running}
    BY <1>5, <2>2, <2>5 DEF Mapped
  <2>6. QED
    BY <2>3, <2>4, <2>5
<1>20. CASE FinishInFlight
  \* The removed record still counts as held until its removal is synchronized.
  <2>1. /\ running \in Invocation /\ dir.json = running /\ running' = running
        /\ at = "waiting" /\ at' = "syncFinished"
        /\ owed' = [owed EXCEPT ![running] = "no"]
    BY <1>20 DEF FinishInFlight, Goto, RecordTypeOK
  <2>2. Hold = running /\ Hold' = Hold /\ Live' = Live \ {running}
    BY <1>1, <2>1 DEF Live
  <2>3. Live \subseteq {running}
    BY <1>1, <1>2, <2>1
  <2>4. CASE Live = {}
    BY <1>5, <2>2, <2>4 DEF Mapped
  <2>5. CASE Live = {running}
    BY <1>8, <2>1, <2>2, <2>5
  <2>6. QED
    BY <2>3, <2>4, <2>5
<1>21. CASE SyncFinished \/ FinishHolds \/ Crash
  <2>1. dir' = dir /\ owed' = owed /\ at' # "syncFinished"
    BY <1>21 DEF SyncFinished, FinishHolds, Crash, syncParent, EnterGuard, Leave, Goto
  <2>2. QED
    BY <1>10, <1>11, <2>1
<1>22. CASE PowerLoss
  \* What comes back under the final name is the one reservation, or no record when
  \* nothing is live.
  <2>1. PICK e \in Survivors : dir' = e
    BY <1>22 DEF PowerLoss
  <2>2. PICK d \in disk : d.json = e.json
    BY SurvivorsMixed
  <2>3. /\ at' = "idle" /\ owed' = owed /\ Hold' = d.json /\ Live' = Live
        /\ d.json \in Invocation \cup {None}
    BY <1>22, <2>1, <2>2 DEF PowerLoss, Leave, Live, RecordTypeOK, Directories
  <2>4. Hold # None /\ d.json # None => d.json = Hold
    BY <1>1, <1>4, <2>2 DEF OneReservation, DiskKnown
  <2>5. d.json = None => Live = {}
    BY <1>2, <2>2, NoneIsNoInvocation
  <2>6. CASE d.json = Hold
    BY <1>5, <2>3, <2>6 DEF Mapped
  <2>7. CASE d.json # Hold /\ Hold = None
    BY <1>6, <2>3, <2>7
  <2>8. CASE d.json # Hold /\ d.json = None
    BY <1>9, <2>3, <2>5, <2>8
  <2>9. QED
    BY <2>4, <2>6, <2>7, <2>8
<1>23. CASE UNCHANGED recordVars
  BY <1>5, <1>23 DEF recordVars, wrapperVars, Mapped, Live
<1>24. QED
  BY <1>12, <1>13, <1>14, <1>15, <1>16, <1>17, <1>18, <1>19, <1>20, <1>21, <1>22, <1>23
     DEF RecordNext, Guarding, Saving, Finishing, Closing

\* Through every crash and power loss the record is the reservation of one session, taken
\* before it is launched and given up only when it has stopped (saveInFlight,
\* finishInFlight, clearStoppedInFlight).
THEOREM RecordIsReservationAlways == RecordSpec => RecordIsReservation
<1>1. RecordInit => Owner!Init
  BY DEF RecordInit, Empty, Owner!Init
<1>2. QED
  BY <1>1, DurableAlways, ReservationSimulation, PTL
     DEF RecordSpec, RecordIsReservation, Owner!Spec

=============================================================================
