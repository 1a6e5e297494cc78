-------------------------- MODULE ProcessInventory --------------------------
(***************************************************************************)
(* processSessionActive: whether any live process belongs to the recorded   *)
(* process session.  ps reads the processes one after the other, then the   *)
(* session of each listed number is asked for one at a time; meanwhile      *)
(* processes fork, exit, are reaped and change session at every step.       *)
(* OwnedExecution relies on the answer "inactive" when it removes a record  *)
(* and a workspace.                                                         *)
(***************************************************************************)
EXTENDS Naturals, FiniteSets

CONSTANTS
  Pid,         \* process numbers
  MaxAttempts  \* observations before the inventory is given up (3 in the code)

ASSUME PidsAreFinite == IsFiniteSet(Pid)

ASSUME MaxAttemptsIsPositive == MaxAttempts \in Nat \ {0}

VARIABLES
  table,      \* what each number names
  unread,     \* numbers the running ps has not come to
  unvisited,  \* listed numbers whose session has not been asked for
  changed,    \* a listed process was gone when it was asked for
  attempt,    \* observations begun
  pc,         \* where processSessionActive is
  verdict,    \* its answer; "held" is an error, which holds every caller
  blind,      \* history: the session was lost from view, see Becomes
  quiet,      \* history: no process changed and none was a zombie
  failed      \* history: ps or getsid failed

observer == <<unread, unvisited, changed, attempt, pc, verdict, failed>>
vars == <<table, observer, blind, quiet>>

\* "member" is a live process of the session; a zombie has exited unreaped.
Members == {"member", "memberZombie"}
Zombies == {"memberZombie", "otherZombie"}
Processes == {"free", "other"} \cup Members \cup Zombies

\* Every variable keeps its type.
TypeOK ==
  /\ table \in [Pid -> Processes]
  /\ unread \subseteq Pid
  /\ unvisited \subseteq Pid
  /\ changed \in BOOLEAN
  /\ attempt \in 0..MaxAttempts
  /\ pc \in {"listing", "reading", "asking", "returned"}
  /\ verdict \in {"none", "active", "inactive", "held"}
  /\ blind \in BOOLEAN
  /\ quiet \in BOOLEAN
  /\ failed \in BOOLEAN

Named == {p \in Pid : table[p] # "free"}

NoZombie == \A p \in Pid : table[p] \notin Zombies

Init ==
  /\ table \in [Pid -> Processes]
  /\ unread = {}
  /\ unvisited = {}
  /\ changed = FALSE
  /\ attempt = 0
  /\ pc = "listing"
  /\ verdict = "none"
  /\ blind = FALSE
  /\ quiet = NoZombie
  /\ failed = FALSE

Return(answer) ==
  /\ pc' = "returned"
  /\ verdict' = answer

-----------------------------------------------------------------------------
\* processSessionActive

\* Bug: the process of ps itself, listed but gone, is asked for as well.
BugList ==
  /\ pc = "listing"
  /\ attempt < MaxAttempts
  /\ \E ps \in Pid \ Named : unread' = Pid \ {ps} /\ unvisited' = {ps}
  /\ changed' = FALSE
  /\ attempt' = attempt + 1
  /\ pc' = "reading"
  /\ blind' = FALSE
  /\ UNCHANGED <<table, verdict, quiet, failed>>

\* ps starts, under a number that nothing else has.  Its own number is skipped later, so
\* its process is left out of the table.
List ==
  /\ pc = "listing"
  /\ attempt < MaxAttempts
  /\ Named # Pid
  /\ unread' = Pid
  /\ unvisited' = {}
  /\ changed' = FALSE
  /\ attempt' = attempt + 1
  /\ pc' = "reading"
  /\ blind' = FALSE
  /\ UNCHANGED <<table, verdict, quiet, failed>>

\* ps comes to a number, in any order, and lists it when it names a process.
ReadProcess(p) ==
  /\ pc = "reading"
  /\ p \in unread
  /\ unread' = unread \ {p}
  /\ unvisited' = unvisited \cup ({p} \cap Named)
  /\ UNCHANGED <<table, changed, attempt, pc, verdict, blind, quiet, failed>>

\* ps has ended, and its list is read from the beginning.
EndList ==
  /\ pc = "reading"
  /\ unread = {}
  /\ pc' = "asking"
  /\ UNCHANGED <<table, unread, unvisited, changed, attempt, verdict, blind, quiet, failed>>

\* ps cannot be run, times out, or prints too much, too little or no numbers.
ListFails ==
  /\ pc \in {"listing", "reading"}
  /\ Return("held")
  /\ failed' = TRUE
  /\ UNCHANGED <<table, unread, unvisited, changed, attempt, blind, quiet>>

\* getsid finds a process of the session: the answer does not wait for the others.
FindMember(p) ==
  /\ pc = "asking"
  /\ p \in unvisited
  /\ table[p] \in Members
  /\ Return("active")
  /\ UNCHANGED <<table, unread, unvisited, changed, attempt, blind, quiet, failed>>

\* getsid finds a process of another session.
PassOther(p) ==
  /\ pc = "asking"
  /\ p \in unvisited
  /\ table[p] \in {"other", "otherZombie"}
  /\ unvisited' = unvisited \ {p}
  /\ UNCHANGED <<table, unread, changed, attempt, pc, verdict, blind, quiet, failed>>

\* Bug: a process that is gone is skipped like one of another session.
BugMissProcess(p) ==
  /\ pc = "asking"
  /\ p \in unvisited
  /\ table[p] \in {"free"} \cup Zombies
  /\ unvisited' = unvisited \ {p}
  /\ UNCHANGED <<table, unread, changed, attempt, pc, verdict, blind, quiet, failed>>

\* getsid returns ESRCH: no such process, or (on Darwin) only a zombie.
MissProcess(p) ==
  /\ pc = "asking"
  /\ p \in unvisited
  /\ table[p] \in {"free"} \cup Zombies
  /\ unvisited' = unvisited \ {p}
  /\ changed' = TRUE
  /\ UNCHANGED <<table, unread, attempt, pc, verdict, blind, quiet, failed>>

\* Any other error of getsid.
AskFails ==
  /\ pc = "asking"
  /\ unvisited # {}
  /\ Return("held")
  /\ failed' = TRUE
  /\ UNCHANGED <<table, unread, unvisited, changed, attempt, blind, quiet>>

\* Nothing of the session was seen, and nothing listed was gone.
ConcludeInactive ==
  /\ pc = "asking"
  /\ unvisited = {}
  /\ ~changed
  /\ Return("inactive")
  /\ UNCHANGED <<table, unread, unvisited, changed, attempt, blind, quiet, failed>>

\* Bug: observed again until nothing changes.
BugConcludeChanged ==
  /\ pc = "asking"
  /\ unvisited = {}
  /\ changed
  /\ pc' = "listing"
  /\ attempt' = 0
  /\ UNCHANGED <<table, unread, unvisited, changed, verdict, blind, quiet, failed>>

\* Bug: one observation more than MaxAttempts is begun.
BugCountAttempt ==
  /\ pc = "asking"
  /\ unvisited = {}
  /\ changed
  /\ pc' = "listing"
  /\ attempt' = attempt + 1
  /\ UNCHANGED <<table, unread, unvisited, changed, verdict, blind, quiet, failed>>

\* Something was gone: observe again, and give up after the last attempt.
ConcludeChanged ==
  /\ pc = "asking"
  /\ unvisited = {}
  /\ changed
  /\ IF attempt < MaxAttempts THEN pc' = "listing" /\ UNCHANGED verdict
                              ELSE Return("held")
  /\ UNCHANGED <<table, unread, unvisited, changed, attempt, blind, quiet, failed>>

-----------------------------------------------------------------------------
\* The processes of the machine

\* A process of the session that the running observation does not look for any more: ps
\* has passed its number, and it was not listed under it or has been asked for.
Hidden == {p \in Pid \ (unread \cup unvisited) : table[p] = "member"}

\* The number p shows the session to be alive when it names q: as a member, or, once
\* listed, by naming nothing any more.
Tells(p, q) ==
  \/ p \in unread /\ q \in Members
  \/ p \in unvisited /\ q \in {"free"} \cup Members

\* The number p now names q.  The session is lost from view when that takes away what
\* would have shown it while a member is hidden: a member was reaped before ps came to
\* it, left the session, or was reaped and its listed number reused by a stranger.
Becomes(p, q) ==
  /\ table' = [table EXCEPT ![p] = q]
  /\ blind' = (blind \/ (Hidden # {} /\ Tells(p, table[p]) /\ ~Tells(p, q)))
  /\ quiet' = FALSE
  /\ UNCHANGED observer

\* A live process forks a child of its own session under any free number.
Fork(p, child) ==
  /\ table[p] \in {"member", "other"}
  /\ table[child] = "free"
  /\ Becomes(child, table[p])

Exit(p) ==
  /\ table[p] \in {"member", "other"}
  /\ Becomes(p, IF table[p] = "member" THEN "memberZombie" ELSE "otherZombie")

Reap(p) ==
  /\ table[p] \in Zombies
  /\ Becomes(p, "free")

\* setsid
LeaveSession(p) ==
  /\ table[p] = "member"
  /\ Becomes(p, "other")

Returned == pc = "returned" /\ UNCHANGED vars

-----------------------------------------------------------------------------
\* The specification

Observe ==
  \/ List \/ ListFails \/ EndList
  \/ \E p \in Pid : ReadProcess(p)
  \/ \E p \in Pid : FindMember(p) \/ PassOther(p) \/ MissProcess(p)
  \/ AskFails \/ ConcludeInactive \/ ConcludeChanged

Machine ==
  \/ \E p, child \in Pid : Fork(p, child)
  \/ \E p \in Pid : Exit(p) \/ Reap(p) \/ LeaveSession(p)

Next == Observe \/ Machine \/ Returned

Spec == Init /\ [][Next]_vars

\* The wrapper is scheduled; processes may do anything or nothing.
FairSpec == Spec /\ WF_vars(Observe)

-----------------------------------------------------------------------------
\* Properties

Stopped == \A p \in Pid : table[p] # "member"

\* "Inactive" is only answered when no process of the session is alive, and none will
\* be, although the session may fork and exit ahead of ps, behind it, and behind the
\* questions.  The exception is named, and is no more than what ESRCH cannot reveal: with
\* a member hidden behind the scan, one ahead of it was reaped before ps came to it, left
\* the session by setsid, or passed its listed number on to an unrelated process.
InactiveMeansStopped == verdict = "inactive" /\ ~blind => Stopped

\* On a machine where nothing changes and nothing is a zombie, the session is never
\* reported as unobservable unless ps or getsid fails: the guard does not hold callers
\* because of the observation itself.
QuietIsDecided == quiet /\ verdict = "held" => failed

\* An answer comes however much the process table churns.
Decides == <>(pc = "returned")

-----------------------------------------------------------------------------
\* A measure of the scan, the reason why it ends

\* Steps the scan may still take: an observation reads each number once, and asks for
\* each listed one once.
StepsLeft ==
  LET numbers == Cardinality(Pid)
      later == (MaxAttempts - attempt) * (2 * numbers + 3)
  IN CASE pc = "returned" -> 0
       [] pc = "listing" -> later
       [] pc = "reading" -> later + Cardinality(unread) + numbers + 2
       [] pc = "asking" -> later + Cardinality(unvisited) + 1

\* Every step of the scan brings its answer nearer, however the processes of the machine
\* come and go: they never add to what the scan still asks for (processSessionActive).
ScanAdvances ==
  [][\/ StepsLeft' \in Nat /\ StepsLeft' < StepsLeft
     \/ UNCHANGED observer]_vars

-----------------------------------------------------------------------------
\* The inductive invariant behind InactiveMeansStopped, QuietIsDecided, ScanAdvances

\* While the session lives, was not lost from view and nothing listed was found gone, some
\* number ahead of the scan will tell.
WitnessRemains ==
  pc \in {"reading", "asking"} /\ ~changed /\ ~blind /\ ~Stopped =>
    \E p \in Pid : Tells(p, table[p])

AnswerIsLast ==
  /\ verdict # "none" => pc = "returned"
  /\ pc = "asking" => unread = {}
  /\ verdict = "inactive" => unread = {} /\ unvisited = {}

\* On a quiet machine every listed number still names its process when it is asked for.
QuietIsSeen == quiet => NoZombie /\ ~changed /\ unvisited \subseteq Named

\* A list of processes is only taken for an attempt that is left.
AttemptIsLeft == pc = "listing" => attempt < MaxAttempts

\* The conjunction the proofs show to be inductive.
ScanInvariant ==
  /\ TypeOK
  /\ AnswerIsLast
  /\ WitnessRemains
  /\ InactiveMeansStopped
  /\ QuietIsSeen
  /\ QuietIsDecided
  /\ AttemptIsLeft

=============================================================================
