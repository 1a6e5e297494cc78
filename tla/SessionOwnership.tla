-------------------------- MODULE SessionOwnership --------------------------
(***************************************************************************)
(* What BrewWarden promises about the Homebrew sessions it owns: a session  *)
(* is launched only while it holds the single reservation, the reservation  *)
(* is given up only when nothing of the session runs any more, and a        *)
(* definite outcome is reported only after that (docs/design.md,            *)
(* "Owned-process interruption state").                                     *)
(***************************************************************************)
CONSTANTS
  Invocation,  \* the runs of the wrapper
  None         \* nobody holds the reservation

VARIABLES
  hold,     \* the invocation whose session may run, or None
  live,     \* invocations with a launched session that has not stopped
  settled   \* invocations that report a definite outcome

vars == <<hold, live, settled>>

Init ==
  /\ hold = None
  /\ live = {}
  /\ settled = {}

\* The reservation is taken by an invocation that has not reported yet.
Reserve(w) ==
  /\ hold = None
  /\ w \notin settled
  /\ hold' = w
  /\ UNCHANGED <<live, settled>>

Launch(w) ==
  /\ hold = w
  /\ live = {}
  /\ live' = {w}
  /\ UNCHANGED <<hold, settled>>

Stop(w) ==
  /\ live = {w}
  /\ live' = {}
  /\ UNCHANGED <<hold, settled>>

\* Any invocation may give up a reservation, but only of a stopped session.
Free ==
  /\ hold # None
  /\ live = {}
  /\ hold' = None
  /\ UNCHANGED <<live, settled>>

Report(w) ==
  /\ hold # w
  /\ w \notin live
  /\ settled' = settled \cup {w}
  /\ UNCHANGED <<hold, live>>

\* A cleanup failure turns a definite outcome into an unknown one.
Retract(w) ==
  /\ settled' = settled \ {w}
  /\ UNCHANGED <<hold, live>>

Next ==
  \/ \E w \in Invocation : Reserve(w) \/ Launch(w) \/ Stop(w) \/ Report(w) \/ Retract(w)
  \/ Free

Spec == Init /\ [][Next]_vars

=============================================================================
