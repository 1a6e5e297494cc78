-------------------------- MODULE CommandSequence --------------------------
(***************************************************************************)
(* What Run and Execute promise of the commands of one plan: they run one   *)
(* at a time, each once, the next only when nothing of the one before is    *)
(* left; after a failed one none follows; and an outcome is definite only   *)
(* when they have ended, a success only when none is left to run            *)
(* (runPendingActions, runCommand, executionOutcome).                       *)
(***************************************************************************)
EXTENDS Naturals

VARIABLES
  phase,   \* "before" the first command, "open", "failed", or "over"
  left,    \* commands that have not finished, while commands may run
  busy,    \* a command was launched and has not been finished
  live,    \* some process of the last command may be alive
  outcome  \* domain.AttemptOutcome, or "none"

vars == <<phase, left, busy, live, outcome>>

Init ==
  /\ phase = "before" /\ left = 0
  /\ busy = FALSE /\ live = FALSE
  /\ outcome = "none"

\* The plan is admitted, with any number of commands.
Admit ==
  /\ phase = "before"
  /\ phase' = "open" /\ left' \in Nat
  /\ UNCHANGED <<busy, live, outcome>>

\* A command that was killed before its gate opened leaves nothing alive.
Launch ==
  /\ phase = "open" /\ left > 0
  /\ ~busy /\ ~live
  /\ busy' = TRUE /\ live' \in BOOLEAN
  /\ UNCHANGED <<phase, left, outcome>>

Stop ==
  /\ live
  /\ live' = FALSE
  /\ UNCHANGED <<phase, left, busy, outcome>>

Finish ==
  /\ phase = "open" /\ busy /\ ~live
  /\ busy' = FALSE /\ left' = left - 1
  /\ UNCHANGED <<phase, live, outcome>>

Fail ==
  /\ phase = "open" /\ busy /\ ~live
  /\ phase' = "failed" /\ left' = 0 /\ busy' = FALSE
  /\ UNCHANGED <<live, outcome>>

\* The attempt is over, refused, interrupted or complete.
Conclude(r) ==
  /\ phase # "over"
  /\ r = "Succeeded" => phase = "open" /\ left = 0
  /\ r \in {"Failed", "Partial"} => phase = "failed"
  /\ phase' = "over" /\ left' = 0 /\ busy' = FALSE
  /\ outcome' = r
  /\ UNCHANGED live

\* A cleanup failure turns any outcome into an unknown one.
Retract ==
  /\ phase = "over"
  /\ outcome' = "Unknown"
  /\ UNCHANGED <<phase, left, busy, live>>

Next ==
  \/ Admit \/ Launch \/ Stop \/ Finish \/ Fail \/ Retract
  \/ \E r \in {"none", "Succeeded", "Failed", "Partial", "Unknown"} : Conclude(r)

Spec == Init /\ [][Next]_vars

=============================================================================
