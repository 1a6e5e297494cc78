------------------------ MODULE PlanExecutionProofs ------------------------
(***************************************************************************)
(* The order of commands and the truth of the outcome, for plans of any     *)
(* size, any dependency graph and any behaviour of Homebrew, of other       *)
(* clients and of the clock.                                                *)
(***************************************************************************)
EXTENDS PlanExecution, Sequences, FiniteSetTheorems, WellFoundedInduction, TLAPS

LEMMA LeastExists ==
  ASSUME NEW S, S \subseteq Nat, S # {}
  PROVE  \E n \in S : \A m \in S : n <= m
<1>1. PICK n \in S : \A m \in S : ~ (<<m, n>> \in OpToRel(<, Nat))
  BY NatLessThanWellFounded, WFMin
<1>2. \A m \in S : ~ (m < n)
  BY <1>1 DEF OpToRel
<1>3. QED
  BY <1>2

\* A nonempty set of formulae has a first one in name order.
LEMMA FirstExists ==
  ASSUME NEW S, S \subseteq Formula, S # {}
  PROVE  \E f \in S : \A g \in S : f <= g
<1>1. S \subseteq Nat
  BY NIsPositive DEF Formula
<1>2. QED
  BY <1>1, LeastExists

\* nextReadyAction returns a pending action whose dependencies are not pending.
LEMMA NextReadyIsReady == TypeOK /\ Ready # {} => NextReadyAction \in Ready
<1> SUFFICES ASSUME TypeOK, Ready # {} PROVE NextReadyAction \in Ready
  OBVIOUS
<1>1. Ready \subseteq Formula
  BY DEF TypeOK, Ready
<1>2. \E f \in Ready : \A g \in Ready : f <= g
  BY <1>1, FirstExists
<1>3. QED
  BY <1>2 DEF NextReadyAction

\* A graph whose dependencies descend along some rank never leaves the plan stuck:
\* the error "cyclic execution plan" needs a cycle (nextReadyAction).
THEOREM RankedPlanAdvances ==
  ASSUME TypeOK, NEW rank \in [Formula -> Nat],
         \A f \in Formula : \A g \in deps[f] : rank[g] < rank[f]
  PROVE  NeverStuck
<1> SUFFICES ASSUME remaining # {} PROVE Ready # {}
  BY DEF NeverStuck
<1> DEFINE Ranks == {rank[f] : f \in remaining}
<1>1. remaining \subseteq Formula
  BY DEF TypeOK
<1>2. Ranks \subseteq Nat /\ Ranks # {}
  BY <1>1
<1>3. PICK r \in Ranks : \A s \in Ranks : r <= s
  BY <1>2, LeastExists
<1>4. PICK f \in remaining : rank[f] = r
  OBVIOUS
<1>5. \A g \in deps[f] : g \notin remaining
  <2> SUFFICES ASSUME NEW g \in deps[f], g \in remaining PROVE FALSE
    OBVIOUS
  <2>1. rank[f] <= rank[g] /\ rank[g] < rank[f]
    BY <1>1, <1>3, <1>4
  <2>2. rank[f] \in Nat /\ rank[g] \in Nat
    BY <1>1
  <2>3. QED
    BY <2>1, <2>2
<1>6. f \in Ready
  BY <1>4, <1>5 DEF Ready
<1>7. QED
  BY <1>6

-----------------------------------------------------------------------------
\* The dependency graph

\* Below(S) is closed, contains S, and lies in every closed set that does.
LEMMA BelowIsSmallest ==
  ASSUME deps \in [Formula -> SUBSET Formula], NEW S \in SUBSET Formula
  PROVE  /\ Below(S) \subseteq Formula /\ S \subseteq Below(S) /\ Closed(Below(S))
         /\ \A T \in SUBSET Formula : S \subseteq T /\ Closed(T) => Below(S) \subseteq T
<1>1. Below(S) \subseteq Formula /\ S \subseteq Below(S)
  BY DEF Below
<1>2. Closed(Below(S))
  <2> SUFFICES ASSUME NEW f \in Below(S), NEW d \in deps[f] PROVE d \in Below(S)
    BY DEF Closed
  <2>1. f \in Formula /\ d \in Formula
    BY <1>1
  <2>2. ASSUME NEW T \in SUBSET Formula, S \subseteq T, Closed(T) PROVE d \in T
    BY <2>1, <2>2 DEF Below, Closed
  <2>3. QED
    BY <2>1, <2>2 DEF Below
<1>3. QED
  BY <1>1, <1>2 DEF Below

\* Some element of S depends on no element of S.
HasFirst(S) == \E f \in S : deps[f] \cap S = {}

\* In a graph without a cycle every set of formulae has one that comes first: among its
\* elements one leads to the fewest formulae.
LEMMA AcyclicHasFirst ==
  ASSUME deps \in [Formula -> SUBSET Formula], \A f \in Formula : f \notin Below(deps[f]),
         NEW S \in (SUBSET Formula) \ {{}}
  PROVE  HasFirst(S)
<1> DEFINE Size(f) == Cardinality(Below(deps[f]))
           Sizes == {Size(f) : f \in S}
<1>1. \A f \in Formula : IsFiniteSet(Below(deps[f])) /\ Size(f) \in Nat
  <2>1. IsFiniteSet(Formula)
    BY FS_Interval, NIsPositive DEF Formula
  <2>2. QED
    BY <2>1, BelowIsSmallest, FS_Subset, FS_CardinalityType
<1>2. PICK f \in S : \A g \in S : Size(f) <= Size(g)
  <2> HIDE DEF Size
  <2>1. Sizes \subseteq Nat /\ Sizes # {}
    BY <1>1
  <2>2. PICK r \in Sizes : \A s \in Sizes : r <= s
    BY <2>1, LeastExists
  <2>3. QED
    BY <2>2
<1>3. ASSUME NEW g \in deps[f], g \in S PROVE FALSE
  <2>1. deps[f] \in SUBSET Formula /\ deps[g] \in SUBSET Formula
    BY <1>3
  <2>2. Below(deps[g]) \subseteq Below(deps[f]) /\ g \in Below(deps[f])
    BY <1>3, <2>1, BelowIsSmallest DEF Closed
  <2>3. Below(deps[g]) # Below(deps[f])
    BY <1>3, <2>2
  <2>4. Size(g) < Size(f)
    BY <1>1, <1>3, <2>2, <2>3, FS_Subset
  <2>5. QED
    BY <1>1, <1>2, <1>3, <2>4
<1>4. QED
  BY <1>3 DEF HasFirst

\* Conversely, the formulae that lead back to one on a cycle have no first one.
LEMMA FirstIsAcyclic ==
  ASSUME deps \in [Formula -> SUBSET Formula],
         \A S \in (SUBSET Formula) \ {{}} : HasFirst(S),
         NEW f \in Formula, f \in Below(deps[f])
  PROVE  FALSE
<1> DEFINE S == {g \in Formula : f \in Below(deps[g])}
<1>1. PICK g \in S : deps[g] \cap S = {}
  BY DEF HasFirst
<1> DEFINE T == deps[g] \cup UNION {Below(deps[d]) : d \in deps[g]}
<1>2. deps[g] \in SUBSET Formula /\ \A d \in deps[g] : deps[d] \in SUBSET Formula
  OBVIOUS
<1>3. T \in SUBSET Formula /\ Closed(T)
  <2>1. T \in SUBSET Formula
    BY <1>2, BelowIsSmallest
  <2>2. ASSUME NEW d \in deps[g]
        PROVE  deps[d] \subseteq Below(deps[d]) /\ Closed(Below(deps[d]))
    BY <1>2, BelowIsSmallest
  <2>3. QED
    BY <2>1, <2>2 DEF Closed
<1>4. f \in T
  BY <1>2, <1>3, BelowIsSmallest
<1>5. QED
  BY <1>1, <1>4

\* The graph of a plan whose lists of dependencies and targets are ls, as DependencyGraph
\* sees it: 0 stands for the request.
Document(ls) == INSTANCE DependencyGraph WITH
  Artifact <- Formula, Root <- 0, Lists <- Seq(Formula),
  sound <- TRUE, listed <- Formula, lists <- ls,
  mark <- [f \in Formula |-> "none"], stack <- <<>>, rank <- [f \in Formula |-> 0],
  verdict <- "none"

\* The graphs a plan starts from are exactly those the depth-first search accepts, its two
\* definitions of a cycle and of the closure being the same (validGraph, parseMetadata).
THEOREM ValidIsClosedAndAcyclic ==
  ASSUME TypeOK, NEW ls,
         \A f \in Formula : Document(ls)!Elements(ls[f]) = deps[f],
         Document(ls)!Elements(ls[0]) = targets,
         \A v \in Formula \cup {0} : Document(ls)!NoRepetition(ls[v])
  PROVE  ValidGraph <=> Document(ls)!ClosedAndAcyclic
<1> USE DEF TypeOK
<1>1. Formula # {}
  BY NIsPositive DEF Formula
<1>2. \A v \in Formula \cup {0} : Document(ls)!Elements(ls[v]) \subseteq Formula
  OBVIOUS
<1>3. \A S \in SUBSET Formula :
        Document(ls)!Closed(S) <=> targets \subseteq S /\ Closed(S)
  BY DEF Document!Closed, Closed
<1>4. \A S \in SUBSET Formula : Document(ls)!HasLeast(S) <=> HasFirst(S)
  BY DEF Document!HasLeast, HasFirst
<1>5. (\A f \in Formula : f \notin Below(deps[f]))
        <=> \A S \in (SUBSET Formula) \ {{}} : HasFirst(S)
  BY AcyclicHasFirst, FirstIsAcyclic
<1>6. targets # {} /\ Below(targets) = Formula
        <=> \A S \in SUBSET Formula : targets \subseteq S /\ Closed(S) => S = Formula
  <2>1. /\ Below(targets) \in SUBSET Formula /\ targets \subseteq Below(targets)
        /\ Closed(Below(targets))
        /\ \A S \in SUBSET Formula :
             targets \subseteq S /\ Closed(S) => Below(targets) \subseteq S
    BY BelowIsSmallest
  <2>2. Closed({})
    BY DEF Closed
  <2>3. QED
    BY <1>1, <2>1, <2>2
<1>7. QED
  BY <1>1, <1>2, <1>3, <1>4, <1>5, <1>6 DEF ValidGraph, Document!ClosedAndAcyclic

-----------------------------------------------------------------------------
\* Type correctness

LEMMA ActionType ==
  ASSUME NEW o, NEW op, NEW wanted, NEW f PROVE Action(o, op, wanted, f) \in Operations
BY DEF Action, Operations

LEMMA ObservedType == TypeOK => Observed \in Observation
BY DEF TypeOK, Observed, Observation

LEMMA TypeStep == TypeOK /\ [Next]_vars => TypeOK'
<1> SUFFICES ASSUME TypeOK, [Next]_vars PROVE TypeOK'
  OBVIOUS
<1> USE DEF TypeOK, collection, prefix, bound, history, session, result, Labels
<1>1. CASE Prepare
  <2>1. plan' \in [Formula -> Operations] /\ before' \in Observation
    BY <1>1, ActionType, ObservedType DEF Prepare
  <2>2. QED
    BY <1>1, <2>1 DEF Prepare
<1>2. CASE PrepareFails \/ Revalidate \/ Assess \/ ExecuteHeld
  BY <1>2 DEF PrepareFails, Revalidate, Assess, ExecuteHeld, Conclude
<1>3. CASE RunRevalidate
  BY <1>3, ObservedType DEF RunRevalidate
<1>4. CASE RunAdmitted \/ RunHeld \/ RunCommand \/ Wait
  BY <1>4 DEF RunAdmitted, RunHeld, RunCommand, Wait, Conclude, Planned
<1>5. CASE SelectAction
  <2>1. selected' \in Formula
    BY <1>5, NextReadyIsReady DEF SelectAction, Ready
  <2>2. QED
    BY <1>5, <2>1 DEF SelectAction
<1>6. CASE FinishInFlight \/ FinishHolds \/ ObserveFailure
  BY <1>6 DEF FinishInFlight, FinishHolds, ObserveFailure, Conclude
<1>7. CASE VerifyAfterState \/ AfterStateUnavailable \/ Close
  BY <1>7 DEF VerifyAfterState, AfterStateUnavailable, Close, Conclude, ExitStatus
<1>8. ASSUME NEW f \in Formula, Pour(f) PROVE TypeOK'
  BY <1>8 DEF Pour, Kegs
<1>9. CASE Promote
  BY <1>9 DEF Promote
<1>13. CASE LeaderExits
  <2>1. alive' = TRUE \/ alive' = FALSE
    BY <1>13 DEF LeaderExits
  <2>2. QED
    BY <1>13, <2>1 DEF LeaderExits
<1>14. CASE DescendantsStop
  <2>1. alive' \in BOOLEAN
    BY <1>14 DEF DescendantsStop
  <2>2. UNCHANGED <<collection, prefix, permitted, external, pc, bound, history,
                    remaining, selected, exit, result>>
    BY <1>14 DEF DescendantsStop
  <2>3. QED
    BY <2>1, <2>2
<1>10. ASSUME NEW f \in Formula, ExternalChange(f) PROVE TypeOK'
  <2>1. external' \in 0..MaxExternal
    BY <1>10, MaxExternalIsNat DEF ExternalChange
  <2>2. keg' \in [Formula -> Kegs] /\ requested' \subseteq Formula
    BY <1>10 DEF ExternalChange
  <2>3. QED
    BY <1>10, <2>1, <2>2 DEF ExternalChange
<1>11. CASE Settled \/ UNCHANGED vars
  BY <1>11 DEF Settled, vars
<1>15. CASE ClockMoves
  <2>1. permitted' = TRUE \/ permitted' = FALSE
    BY <1>15 DEF ClockMoves
  <2>2. QED
    BY <1>15, <2>1 DEF ClockMoves
<1>12. QED
  BY <1>1, <1>2, <1>3, <1>4, <1>5, <1>6, <1>7, <1>8, <1>9, <1>10, <1>11,
     <1>13, <1>14, <1>15 DEF Next, Wrapper, Homebrew

-----------------------------------------------------------------------------
\* The parts of the invariant

\* Only Prepare changes the plan.
LEMMA PlanIsBoundStep ==
  ASSUME TypeOK, PlanIsBound, Next
  PROVE  PlanIsBound'
<1> USE DEF PlanIsBound, collection, bound
<1>1. CASE Prepare
  BY <1>1 DEF Prepare, Plannable, Action, Observed
<1>2. CASE Wrapper /\ ~Prepare
  <2>1. pc' \notin {"planning", "closing", "closed"}
          => pc \notin {"planning", "closing", "closed"}
    BY <1>2 DEF Wrapper, PrepareFails, Revalidate, Assess, ExecuteHeld, RunRevalidate,
       RunAdmitted, RunHeld, SelectAction, RunCommand, Wait, FinishInFlight, FinishHolds,
       ObserveFailure, VerifyAfterState, AfterStateUnavailable, Close, Conclude
  <2>2. UNCHANGED <<collection, bound>>
    BY <1>2 DEF Wrapper, PrepareFails, Revalidate, Assess, ExecuteHeld, RunRevalidate,
       RunAdmitted, RunHeld, SelectAction, RunCommand, Wait, FinishInFlight, FinishHolds,
       ObserveFailure, VerifyAfterState, AfterStateUnavailable, Close, Conclude
  <2>3. QED
    BY <2>1, <2>2 DEF Plannable, Action
<1>3. CASE Homebrew \/ (\E f \in Formula : ExternalChange(f)) \/ ClockMoves \/ Settled
  <2>1. UNCHANGED <<pc, collection, bound>>
    BY <1>3 DEF Homebrew, Pour, Promote, LeaderExits, DescendantsStop, ExternalChange,
       ClockMoves, Settled, vars
  <2>2. QED
    BY <2>1 DEF Plannable, Action
<1>4. QED
  BY <1>1, <1>2, <1>3 DEF Next

\* Entry is only set by the second revalidation; marks are only added by Homebrew.
LEMMA EntryIsBeforeStep ==
  ASSUME TypeOK, EntryIsBefore, Next
  PROVE  EntryIsBefore'
<1> USE DEF EntryIsBefore, Executing, bound, history, prefix
<1>1. CASE RunRevalidate
  BY <1>1 DEF RunRevalidate, Observed
<1>2. CASE Wrapper /\ ~RunRevalidate
  BY <1>2 DEF Wrapper, Prepare, PrepareFails, Revalidate, Assess, ExecuteHeld,
     RunAdmitted, RunHeld, SelectAction, RunCommand, Wait, FinishInFlight, FinishHolds,
     ObserveFailure, VerifyAfterState, AfterStateUnavailable, Close, Conclude
<1>3. CASE Homebrew
  BY <1>3 DEF Homebrew, Pour, Promote, LeaderExits, DescendantsStop
<1>4. CASE (\E f \in Formula : ExternalChange(f)) \/ ClockMoves \/ Settled
  BY <1>4 DEF ExternalChange, ClockMoves, Settled, vars
<1>5. QED
  BY <1>1, <1>2, <1>3, <1>4 DEF Next

LEMMA OutcomeIsLastStep ==
  ASSUME TypeOK, OutcomeIsLast, Next
  PROVE  OutcomeIsLast'
<1> USE DEF OutcomeIsLast, Executing, session, result
<1>1. CASE Prepare \/ PrepareFails \/ Revalidate \/ Assess \/ ExecuteHeld
  BY <1>1 DEF Prepare, PrepareFails, Revalidate, Assess, ExecuteHeld, Conclude
<1>2. CASE RunRevalidate \/ RunAdmitted \/ RunHeld \/ SelectAction \/ RunCommand \/ Wait
  BY <1>2 DEF RunRevalidate, RunAdmitted, RunHeld, SelectAction, RunCommand, Wait, Conclude
<1>3. CASE FinishInFlight \/ FinishHolds \/ ObserveFailure \/ VerifyAfterState
             \/ AfterStateUnavailable \/ Close
  BY <1>3 DEF FinishInFlight, FinishHolds, ObserveFailure, VerifyAfterState,
     AfterStateUnavailable, Close, Conclude, ExitStatus
<1>4. CASE Homebrew
  BY <1>4 DEF Homebrew, Pour, Promote, LeaderExits, DescendantsStop
<1>5. CASE (\E f \in Formula : ExternalChange(f)) \/ ClockMoves \/ Settled
  BY <1>5 DEF ExternalChange, ClockMoves, Settled, vars
<1>6. QED
  BY <1>1, <1>2, <1>3, <1>4, <1>5 DEF Next, Wrapper

LEMMA SelectedIsReadyStep ==
  ASSUME TypeOK, SelectedIsReady, Next
  PROVE  SelectedIsReady'
<1> USE DEF SelectedIsReady, Executing, Ready, Planned, collection, bound, session
<1>1. CASE SelectAction
  BY <1>1, NextReadyIsReady DEF SelectAction
<1>2. CASE Wrapper /\ ~SelectAction
  BY <1>2 DEF Wrapper, Prepare, PrepareFails, Revalidate, Assess, ExecuteHeld,
     RunRevalidate, RunAdmitted, RunHeld, RunCommand, Wait, FinishInFlight, FinishHolds,
     ObserveFailure, VerifyAfterState, AfterStateUnavailable, Close, Conclude
<1>3. CASE Homebrew
  BY <1>3 DEF Homebrew, Pour, Promote, LeaderExits, DescendantsStop
<1>4. CASE (\E f \in Formula : ExternalChange(f)) \/ ClockMoves \/ Settled
  BY <1>4 DEF ExternalChange, ClockMoves, Settled, vars
<1>5. QED
  BY <1>1, <1>2, <1>3, <1>4 DEF Next

\* An action joins the finished ones right after it was the selected one.
LEMMA DependenciesFirstStep ==
  ASSUME TypeOK, SelectedIsReady, DependenciesFirst, Next
  PROVE  DependenciesFirst'
<1> USE DEF DependenciesFirst, SelectedIsReady, Executing, Ready, Planned, collection,
            bound, session
<1>1. CASE SelectAction
  BY <1>1, NextReadyIsReady DEF SelectAction
<1>2. CASE FinishInFlight
  BY <1>2 DEF FinishInFlight
<1>3. CASE RunAdmitted
  BY <1>3 DEF RunAdmitted
<1>4. CASE Wrapper /\ ~SelectAction /\ ~FinishInFlight /\ ~RunAdmitted
  BY <1>4 DEF Wrapper, Prepare, PrepareFails, Revalidate, Assess, ExecuteHeld,
     RunRevalidate, RunHeld, RunCommand, Wait, FinishHolds, ObserveFailure,
     VerifyAfterState, AfterStateUnavailable, Close, Conclude
<1>5. CASE Homebrew \/ (\E f \in Formula : ExternalChange(f)) \/ ClockMoves \/ Settled
  <2>1. UNCHANGED <<deps, plan, pc, remaining, selected>>
    BY <1>5 DEF Homebrew, Pour, Promote, LeaderExits, DescendantsStop, ExternalChange,
       ClockMoves, Settled, vars
  <2>2. QED
    BY <2>1
<1>6. QED
  BY <1>1, <1>2, <1>3, <1>4, <1>5 DEF Next

\* Nothing of the plan runs any more once a definite outcome is known.
LEMMA FailureIsTrueStep ==
  ASSUME TypeOK, EntryIsBefore, OutcomeIsLast, FailureIsTrue, Next
  PROVE  FailureIsTrue'
<1> USE DEF FailureIsTrue, OutcomeIsLast, Observed, history, prefix, result
<1>1. CASE ObserveFailure
  BY <1>1 DEF ObserveFailure, Conclude, EntryIsBefore, Executing
<1>2. CASE Prepare \/ PrepareFails \/ Revalidate \/ Assess \/ ExecuteHeld
  BY <1>2 DEF Prepare, PrepareFails, Revalidate, Assess, ExecuteHeld, Conclude
<1>3. CASE RunRevalidate \/ RunAdmitted \/ RunHeld \/ SelectAction \/ RunCommand \/ Wait
  BY <1>3 DEF RunRevalidate, RunAdmitted, RunHeld, SelectAction, RunCommand, Wait, Conclude
<1>4. CASE FinishInFlight \/ FinishHolds \/ VerifyAfterState \/ AfterStateUnavailable
             \/ Close
  BY <1>4 DEF FinishInFlight, FinishHolds, VerifyAfterState, AfterStateUnavailable, Close,
     Conclude
<1>5. CASE Homebrew
  BY <1>5 DEF Homebrew, Pour, Promote, LeaderExits, DescendantsStop
<1>6. CASE (\E f \in Formula : ExternalChange(f)) \/ ClockMoves \/ Settled
  BY <1>6 DEF ExternalChange, ClockMoves, Settled, vars
<1>7. QED
  BY <1>1, <1>2, <1>3, <1>4, <1>5, <1>6 DEF Next, Wrapper

\* What verifyAfterState compares is enough: the installs of the plan are confirmed,
\* and a mark that was there before is still there.
LEMMA VerifiedIsWhole ==
  ASSUME TypeOK, PlanIsBound, EntryIsBefore, ~disturbed, pc = "selecting",
         MatchesPlan(Observed)
  PROVE  /\ \A f \in Formula : keg[f] = "candidate"
         /\ operation = "install" =>
              \A f \in targets : entry.keg[f] # "outdated" => f \in requested
<1>1. \A f \in Formula :
        keg[f] = "candidate" /\ f \notin RequestedInstalls \ requested
  BY DEF MatchesPlan, Plannable, Action, Observed, TypeOK, Kegs
<1>2. ASSUME operation = "install", NEW f \in targets, entry.keg[f] # "outdated"
      PROVE  f \in requested
  <2>1. f \in Formula
    BY DEF TypeOK
  <2>2. entry = before /\ entry.requested \subseteq requested
    BY DEF EntryIsBefore, Executing
  <2>3. plan[f] = Action(before, operation, targets, f) /\ before.keg[f] # "unusable"
    BY <2>1 DEF PlanIsBound, Plannable
  <2>4. CASE f \in before.requested
    BY <2>2, <2>4
  <2>5. CASE f \notin before.requested
    <3>1. plan[f] = "install"
      BY <1>2, <2>2, <2>3, <2>5 DEF Action
    <3>2. QED
      BY <1>1, <2>1, <3>1 DEF RequestedInstalls
  <2>6. QED
    BY <2>4, <2>5
<1>3. QED
  BY <1>1, <1>2

LEMMA SuccessIsWholeStep ==
  ASSUME TypeOK, PlanIsBound, EntryIsBefore, OutcomeIsLast, SuccessIsWhole, Next
  PROVE  SuccessIsWhole'
<1> USE DEF SuccessIsWhole, OutcomeIsLast, collection, history, prefix, result
<1>1. CASE VerifyAfterState
  BY <1>1, VerifiedIsWhole DEF VerifyAfterState, Conclude
<1>2. CASE Prepare \/ PrepareFails \/ Revalidate \/ Assess \/ ExecuteHeld
  BY <1>2 DEF Prepare, PrepareFails, Revalidate, Assess, ExecuteHeld, Conclude
<1>3. CASE RunRevalidate \/ RunAdmitted \/ RunHeld \/ SelectAction \/ RunCommand \/ Wait
  BY <1>3 DEF RunRevalidate, RunAdmitted, RunHeld, SelectAction, RunCommand, Wait, Conclude
<1>4. CASE FinishInFlight \/ FinishHolds \/ ObserveFailure \/ AfterStateUnavailable
             \/ Close
  BY <1>4 DEF FinishInFlight, FinishHolds, ObserveFailure, AfterStateUnavailable, Close,
     Conclude, ExitStatus
<1>5. CASE Homebrew
  BY <1>5 DEF Homebrew, Pour, Promote, LeaderExits, DescendantsStop
<1>6. CASE (\E f \in Formula : ExternalChange(f)) \/ ClockMoves \/ Settled
  BY <1>6 DEF ExternalChange, ClockMoves, Settled, vars
<1>7. QED
  BY <1>1, <1>2, <1>3, <1>4, <1>5, <1>6 DEF Next, Wrapper

-----------------------------------------------------------------------------
\* Theorems of the specification

LEMMA InitiallyPlanned == Init => PlanInvariant
<1> SUFFICES ASSUME Init PROVE PlanInvariant
  OBVIOUS
<1>1. TypeOK
  <2>1. 1 \in Formula
    BY NIsPositive DEF Formula
  <2>2. 0 \in 0..MaxExternal
    BY MaxExternalIsNat
  <2>3. Observed \in Observation
    BY DEF Init, Observed, Observation
  <2>4. QED
    BY <2>1, <2>2, <2>3 DEF Init, TypeOK, Labels, Operations
<1>2. PlanIsBound /\ EntryIsBefore /\ OutcomeIsLast /\ SelectedIsReady
  BY DEF Init, PlanIsBound, EntryIsBefore, OutcomeIsLast, SelectedIsReady, Executing
<1>3. DependenciesFirst /\ FailureIsTrue /\ SuccessIsWhole
  BY DEF Init, DependenciesFirst, FailureIsTrue, SuccessIsWhole, Executing
<1>4. QED
  BY <1>1, <1>2, <1>3 DEF PlanInvariant

LEMMA PlanStep == PlanInvariant /\ [Next]_vars => PlanInvariant'
<1> SUFFICES ASSUME PlanInvariant, [Next]_vars PROVE PlanInvariant'
  OBVIOUS
<1>1. CASE Next
  BY <1>1, TypeStep, PlanIsBoundStep, EntryIsBeforeStep, OutcomeIsLastStep,
     SelectedIsReadyStep, DependenciesFirstStep, FailureIsTrueStep, SuccessIsWholeStep
     DEF PlanInvariant
<1>2. CASE UNCHANGED vars
  <2> USE <1>2 DEF vars, collection, prefix, bound, history, session, result, PlanInvariant
  <2>1. TypeOK'
    BY TypeStep
  <2>2. PlanIsBound' /\ EntryIsBefore' /\ OutcomeIsLast' /\ SelectedIsReady'
    BY DEF PlanIsBound, Plannable, Action, EntryIsBefore, OutcomeIsLast, SelectedIsReady,
       Executing, Ready, Planned
  <2>3. DependenciesFirst' /\ FailureIsTrue' /\ SuccessIsWhole'
    BY DEF DependenciesFirst, FailureIsTrue, SuccessIsWhole, Executing, Planned, Observed
  <2>4. QED
    BY <2>1, <2>2, <2>3
<1>3. QED
  BY <1>1, <1>2

\* The inductive invariant of plan execution.
THEOREM PlanAlways == Spec => []PlanInvariant
BY InitiallyPlanned, PlanStep, PTL DEF Spec

\* No command is ahead of a direct dependency the plan changes (nextReadyAction).
THEOREM DependenciesFirstAlways == Spec => []DependenciesFirst
<1>1. PlanInvariant => DependenciesFirst
  BY DEF PlanInvariant
<1>2. QED
  BY <1>1, PlanAlways, PTL

\* A plan is only executed from a prefix it fits (Revalidate).
THEOREM PlanFitsAlways == Spec => []PlanFitsEntry
<1>1. PlanInvariant => PlanFitsEntry
  <2> SUFFICES ASSUME PlanInvariant, pc \in Executing, NEW f \in Formula
               PROVE  /\ entry.keg[f] # "unusable"
                      /\ plan[f] = "keep" <=>
                           /\ entry.keg[f] = "candidate"
                           /\ operation = "install" /\ f \in targets => f \in entry.requested
                      /\ plan[f] = "upgrade" <=> entry.keg[f] = "outdated"
    BY DEF PlanFitsEntry
  <2>1. entry = before
    BY DEF PlanInvariant, EntryIsBefore
  <2>2. before.keg[f] # "unusable" /\ plan[f] = Action(before, operation, targets, f)
    BY DEF PlanInvariant, PlanIsBound, Plannable, Executing
  <2>3. before.keg[f] \in Kegs
    BY DEF PlanInvariant, TypeOK, Observation
  <2>4. QED
    BY <2>1, <2>2, <2>3 DEF Action, Kegs
<1>2. QED
  BY <1>1, PlanAlways, PTL

\* "Failed" and "Partial" are true of the prefix for as long as no other client touches
\* it (executionOutcome, finishInFlight).
THEOREM FailureAlways == Spec => []FailureIsTrue
<1>1. PlanInvariant => FailureIsTrue
  BY DEF PlanInvariant
<1>2. QED
  BY <1>1, PlanAlways, PTL

\* "Succeeded" is true of every formula of the plan for as long (verifyAfterState).
THEOREM SuccessAlways == Spec => []SuccessIsWhole
<1>1. PlanInvariant => SuccessIsWhole
  BY DEF PlanInvariant
<1>2. QED
  BY <1>1, PlanAlways, PTL

\* As long as an action is pending one can be selected: the error "cyclic execution plan"
\* is unreachable for every graph a plan starts from (nextReadyAction).
THEOREM NeverStuckAlways == Spec => []NeverStuck
<1>1. Init => ValidGraph
  BY DEF Init
<1>2. ValidGraph /\ [Next]_vars => ValidGraph'
  <2>1. [Next]_vars => UNCHANGED <<deps, targets>>
    BY DEF Next, Wrapper, Prepare, PrepareFails, Revalidate, Assess, ExecuteHeld,
       RunRevalidate, RunAdmitted, RunHeld, SelectAction, RunCommand, Wait, FinishInFlight,
       FinishHolds, ObserveFailure, VerifyAfterState, AfterStateUnavailable, Close, Homebrew,
       Pour, Promote, LeaderExits, DescendantsStop, ExternalChange, ClockMoves, Settled,
       vars, collection
  <2>2. QED
    BY <2>1 DEF ValidGraph, Below, Closed
<1>3. TypeOK /\ ValidGraph => NeverStuck
  BY AcyclicHasFirst DEF TypeOK, ValidGraph, NeverStuck, Ready, HasFirst
<1>4. PlanInvariant => TypeOK
  BY DEF PlanInvariant
<1>5. QED
  BY <1>1, <1>2, <1>3, <1>4, PlanAlways, PTL DEF Spec

-----------------------------------------------------------------------------
\* The measure falls

\* At most N actions are pending, and finishing one leaves one less.
LEMMA PendingFacts ==
  ASSUME NEW S \in SUBSET Formula
  PROVE  /\ Cardinality(S) \in Nat /\ Cardinality(S) <= N
         /\ \A f \in S : Cardinality(S \ {f}) = Cardinality(S) - 1 /\ Cardinality(S) > 0
<1>1. IsFiniteSet(Formula) /\ Cardinality(Formula) = N
  BY FS_Interval, NIsPositive DEF Formula
<1>2. IsFiniteSet(S) /\ Cardinality(S) <= N
  BY <1>1, FS_Subset
<1>3. Cardinality(S) \in Nat
  BY <1>2, FS_CardinalityType
<1>4. ASSUME NEW f \in S
      PROVE  Cardinality(S \ {f}) = Cardinality(S) - 1 /\ Cardinality(S) > 0
  <2>1. Cardinality(S) # 0
    BY <1>2, FS_EmptySet
  <2>2. Cardinality(S \ {f}) = Cardinality(S) - 1
    BY <1>2, FS_RemoveElement, Zenon
  <2>3. QED
    BY <1>3, <2>1, <2>2
<1>5. QED
  BY <1>2, <1>3, <1>4

\* Each step of the wrapper lowers the measure: a finished action is not pending again.
LEMMA WrapperMeasureFalls ==
  ASSUME TypeOK, TypeOK', SelectedIsReady, Wrapper
  PROVE  StepsLeft' \in Nat /\ StepsLeft' < StepsLeft
<1> DEFINE pending == Cardinality(remaining)
<1>1. pending \in Nat /\ pending <= N /\ pending' \in Nat /\ pending' <= N /\ N \in Nat
  BY PendingFacts, NIsPositive DEF TypeOK
<1>2. CASE Prepare \/ PrepareFails \/ Revalidate \/ Assess \/ ExecuteHeld
  BY <1>1, <1>2 DEF Prepare, PrepareFails, Revalidate, Assess, ExecuteHeld, Conclude, StepsLeft
<1>3. CASE RunRevalidate \/ RunAdmitted
  BY <1>1, <1>3 DEF RunRevalidate, RunAdmitted, StepsLeft
<1>4. CASE RunHeld \/ SelectAction \/ RunCommand \/ Wait
  <2>1. UNCHANGED remaining
    BY <1>4 DEF RunHeld, SelectAction, RunCommand, Wait
  <2>2. QED
    BY <1>1, <1>4, <2>1 DEF RunHeld, SelectAction, RunCommand, Wait, Conclude, StepsLeft
<1>5. CASE FinishInFlight \/ FinishHolds
  <2>1. selected \in remaining
    BY <1>5 DEF FinishInFlight, FinishHolds, SelectedIsReady, Ready
  <2>2. pending > 0 /\ Cardinality(remaining \ {selected}) = pending - 1
    BY <2>1, PendingFacts DEF TypeOK
  <2>3. CASE FinishInFlight /\ exit = "zero"
    <3>1. pending' = pending - 1
      BY <2>2, <2>3 DEF FinishInFlight
    <3>2. QED
      BY <1>1, <2>2, <2>3, <3>1 DEF FinishInFlight, StepsLeft
  <2>4. CASE FinishInFlight /\ exit # "zero"
    BY <1>1, <2>2, <2>4 DEF FinishInFlight, StepsLeft
  <2>5. CASE FinishHolds
    BY <1>1, <2>2, <2>5 DEF FinishHolds, Conclude, StepsLeft
  <2>6. QED
    BY <1>5, <2>3, <2>4, <2>5
<1>6. CASE ObserveFailure \/ VerifyAfterState \/ AfterStateUnavailable \/ Close
  BY <1>1, <1>6 DEF ObserveFailure, VerifyAfterState, AfterStateUnavailable, Close,
     Conclude, StepsLeft
<1>7. QED
  BY <1>2, <1>3, <1>4, <1>5, <1>6 DEF Wrapper

\* Whatever Homebrew, other clients and the clock do, an attempt only moves towards its
\* end: no action runs twice, no check is repeated (Execute, runPendingActions).
THEOREM AttemptAdvancesAlways == Spec => AttemptAdvances
<1>1. PlanInvariant /\ PlanInvariant' /\ [Next]_vars =>
        [\/ StepsLeft' \in Nat /\ StepsLeft' < StepsLeft
         \/ UNCHANGED <<pc, remaining, result>>]_vars
  <2>1. ASSUME Homebrew \/ (\E f \in Formula : ExternalChange(f)) \/ ClockMoves \/ Settled
        PROVE  UNCHANGED <<pc, remaining, result>>
    BY <2>1 DEF Homebrew, Pour, Promote, LeaderExits, DescendantsStop, ExternalChange,
       ClockMoves, Settled, vars
  <2>2. QED
    BY <2>1, WrapperMeasureFalls DEF Next, PlanInvariant
<1>2. QED
  BY <1>1, PlanAlways, PTL DEF Spec, AttemptAdvances

-----------------------------------------------------------------------------
\* PlanExecution implements CommandSequence

\* The mapped variables change only as CommandSequence allows, or not at all.
LEMMA CommandsSimulation ==
  ASSUME PlanInvariant, TypeOK', [Next]_vars
  PROVE  [Commands!Next]_(Commands!vars)
<1> DEFINE Left == IF Phase = "open" THEN Cardinality(remaining) ELSE 0
           Busy == pc \in {"running", "finishing"}
           Mapped == <<Phase, Left, Busy, alive, outcome>>
<1>1. Cardinality(remaining) \in Nat /\ Cardinality(remaining') \in Nat
  BY PendingFacts DEF PlanInvariant, TypeOK
<1>2. /\ pc \in Labels /\ pc' \in Labels
      /\ alive \in BOOLEAN /\ alive' \in BOOLEAN
  BY DEF PlanInvariant, TypeOK
<1>3. /\ outcome # "none" => pc \in {"closing", "closed"}
      /\ alive => pc \in {"running", "finishing"} \/ outcome = "Unknown"
  BY DEF PlanInvariant, OutcomeIsLast
<1>4. ASSUME Mapped' = Mapped PROVE [Commands!Next]_(Commands!vars)
  BY <1>4 DEF Commands!vars
<1>5. ASSUME NEW r \in {"none", "Succeeded", "Failed", "Partial", "Unknown"},
             Phase # "over", Phase' = "over", ~Busy', alive' = alive, outcome' = r,
             r = "Succeeded" => Phase = "open" /\ Left = 0,
             r \in {"Failed", "Partial"} => Phase = "failed"
      PROVE  Commands!Next
  BY <1>5 DEF Commands!Next, Commands!Conclude
<1>6. CASE Prepare \/ Revalidate \/ Assess \/ RunRevalidate \/ SelectAction \/ Wait
  BY <1>4, <1>6 DEF Prepare, Revalidate, Assess, RunRevalidate, SelectAction, Wait, session,
     result, Phase, Executing
<1>7. CASE PrepareFails \/ ExecuteHeld \/ RunHeld \/ FinishHolds \/ AfterStateUnavailable
  <2>1. outcome' \in {"none", "Unknown"} /\ alive' = alive /\ pc' \in {"closing", "closed"}
    BY <1>3, <1>7 DEF PrepareFails, ExecuteHeld, RunHeld, FinishHolds, AfterStateUnavailable,
       Conclude, session
  <2>2. Phase # "over" /\ Phase' = "over" /\ ~Busy'
    BY <1>7, <2>1 DEF PrepareFails, ExecuteHeld, RunHeld, FinishHolds, AfterStateUnavailable,
       Phase, Executing
  <2>3. QED
    BY <1>5, <2>1, <2>2
<1>8. CASE RunAdmitted
  BY <1>1, <1>8 DEF RunAdmitted, session, result, Phase, Executing, Commands!Next,
     Commands!Admit
<1>9. CASE RunCommand
  \* The selected action is pending, and the session of the one before has ended.
  <2>1. selected \in remaining /\ ~alive
    BY <1>3, <1>9 DEF RunCommand, Executing, PlanInvariant, SelectedIsReady, Ready
  <2>2. Cardinality(remaining) > 0
    BY <2>1, PendingFacts DEF PlanInvariant, TypeOK
  <2>3. QED
    BY <1>9, <2>1, <2>2
       DEF RunCommand, result, Phase, Executing, Commands!Next, Commands!Launch
<1>10. CASE FinishInFlight
  <2>1. /\ pc = "finishing" /\ ~alive /\ UNCHANGED <<alive, outcome>>
        /\ selected \in remaining
    BY <1>10 DEF FinishInFlight, session, result, PlanInvariant, SelectedIsReady, Ready
  <2>2. CASE exit = "zero"
    <3>1. Cardinality(remaining') = Cardinality(remaining) - 1
      BY <1>10, <2>1, <2>2, PendingFacts DEF FinishInFlight, PlanInvariant, TypeOK
    <3>2. QED
      BY <1>10, <2>1, <2>2, <3>1
         DEF FinishInFlight, Phase, Executing, Commands!Next, Commands!Finish
  <2>3. CASE exit # "zero"
    BY <1>10, <2>1, <2>3 DEF FinishInFlight, Phase, Executing, Commands!Next, Commands!Fail
  <2>4. QED
    BY <2>2, <2>3
<1>11. CASE ObserveFailure
  <2>1. /\ pc = "observing" /\ pc' = "closing" /\ alive' = alive
        /\ outcome' \in {"Failed", "Partial"}
    BY <1>11 DEF ObserveFailure, Conclude, session
  <2>2. QED
    BY <1>5, <2>1 DEF Phase, Executing
<1>12. CASE VerifyAfterState
  <2>1. /\ pc = "selecting" /\ remaining = {} /\ pc' = "closing" /\ alive' = alive
        /\ outcome' \in {"Succeeded", "Unknown"}
    BY <1>12 DEF VerifyAfterState, Conclude, session
  <2>2. Cardinality(remaining) = 0
    BY <2>1, FS_EmptySet
  <2>3. QED
    BY <1>5, <2>1, <2>2 DEF Phase, Executing
<1>13. CASE Close
  <2>1. /\ pc = "closing" /\ pc' = "closed" /\ alive' = alive
        /\ outcome' \in {outcome, "Unknown"}
    BY <1>13 DEF Close, session
  <2>2. QED
    BY <1>4, <2>1 DEF Phase, Executing, Commands!Next, Commands!Retract
<1>14. CASE Homebrew
  <2>1. UNCHANGED <<pc, remaining, outcome>> /\ alive
    BY <1>14 DEF Homebrew, Pour, Promote, LeaderExits, DescendantsStop, result
  <2>2. CASE alive' = alive
    BY <1>4, <2>1, <2>2 DEF Phase
  <2>3. CASE alive' # alive
    BY <1>2, <2>1, <2>3 DEF Phase, Commands!Next, Commands!Stop
  <2>4. QED
    BY <2>2, <2>3
<1>15. CASE (\E f \in Formula : ExternalChange(f)) \/ ClockMoves \/ UNCHANGED vars
  <2>1. UNCHANGED <<pc, remaining, alive, outcome>>
    BY <1>15 DEF ExternalChange, ClockMoves, vars, session, result
  <2>2. QED
    BY <1>4, <2>1 DEF Phase
<1>16. QED
  BY <1>6, <1>7, <1>8, <1>9, <1>10, <1>11, <1>12, <1>13, <1>14, <1>15
     DEF Next, Wrapper, Settled

\* Whatever Homebrew, other clients and the clock do, the commands of a plan run in turn
\* and a definite outcome follows the last (runPendingActions, executionOutcome).
THEOREM RunsCommandsInTurnAlways == Spec => RunsCommandsInTurn
<1>1. Init => Commands!Init
  BY DEF Init, Phase, Executing, Commands!Init
<1>2. PlanInvariant /\ PlanInvariant' /\ [Next]_vars => [Commands!Next]_(Commands!vars)
  BY CommandsSimulation DEF PlanInvariant
<1>3. QED
  BY <1>1, <1>2, PlanAlways, PTL DEF Spec, RunsCommandsInTurn, Commands!Spec

=============================================================================
