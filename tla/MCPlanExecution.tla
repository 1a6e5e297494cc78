-------------------------- MODULE MCPlanExecution --------------------------
\* Instances of PlanExecution for TLC.
EXTENDS PlanExecution

\* An upgrade of installed formulae over every graph and target set, from every mix of
\* outdated and current ones: the states that matter to the order of commands.
UpgradeInit ==
  /\ Init
  /\ operation = "upgrade"
  /\ requested = {}
  /\ permitted
  /\ \A f \in Formula : keg[f] \in {"outdated", "candidate"}

UpgradeSpec == UpgradeInit /\ [][Next]_vars

\* The third formula is requested, at its candidate, and apart from the others.
ThirdIsApart ==
  /\ deps[3] = {} /\ \A f \in Formula : 3 \notin deps[f]
  /\ keg[3] = "candidate" /\ 3 \in requested

\* Either two formulae in every state, which independent clients may change too, or an
\* upgrade of three over any graph, which only Homebrew's own sessions change.
PairOrUpgrade ==
  /\ Init
  /\ \/ ThirdIsApart
     \/ /\ operation = "upgrade" /\ requested = {} /\ permitted
        /\ \A f \in Formula : keg[f] \in {"outdated", "candidate"}

PairOrUpgradeSpec ==
  /\ PairOrUpgrade
  /\ [][Next /\ (external' # external => ThirdIsApart /\ ThirdIsApart')]_vars
  /\ WF_vars(Wrapper)
  /\ WF_vars(LeaderExits)

=============================================================================
