------------------------- MODULE MCCandidateBinding -------------------------
\* Instances of CandidateBinding for TLC.
EXTENDS CandidateBinding, TLC

CONSTANTS brew, lib, ruby, root, dep

\* Two reviewed releases, which differ in one file, and a commit without that file;
\* portable Ruby is copied but not tracked.
Files == {brew, lib, ruby}
TrackedFiles == {brew, lib}
Versions == {"old", "new", Absent}
Trees ==
  [r \in {"legacy", "next", "dev"} |->
     (brew :> "old")
     @@ (lib :> CASE r = "legacy" -> "old" [] r = "next" -> "new" [] OTHER -> Absent)]
LegacyFiles == [f \in Files |-> "old"]

\* Between two snapshots the named formula changes and its dependency does not.
Snapshots == {"first", "second"}
Bottles == {"root1", "root2", "dep1"}
Offered ==
  ("first" :> (root :> "root1" @@ dep :> "dep1"))
  @@ ("second" :> (root :> "root2" @@ dep :> "dep1"))

\* Files and inputs are worked off in one order, as directories are walked.
InOrder ==
  stage' = stage /\ todo' # todo => todo' = todo \ {CHOOSE x \in todo : TRUE}

WalkSpec == Init /\ [][Next /\ InOrder]_vars

=============================================================================
