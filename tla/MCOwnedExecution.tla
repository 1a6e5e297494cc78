-------------------------- MODULE MCOwnedExecution --------------------------
\* Instances of OwnedExecution for TLC.
EXTENDS OwnedExecution, TLC

\* Invocations only differ in what they have done.
Symmetry == Permutations(Invocation)

=============================================================================
