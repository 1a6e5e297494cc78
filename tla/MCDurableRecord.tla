--------------------------- MODULE MCDurableRecord ---------------------------
\* Instances of DurableRecord for TLC.
EXTENDS DurableRecord, TLC

\* Invocations only differ in what they have done.
Symmetry == Permutations(Invocation)

=============================================================================
