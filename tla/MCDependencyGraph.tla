------------------------- MODULE MCDependencyGraph -------------------------
\* Every graph over three artifacts with lists of at most two elements.
EXTENDS DependencyGraph

ShortLists == UNION {[1..n -> Artifact] : n \in 0..2}

=============================================================================
