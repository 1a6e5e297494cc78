--------------------------- MODULE MCAdvisoryScan ---------------------------
\* Instances of AdvisoryScan for TLC.
EXTENDS AdvisoryScan, TLC

CONSTANTS f1, f2, a1, i1, i2, i3

Formulae == {f1, f2}

\* One advisory with an alias, and an identifier of another one.
OneAdvisory == {a1}
Identifiers == {i1, i2, i3}
AdvisoryNames == a1 :> {i1, i2}

Kept(id, state, upstream) == [id |-> id, state |-> state, upstream |-> upstream]

\* An open record, the same record patched under the alias, and a patch of another
\* advisory.
Records ==
  {Kept(i1, "open", {i1}), Kept(i1, "patched", {i2}), Kept(i3, "patched", {i3})}

Symmetry == Permutations(Formulae)

=============================================================================
