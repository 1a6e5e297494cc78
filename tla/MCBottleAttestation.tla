------------------------ MODULE MCBottleAttestation ------------------------
\* Instances of BottleAttestation for TLC.
EXTENDS BottleAttestation, TLC

CONSTANTS c1, c2, g1, g2, x1

\* The candidate's bytes and others; gh, an upgrade of it, and something else.
Contents == [gh |-> {g1, g2, x1}, bottle |-> {c1, c2}]
GenuineContents == {g1, g2}
Versions == (g1 :> <<2, 101, 0>>) @@ (g2 :> <<2, 66, 3>>) @@ (x1 :> <<2, 65, 0>>)

\* The artifact is an "all" bottle, known under two names.
Names == {"all", "platform"}

Subject(n, b) == [name |-> n, bytes |-> b]
Attest(i, subjects, times) ==
  [id |-> i, trusted |-> TRUE, rekor |-> TRUE, subjects |-> subjects, times |-> times]

\* Four attestations that are accepted, and one of each kind that is not.
Old == Attest(1, {Subject("platform", c1), Subject("other", c2)}, {2, 3})
Second == Attest(2, {Subject("all", c1)}, {3})
Recent == Attest(3, {Subject("all", c1)}, {4})
Later == Attest(4, {Subject("all", c1)}, {5})
Mixed == Attest(5, {Subject("all", c1), Subject("platform", c2)}, {1})
Foreign == [Attest(6, {Subject("all", c1)}, {1}) EXCEPT !.trusted = FALSE]
Rebuilt == Attest(7, {Subject("all", c2)}, {1})

SomeAttestations == {Old, Second, Recent, Later, Mixed, Foreign, Rebuilt}

=============================================================================
