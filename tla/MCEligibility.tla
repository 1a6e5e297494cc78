--------------------------- MODULE MCEligibility ---------------------------
\* Instances of Eligibility for TLC.
EXTENDS Eligibility

CONSTANTS a1, a2

Item(place, claim, status, from, until) ==
  [place |-> place, claim |-> claim, subject |-> a1, wellFormed |-> TRUE,
   status |-> status, observedAt |-> from, expiresAt |-> until, publishedAt |-> 0,
   publication |-> "other", applicability |-> "other"]

TwoArtifacts == {a1, a2}

\* What an item of the first artifact can be wrong about, with duplicates.
OneIntegrity == {"provenance"}
Bad == Item(3, "provenance", "failed", 1, 4)
MixedEvidence ==
  {Item(1, "provenance", s, 1, 4) : s \in {"verified", "failed", "other"}}
  \cup {Item(2, "provenance", "verified", 1, 4)}
  \cup {[Item(1, "vulnerabilities", "verified", 1, 4) EXCEPT !.applicability = "clear"],
        [Item(1, "vulnerabilities", "verified", 2, 3) EXCEPT !.applicability = "affected"],
        Item(1, "vulnerabilities", "verified", 1, 4)}
  \cup {[Item(1, "publication", "verified", 1, 5) EXCEPT
           !.publishedAt = p, !.publication = "attestation"] : p \in {1, 3}}
  \cup {[Item(2, "publication", "verified", 1, 5) EXCEPT !.publishedAt = 1]}
  \cup {[Bad EXCEPT !.subject = "other"], [Bad EXCEPT !.claim = "other"],
        [Bad EXCEPT !.wellFormed = FALSE]}

\* All there must be about the second artifact, published at time p.
Complete(p) ==
  {[Item(1, c, "verified", 1, 5) EXCEPT !.subject = a2, !.publishedAt = p,
      !.publication = "attestation", !.applicability = "clear"] :
     c \in {"provenance", "publication", "vulnerabilities"}}

AnyEvidence == MixedEvidence \cup Complete(1)

\* Valid exceptions for one artifact and for both, and one of each kind that is not.
Waiver == [bound |-> TRUE, reasoned |-> TRUE, issuedAt |-> 1, expiresAt |-> 4, waived |-> {a1}]
SomeExceptions ==
  {Waiver, [Waiver EXCEPT !.waived = TwoArtifacts],
   [Waiver EXCEPT !.waived = TwoArtifacts, !.expiresAt = 2],
   [Waiver EXCEPT !.bound = FALSE], [Waiver EXCEPT !.reasoned = FALSE],
   [Waiver EXCEPT !.waived = {}]}

\* The evidence of the second artifact is complete, and its bottle young at first; that
\* of the first is assembled.
SecondCompleteSpec ==
  /\ wellFormed \in BOOLEAN
  /\ evidence = [a \in TwoArtifacts |-> IF a = a2 THEN Complete(1) ELSE {}]
  /\ exception = None
  /\ now = 1
  /\ [][Next /\ UNCHANGED evidence[a2] /\ evidence'[a1] \subseteq MixedEvidence]_vars

=============================================================================
