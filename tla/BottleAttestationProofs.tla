---------------------- MODULE BottleAttestationProofs ----------------------
(***************************************************************************)
(* What two equal digests around a verification show, and that the age is   *)
(* that of the first publication, for every content, set of attestations,   *)
(* limit and number of rewritten files.                                     *)
(***************************************************************************)
EXTENDS BottleAttestation, TLAPS

AfterHash == {"bottle", "version", "verify", "rehash verifier", "rehash bottle", "parse",
              "verified"}
AfterBottleHash == AfterHash \ {"bottle"}
AfterVersion == AfterBottleHash \ {"version"}
AfterRun == AfterVersion \ {"verify"}
AfterVerifierRehash == AfterRun \ {"rehash verifier"}
AfterBottleRehash == AfterVerifierRehash \ {"rehash bottle"}

\* The variables the argument is about keep their types.
TypeOK ==
  /\ pc \in {"verifier", "held"} \cup AfterHash
  /\ disk \in [File -> AnyContent]
  /\ earlier \in [File -> SUBSET AnyContent]
  /\ restored \in SUBSET File
  /\ public \in SUBSET Attestations
  /\ answer \in SUBSET Attestations
  /\ digest \in [File -> AnyContent \cup {None}]

\* A file that was never put back contains something new.
FreshUnlessRestored ==
  \A f \in File : f \notin restored => disk[f] \notin earlier[f]

\* If a file no longer is what was digested, it has been; so is what was read since.
DigestIsPast ==
  /\ pc \in AfterHash => digest["gh"] \in earlier["gh"] \cup {disk["gh"]}
  /\ pc \in AfterBottleHash =>
       /\ digest["bottle"] = Candidate
       /\ digest["bottle"] \in earlier["bottle"] \cup {disk["bottle"]}
  /\ pc \in AfterVersion =>
       version = Version[digest["gh"]] \/ digest["gh"] \in earlier["gh"]
  /\ pc \in AfterRun =>
       /\ ran = digest["gh"] \/ digest["gh"] \in earlier["gh"]
       /\ read = digest["bottle"] \/ digest["bottle"] \in earlier["bottle"]

\* Once digested again, a file was the same in between or has been put back.
RehashDecides ==
  /\ pc \in AfterVerifierRehash /\ "gh" \notin restored =>
       ran = digest["gh"] /\ version = Version[digest["gh"]]
  /\ pc \in AfterBottleRehash /\ "bottle" \notin restored => read = Candidate

\* An answer of gh lacks no trusted statement but those published later, unless it
\* reached the limit.
AnswerIsWhole ==
  pc \in AfterRun /\ ran \in Genuine =>
    /\ answer \subseteq For(read, public)
    /\ \/ Cardinality(answer) = Limit
       \/ \A a \in For(read, public) \ answer :
            a.trusted => \A t \in a.times : t >= Now

\* The claims are made of an accepted answer.
EvidenceIsOfAnswer ==
  pc = "verified" =>
    /\ evidence.version = version
    /\ Complete(answer)
    /\ \A a \in answer : MatchesSubjectAndSigner(a) /\ Dated(a)
    /\ Oldest(evidence.publishedAt, Times(answer) \cup {Now})

AttestationInvariant ==
  /\ TypeOK
  /\ FreshUnlessRestored
  /\ DigestIsPast
  /\ RehashDecides
  /\ AnswerIsWhole
  /\ EvidenceIsOfAnswer

LEMMA InitHolds == Init => AttestationInvariant
BY DEF Init, AttestationInvariant, TypeOK, FreshUnlessRestored, DigestIsPast,
       RehashDecides, AnswerIsWhole, EvidenceIsOfAnswer, AfterHash, AfterBottleHash,
       AfterVersion, AfterRun, AfterVerifierRehash, AfterBottleRehash, File

\* Rewriting a file keeps what was in it among the earlier contents.
LEMMA RewriteKeeps ==
  ASSUME AttestationInvariant, NEW f \in File, NEW c \in Content[f], Rewrite(f, c)
  PROVE  AttestationInvariant'
<1> USE DEF files, run
<1>1. /\ disk' = [disk EXCEPT ![f] = c]
      /\ earlier' = [earlier EXCEPT ![f] = @ \cup {disk[f]}]
      /\ restored \subseteq restored'
      /\ c \in earlier[f] => f \in restored'
      /\ c # disk[f]
      /\ restored' \in {restored, restored \cup {f}}
      /\ UNCHANGED <<pc, public, digest, version, ran, read, answer, evidence>>
  BY DEF Rewrite
<1>2. TypeOK'
  <2>1. c \in AnyContent /\ disk[f] \in AnyContent
    BY DEF AnyContent, AttestationInvariant, TypeOK
  <2>2. disk' \in [File -> AnyContent]
    BY <1>1, <2>1 DEF AttestationInvariant, TypeOK
  <2>3. earlier[f] \cup {disk[f]} \in SUBSET AnyContent
    BY <2>1 DEF AttestationInvariant, TypeOK
  <2>4. earlier' \in [File -> SUBSET AnyContent]
    BY <1>1, <2>3 DEF AttestationInvariant, TypeOK
  <2> QED BY <1>1, <2>2, <2>4 DEF AttestationInvariant, TypeOK
<1>3. \A g \in File :
        /\ disk[g] \in earlier'[g] \cup {disk'[g]}
        /\ earlier[g] \subseteq earlier'[g]
  BY <1>1 DEF AttestationInvariant, TypeOK
<1>4. FreshUnlessRestored'
  <2> SUFFICES ASSUME NEW g \in File, g \notin restored' PROVE disk'[g] \notin earlier'[g]
    BY DEF FreshUnlessRestored
  <2>1. CASE g = f
    BY <2>1, <1>1 DEF AttestationInvariant, TypeOK
  <2>2. CASE g # f
    BY <2>2, <1>1 DEF AttestationInvariant, TypeOK, FreshUnlessRestored
  <2> QED BY <2>1, <2>2
<1>5. DigestIsPast'
  BY <1>1, <1>3 DEF AttestationInvariant, DigestIsPast, File
<1>6. RehashDecides'
  BY <1>1 DEF AttestationInvariant, RehashDecides
<1>7. AnswerIsWhole' /\ EvidenceIsOfAnswer'
  BY <1>1 DEF AttestationInvariant, AnswerIsWhole, EvidenceIsOfAnswer, For, Complete,
              MatchesSubjectAndSigner, Dated, Oldest, Times
<1> QED BY <1>2, <1>4, <1>5, <1>6, <1>7 DEF AttestationInvariant

LEMMA StepHolds == AttestationInvariant /\ [Next]_vars => AttestationInvariant'
<1> SUFFICES ASSUME AttestationInvariant, [Next]_vars PROVE AttestationInvariant'
  OBVIOUS
<1> USE DEF files, run, AfterHash, AfterBottleHash, AfterVersion, AfterRun,
            AfterVerifierRehash, AfterBottleRehash
<1>1. CASE HashVerifier
  BY <1>1 DEF HashVerifier, AttestationInvariant, TypeOK, FreshUnlessRestored,
              DigestIsPast, RehashDecides, AnswerIsWhole, EvidenceIsOfAnswer, File
<1>2. CASE HashBottle
  BY <1>2 DEF HashBottle, AttestationInvariant, TypeOK, FreshUnlessRestored,
              DigestIsPast, RehashDecides, AnswerIsWhole, EvidenceIsOfAnswer, File
<1>3. CASE CheckedVersion
  BY <1>3 DEF CheckedVersion, AttestationInvariant, TypeOK, FreshUnlessRestored,
              DigestIsPast, RehashDecides, AnswerIsWhole, EvidenceIsOfAnswer
<1>4. ASSUME NEW results \in SUBSET Attestations, RunGH(results)
      PROVE  AttestationInvariant'
  <2>1. TypeOK' /\ FreshUnlessRestored' /\ RehashDecides' /\ EvidenceIsOfAnswer'
    BY <1>4 DEF RunGH, AttestationInvariant, TypeOK, FreshUnlessRestored,
                RehashDecides, EvidenceIsOfAnswer
  <2>2. DigestIsPast'
    BY <1>4 DEF RunGH, AttestationInvariant, DigestIsPast
  <2>3. AnswerIsWhole'
    BY <1>4 DEF RunGH, MayAnswer, AnswerIsWhole, For
  <2> QED BY <2>1, <2>2, <2>3 DEF AttestationInvariant
<1>5. CASE RehashVerifier
  <2>1. TypeOK' /\ FreshUnlessRestored' /\ DigestIsPast' /\ EvidenceIsOfAnswer'
    BY <1>5 DEF RehashVerifier, AttestationInvariant, TypeOK, FreshUnlessRestored,
                DigestIsPast, EvidenceIsOfAnswer
  <2>2. AnswerIsWhole'
    BY <1>5 DEF RehashVerifier, AttestationInvariant, AnswerIsWhole, For
  <2>3. RehashDecides'
    BY <1>5 DEF RehashVerifier, AttestationInvariant, FreshUnlessRestored, DigestIsPast,
                RehashDecides, File
  <2> QED BY <2>1, <2>2, <2>3 DEF AttestationInvariant
<1>6. CASE RehashBottle
  <2>1. TypeOK' /\ FreshUnlessRestored' /\ DigestIsPast' /\ EvidenceIsOfAnswer'
    BY <1>6 DEF RehashBottle, AttestationInvariant, TypeOK, FreshUnlessRestored,
                DigestIsPast, EvidenceIsOfAnswer
  <2>2. AnswerIsWhole'
    BY <1>6 DEF RehashBottle, AttestationInvariant, AnswerIsWhole, For
  <2>3. RehashDecides'
    BY <1>6 DEF RehashBottle, AttestationInvariant, FreshUnlessRestored, DigestIsPast,
                RehashDecides, File
  <2> QED BY <2>1, <2>2, <2>3 DEF AttestationInvariant
<1>7. ASSUME NEW t \in Times(answer) \cup {Now}, VerifyEvidence(t)
      PROVE  AttestationInvariant'
  <2>1. TypeOK' /\ FreshUnlessRestored' /\ DigestIsPast' /\ RehashDecides'
    BY <1>7 DEF VerifyEvidence, AttestationInvariant, TypeOK, FreshUnlessRestored,
                DigestIsPast, RehashDecides
  <2>2. AnswerIsWhole'
    BY <1>7 DEF VerifyEvidence, AttestationInvariant, AnswerIsWhole, For
  <2>3. EvidenceIsOfAnswer'
    BY <1>7 DEF VerifyEvidence, EvidenceIsOfAnswer, Complete, MatchesSubjectAndSigner,
                Dated, Oldest, Times
  <2> QED BY <2>1, <2>2, <2>3 DEF AttestationInvariant
<1>8. CASE Hold
  BY <1>8 DEF Hold, AttestationInvariant, TypeOK, FreshUnlessRestored,
              DigestIsPast, RehashDecides, AnswerIsWhole, EvidenceIsOfAnswer
<1>9. CASE Finished \/ UNCHANGED vars
  <2>1. UNCHANGED vars
    BY <1>9 DEF Finished
  <2>2. TypeOK' /\ FreshUnlessRestored' /\ DigestIsPast' /\ RehashDecides'
    BY <2>1 DEF vars, AttestationInvariant, TypeOK, FreshUnlessRestored, DigestIsPast,
                RehashDecides
  <2>3. AnswerIsWhole'
    BY <2>1 DEF vars, AttestationInvariant, AnswerIsWhole, For
  <2>4. EvidenceIsOfAnswer'
    BY <2>1 DEF vars, AttestationInvariant, EvidenceIsOfAnswer, Complete,
                MatchesSubjectAndSigner, Dated, Oldest, Times
  <2> QED BY <2>2, <2>3, <2>4 DEF AttestationInvariant
<1>10. ASSUME NEW f \in File, NEW c \in Content[f], Rewrite(f, c)
       PROVE  AttestationInvariant'
  BY <1>10, RewriteKeeps
<1>11. ASSUME NEW a \in Attestations, Publish(a) PROVE AttestationInvariant'
  <2>1. TypeOK' /\ FreshUnlessRestored' /\ DigestIsPast' /\ RehashDecides'
    BY <1>11 DEF Publish, AttestationInvariant, TypeOK, FreshUnlessRestored,
                 DigestIsPast, RehashDecides
  <2>2. AnswerIsWhole'
    BY <1>11 DEF Publish, AttestationInvariant, AnswerIsWhole, For
  <2>3. EvidenceIsOfAnswer'
    BY <1>11 DEF Publish, AttestationInvariant, EvidenceIsOfAnswer, Complete,
                 MatchesSubjectAndSigner, Dated, Oldest, Times
  <2> QED BY <2>1, <2>2, <2>3 DEF AttestationInvariant
<1> QED BY <1>1, <1>2, <1>3, <1>4, <1>5, <1>6, <1>7, <1>8, <1>9, <1>10, <1>11 DEF Next

\* The inductive invariant of one verification, for any contents and attestations.
THEOREM AttestationInvariantAlways == Spec => []AttestationInvariant
BY InitHolds, StepHolds, PTL DEF Spec

\* Equal digests before and after show what was verified and by what, unless a file was
\* put back.
THEOREM VerifiedWhatWasHashedAlways == Spec => []VerifiedWhatWasHashed
<1>1. AttestationInvariant => VerifiedWhatWasHashed
  BY DEF AttestationInvariant, RehashDecides, EvidenceIsOfAnswer, VerifiedWhatWasHashed,
         Unrestored, AfterHash, AfterBottleHash, AfterVersion, AfterRun,
         AfterVerifierRehash, AfterBottleRehash
<1> QED BY <1>1, AttestationInvariantAlways, PTL

\* The age is that of the first trusted statement about the candidate.
THEOREM AgeIsFirstPublicationAlways == Spec => []AgeIsFirstPublication
<1>1. AttestationInvariant => AgeIsFirstPublication
  <2> SUFFICES ASSUME AttestationInvariant, Unrestored, ran \in Genuine
               PROVE  Oldest(evidence.publishedAt, Times(StatementsOfCandidate))
    BY DEF AgeIsFirstPublication
  <2> DEFINE t == evidence.publishedAt
  <2>1. /\ read = Candidate
        /\ answer \subseteq For(Candidate, public)
        /\ \/ Cardinality(answer) = Limit
           \/ \A a \in For(Candidate, public) \ answer :
                a.trusted => \A u \in a.times : u >= Now
    BY DEF Unrestored, AttestationInvariant, RehashDecides, AnswerIsWhole, AfterHash,
           AfterBottleHash, AfterVersion, AfterRun, AfterVerifierRehash, AfterBottleRehash
  <2>2. /\ Complete(answer)
        /\ \A a \in answer : MatchesSubjectAndSigner(a) /\ Dated(a)
        /\ Oldest(t, Times(answer) \cup {Now})
    BY DEF Unrestored, AttestationInvariant, EvidenceIsOfAnswer
  <2>3. Cardinality(answer) # Limit /\ answer # {}
    <3>1. Cardinality(answer) < Limit => Cardinality(answer) # Limit
      BY InputsAreTyped
    <3> QED BY <3>1, <2>2 DEF Complete
  <2>4. answer \subseteq StatementsOfCandidate
    BY <2>1, <2>2 DEF StatementsOfCandidate, For, MatchesSubjectAndSigner
  <2>5. StatementsOfCandidate \subseteq For(Candidate, public)
    BY DEF StatementsOfCandidate, For
  <2>6. \A a \in public : a.times \subseteq Int
    BY InputsAreTyped DEF AttestationInvariant, TypeOK, AttestationType
  <2>7. t \in Int /\ t <= Now
    BY <2>1, <2>2, <2>6, InputsAreTyped DEF Oldest, Times, For
  <2>8. t \in Times(answer)
    <3>1. PICK a \in answer : Dated(a)
      BY <2>2, <2>3
    <3>2. PICK u \in a.times : u <= Now
      BY <3>1 DEF Dated
    <3>3. u \in Times(answer) /\ u \in Int
      BY <3>1, <3>2, <2>1, <2>6 DEF Times, For
    <3>4. t <= u
      BY <3>3, <2>2 DEF Oldest
    <3>5. CASE t = Now
      BY <3>2, <3>3, <3>4, <3>5, InputsAreTyped
    <3>6. CASE t # Now
      BY <3>6, <2>2 DEF Oldest
    <3> QED BY <3>5, <3>6
  <2>9. ASSUME NEW a \in StatementsOfCandidate, NEW u \in a.times PROVE t <= u
    <3>1. CASE a \in answer
      BY <3>1, <2>2 DEF Oldest, Times
    <3>2. CASE a \notin answer
      <4>1. u >= Now /\ u \in Int
        BY <3>2, <2>1, <2>3, <2>5, <2>6 DEF For, StatementsOfCandidate
      <4> QED BY <4>1, <2>7, InputsAreTyped
    <3> QED BY <3>1, <3>2
  <2> QED BY <2>4, <2>8, <2>9 DEF Oldest, Times
<1> QED BY <1>1, AttestationInvariantAlways, PTL

=============================================================================
