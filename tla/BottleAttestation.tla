------------------------- MODULE BottleAttestation -------------------------
(***************************************************************************)
(* PublicGH.VerifyEvidence for one collected bottle.  The bottle and the    *)
(* installed gh are digested, gh is executed twice, and both are digested   *)
(* again; meanwhile another process may rewrite either file and further     *)
(* attestations of the same bytes are published.  The age of the bottle is  *)
(* that of its oldest verified timestamp.                                   *)
(***************************************************************************)
EXTENDS Integers, FiniteSets

CONSTANTS
  Content,       \* what each file may contain; a digest is the content itself
  Candidate,     \* the bytes the authenticated metadata names
  Genuine,       \* the contents that, executed, are the GitHub CLI
  Version,       \* the version an executable reports: <<major, minor, patch>>
  Accepted,      \* the subject names of the artifact: its own and, for an "all"
                 \* bottle, that of the merged platform bottle
  Attestations,  \* the attestations that exist or may be published
  None,          \* nothing read yet
  Now,           \* the time of the collection
  Limit,         \* bound on the results gh returns (100 in the code)
  MaxRewrites    \* bound on rewritten files

File == {"gh", "bottle"}

AnyContent == UNION {Content[f] : f \in File}

\* trusted: signer, issuer, repository, runner and statement type are those of the
\* Homebrew workflows.  A subject is a name and the bytes it stands for.  times are the
\* verified timestamps; rekor: all of them are of that log.
AttestationType ==
  [id : Nat, trusted : BOOLEAN, rekor : BOOLEAN,
   subjects : SUBSET [name : STRING, bytes : Content["bottle"]], times : SUBSET Int]

ASSUME InputsAreTyped ==
  /\ Candidate \in Content["bottle"] /\ Genuine \subseteq Content["gh"]
  /\ \A f \in File : None \notin Content[f]
  /\ Attestations \subseteq AttestationType
  /\ Now \in Int /\ Now > 0 /\ Limit \in Nat /\ MaxRewrites \in Nat

VARIABLES
  pc,        \* the step verifyBottle is at
  disk,      \* what each file contains
  earlier,   \* what it contained before
  restored,  \* the files rewritten with something they contained before
  rewrites,  \* how many files were rewritten
  public,    \* the attestations published so far
  digest,    \* the first digest of each file
  version,   \* the version gh reported
  ran,       \* the executable that verified
  read,      \* the bytes it read
  answer,    \* the results it returned
  evidence   \* the claims made of them, or None

files == <<disk, earlier, restored, rewrites>>
run == <<version, ran, read, answer>>
vars == <<pc, files, public, digest, run, evidence>>

-----------------------------------------------------------------------------
\* Pure parts

\* supportedGHVersion: 2.66.0 through 2.101.0
SupportedGHVersion(v) ==
  /\ v[1] = 2
  /\ 66 <= v[2] /\ v[2] <= 101
  /\ v[2] = 101 => v[3] = 0

\* verifiedResultMatchesSubjectAndSigner: every subject under an accepted name has the
\* candidate's digest, and there is one.
MatchesSubjectAndSigner(a) ==
  LET named == {s \in a.subjects : s.name \in Accepted}
  IN a.trusted /\ named # {} /\ \A s \in named : s.bytes = Candidate

\* verifiedResultOldestTimestamp accepts the result.
Dated(a) ==
  a.times # {} /\ a.rekor /\ \A t \in a.times : 0 < t /\ t <= Now

\* Bug: a result set that reaches the limit is taken for complete.
BugComplete(results) == results # {} /\ Cardinality(results) <= Limit

\* oldestVerifiedTimestamp: a result set that reaches the limit may be cut off.
Complete(results) == results # {} /\ Cardinality(results) < Limit

Times(results) == UNION {a.times : a \in results}

\* t is the smallest of the times.
Oldest(t, times) == t \in times /\ \A u \in times : t <= u

\* What the service has for these bytes; it knows nothing of names.
For(bytes, attestations) ==
  {a \in attestations : \E s \in a.subjects : s.bytes = bytes}

-----------------------------------------------------------------------------
\* The environment

\* Another process, an upgrade of gh or a user rewrites a file.
Rewrite(f, c) ==
  /\ rewrites < MaxRewrites
  /\ c # disk[f]
  /\ disk' = [disk EXCEPT ![f] = c]
  /\ earlier' = [earlier EXCEPT ![f] = @ \cup {disk[f]}]
  /\ restored' = IF c \in earlier[f] THEN restored \cup {f} ELSE restored
  /\ rewrites' = rewrites + 1
  /\ UNCHANGED <<pc, public, digest, run, evidence>>

\* A transparency log is append-only: what is published from now on is not older.
Publish(a) ==
  /\ a \notin public
  /\ \A t \in a.times : t >= Now
  /\ public' = public \cup {a}
  /\ UNCHANGED <<pc, files, digest, run, evidence>>

\* What executable tool may answer about bytes: gh returns the published attestations
\* of the bytes that it verified, all trusted ones among them unless it reached the
\* limit, and any other executable anything.
MayAnswer(tool, bytes, results) ==
  tool \in Genuine =>
    /\ results \subseteq For(bytes, public)
    /\ \/ {a \in For(bytes, public) : a.trusted} \subseteq results
       \/ Cardinality(results) = Limit

-----------------------------------------------------------------------------
\* verifyBottle

Init ==
  /\ pc = "verifier"
  /\ disk \in {d \in [File -> AnyContent] : \A f \in File : d[f] \in Content[f]}
  /\ earlier = [f \in File |-> {}]
  /\ restored = {}
  /\ rewrites = 0
  /\ public \in SUBSET Attestations
  /\ digest = [f \in File |-> None]
  /\ version = None
  /\ ran = None
  /\ read = None
  /\ answer = {}
  /\ evidence = None

HashVerifier ==
  /\ pc = "verifier"
  /\ pc' = "bottle"
  /\ digest' = [digest EXCEPT !["gh"] = disk["gh"]]
  /\ UNCHANGED <<files, public, run, evidence>>

HashBottle ==
  /\ pc = "bottle"
  /\ disk["bottle"] = Candidate
  /\ pc' = "version"
  /\ digest' = [digest EXCEPT !["bottle"] = disk["bottle"]]
  /\ UNCHANGED <<files, public, run, evidence>>

CheckedVersion ==
  /\ pc = "version"
  /\ SupportedGHVersion(Version[disk["gh"]])
  /\ pc' = "verify"
  /\ version' = Version[disk["gh"]]
  /\ UNCHANGED <<files, public, digest, ran, read, answer, evidence>>

\* gh attestation verify, within its time and output bounds.
RunGH(results) ==
  /\ pc = "verify"
  /\ MayAnswer(disk["gh"], disk["bottle"], results)
  /\ pc' = "rehash verifier"
  /\ ran' = disk["gh"]
  /\ read' = disk["bottle"]
  /\ answer' = results
  /\ UNCHANGED <<files, public, digest, version, evidence>>

\* Bug: the verifier is not digested again.
BugRehashVerifier ==
  /\ pc = "rehash verifier"
  /\ pc' = "rehash bottle"
  /\ UNCHANGED <<files, public, digest, run, evidence>>

RehashVerifier ==
  /\ pc = "rehash verifier"
  /\ disk["gh"] = digest["gh"]
  /\ pc' = "rehash bottle"
  /\ UNCHANGED <<files, public, digest, run, evidence>>

RehashBottle ==
  /\ pc = "rehash bottle"
  /\ disk["bottle"] = digest["bottle"]
  /\ pc' = "parse"
  /\ UNCHANGED <<files, public, digest, run, evidence>>

\* oldestVerifiedTimestamp accepts the answer, and VerifyEvidence makes both claims of
\* it; the collector binds each to its place and to the same raw answer.
VerifyEvidence(t) ==
  /\ pc = "parse"
  /\ Complete(answer)
  /\ \A a \in answer : MatchesSubjectAndSigner(a) /\ Dated(a)
  /\ Oldest(t, Times(answer) \cup {Now})
  /\ pc' = "verified"
  /\ evidence' = [version |-> version, raw |-> answer, publishedAt |-> t]
  /\ UNCHANGED <<files, public, digest, run>>

\* A check fails, a command fails, its output is cut off or a time limit passes: the
\* collection holds.
Hold ==
  /\ pc \notin {"verified", "held"}
  /\ pc' = "held"
  /\ UNCHANGED <<files, public, digest, run, evidence>>

Finished ==
  /\ pc \in {"verified", "held"}
  /\ UNCHANGED vars

Next ==
  \/ HashVerifier \/ HashBottle \/ CheckedVersion
  \/ \E results \in SUBSET Attestations : RunGH(results)
  \/ RehashVerifier \/ RehashBottle
  \/ \E t \in Times(answer) \cup {Now} : VerifyEvidence(t)
  \/ Hold \/ Finished
  \/ \E f \in File : \E c \in Content[f] : Rewrite(f, c)
  \/ \E a \in Attestations : Publish(a)

Spec == Init /\ [][Next]_vars

-----------------------------------------------------------------------------
\* Properties

Unrestored == pc = "verified" /\ restored = {}

\* What was verified is the candidate and what verified it is the executable whose
\* version the claims name, although gh opens both files by itself and between the
\* digests.  The exception is a file that was replaced and put back: two equal digests
\* do not show what was there in between.
VerifiedWhatWasHashed ==
  Unrestored =>
    /\ read = Candidate
    /\ ran = digest["gh"]
    /\ evidence.version = Version[ran]

\* The trusted statements published about the candidate under a name of its own.
StatementsOfCandidate ==
  {a \in public : a.trusted /\ \E s \in a.subjects : s.name \in Accepted /\ s.bytes = Candidate}

\* The age claimed is that of the first trusted statement ever published about the
\* candidate, whatever is published later: an answer that was cut off, or that also
\* holds other names, bytes or signers, never makes a bottle look younger or older.
AgeIsFirstPublication ==
  Unrestored /\ ran \in Genuine =>
    Oldest(evidence.publishedAt, Times(StatementsOfCandidate))

=============================================================================
