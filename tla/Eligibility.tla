---------------------------- MODULE Eligibility ----------------------------
(***************************************************************************)
(* domain.Evaluate: whether the evidence for every node of a plan allows,   *)
(* holds or denies it at an explicit time.  An assessment is assembled step *)
(* by step: evidence is added, possibly more than once for a claim, an age  *)
(* exception may be requested, and time passes between one evaluation and   *)
(* the next (Execute, Run and every command evaluate again).                *)
(***************************************************************************)
EXTENDS Naturals, FiniteSets

CONSTANTS
  Artifact,    \* the artifacts of the plan
  Integrity,   \* the integrity claims: metadata, checksum, provenance
  Evidence,    \* the evidence items adapters may add
  Exceptions,  \* the age exceptions a user may request
  None,        \* no exception
  MinimumAge,  \* policy.MinimumAgeSeconds
  MaxTime,     \* bound on the clock
  MaxItems     \* bound on the items of one artifact (32 in validGraph)

Claim == Integrity \cup {"publication", "vulnerabilities"}

\* "other" stands for the values Evaluate treats alike: unavailable, unsupported and
\* unassessed; any other publication event; an unknown applicability.  An item's place
\* in the list tells two equal items apart.
EvidenceType ==
  [place : Nat, claim : Claim \cup {"other"}, subject : Artifact \cup {"other"},
   wellFormed : BOOLEAN, status : {"verified", "failed", "other"},
   observedAt : Nat, expiresAt : Nat, publishedAt : Nat,
   publication : {"attestation", "other"},
   applicability : {"clear", "affected", "other"}]

\* bound: the exception names this plan's binding; reasoned: every waiver has a valid
\* reason, none is repeated and each is of a node of the plan.
ExceptionType ==
  [bound : BOOLEAN, reasoned : BOOLEAN, issuedAt : Nat, expiresAt : Nat,
   waived : SUBSET Artifact]

ASSUME ClaimsAreDistinct == {"publication", "vulnerabilities", "other"} \cap Integrity = {}

ASSUME BoundsAreNaturals == MinimumAge \in Nat /\ MaxTime \in Nat /\ MaxItems \in Nat

ASSUME InputsAreTyped ==
  /\ Evidence \subseteq EvidenceType
  /\ Exceptions \subseteq ExceptionType
  /\ None \notin Exceptions

VARIABLES
  wellFormed,  \* the policy, the binding and the graph are valid
  evidence,    \* the items of each node
  exception,   \* the age exception, or None
  now          \* the explicit time, in seconds

vars == <<wellFormed, evidence, exception, now>>

\* Every variable keeps its type.
TypeOK ==
  /\ wellFormed \in BOOLEAN
  /\ evidence \in [Artifact -> SUBSET Evidence]
  /\ exception \in Exceptions \cup {None}
  /\ now \in Nat

-----------------------------------------------------------------------------
\* requiredEvidenceReason

\* Evidence.valid
Valid(e) == e.wellFormed /\ e.observedAt > 0 /\ e.expiresAt > e.observedAt

Items(a, claim) == {e \in evidence[a] : e.subject = a /\ e.claim = claim}

\* Bug: evidence is current up to and including its expiry.
BugCurrent(e, t) == Valid(e) /\ e.observedAt <= t /\ t <= e.expiresAt

Current(e, t) == Valid(e) /\ e.observedAt <= t /\ t < e.expiresAt

\* The attested publication time is known and not in the observation's future.
Dated(e) ==
  e.publication = "attestation" /\ 0 < e.publishedAt /\ e.publishedAt <= e.observedAt

TooYoung(e, t) == t < e.publishedAt + MinimumAge

\* One current, verified item says what its claim needs, its age apart.
Sufficient(e, claim, t) ==
  /\ Current(e, t)
  /\ e.status = "verified"
  /\ claim = "vulnerabilities" => e.applicability = "clear"
  /\ claim = "publication" => Dated(e)

\* The reason code of one claim at time t.  "insufficient" stands for the codes that
\* nothing tells apart: missing or ambiguous, stale, unverified, applicability
\* unresolved, publication unknown.
RequiredEvidenceReason(a, claim, t) ==
  IF ~ \E e \in Items(a, claim) : Items(a, claim) = {e} /\ Sufficient(e, claim, t)
    THEN "insufficient"
  ELSE IF claim = "publication" /\ \E e \in Items(a, claim) : TooYoung(e, t)
    THEN "release_too_young"
  ELSE "none"

-----------------------------------------------------------------------------
\* Evaluate, for exception x at time t

ExceptionValid(x, t) ==
  \/ x = None
  \/ /\ x.bound /\ x.reasoned
     /\ 0 < x.issuedAt /\ x.issuedAt <= t /\ t < x.expiresAt
     /\ x.waived # {}

\* Bug: an item is only looked at when it is the only one for its claim.
BugDenies(a, e, t) ==
  /\ Items(a, e.claim) = {e}
  /\ \/ e.claim \in Integrity /\ e.status = "failed"
     \/ e.claim = "vulnerabilities" /\ e.status = "verified" /\ e.applicability = "affected"
        /\ Valid(e) /\ e.observedAt <= t

\* An integrity failure, or a known applicable vulnerability, of one item; an expired
\* finding still denies.
Denies(a, e, t) ==
  /\ e \in Items(a, e.claim)
  /\ \/ e.claim \in Integrity /\ e.status = "failed"
     \/ /\ e.claim = "vulnerabilities" /\ e.status = "verified"
        /\ e.applicability = "affected"
        /\ Valid(e) /\ e.observedAt <= t

\* Items about another artifact or no known claim hold, whatever they say.
Mismatched(a) == {e \in evidence[a] : e.subject # a \/ e.claim \notin Claim}

\* Bug: a waiver of an artifact covers every publication reason.
BugWaives(x, a, claim, code) == x # None /\ claim = "publication" /\ a \in x.waived

Waives(x, a, claim, code) ==
  x # None /\ claim = "publication" /\ code = "release_too_young" /\ a \in x.waived

Denials(t) ==
  {d \in Artifact \X Evidence : d[2] \in evidence[d[1]] /\ Denies(d[1], d[2], t)}

\* The claims that hold, each with its reason code.
Holds(x, t) ==
  {h \in Artifact \X Claim :
     LET code == RequiredEvidenceReason(h[1], h[2], t)
     IN code # "none" /\ ~Waives(x, h[1], h[2], code)}

\* Bug: an invalid exception is ignored instead of holding the plan.
BugEvaluate(x, t) ==
  LET y == IF ExceptionValid(x, t) THEN x ELSE None IN
  IF ~wellFormed \/ t = 0 THEN "hold"
  ELSE IF Denials(t) # {} THEN "deny"
  ELSE IF Holds(y, t) # {} \/ \E a \in Artifact : Mismatched(a) # {} THEN "hold"
  ELSE "allow"

Evaluate(x, t) ==
  IF ~wellFormed \/ t = 0 \/ ~ExceptionValid(x, t) THEN "hold"
  ELSE IF Denials(t) # {} THEN "deny"
  ELSE IF Holds(x, t) # {} \/ \E a \in Artifact : Mismatched(a) # {} THEN "hold"
  ELSE "allow"

-----------------------------------------------------------------------------
\* Assembling and re-evaluating an assessment

Init ==
  /\ wellFormed \in BOOLEAN
  /\ evidence = [a \in Artifact |-> {}]
  /\ exception = None
  /\ now = 1

\* An adapter adds an item to a node.
AddEvidence(a, e) ==
  /\ Cardinality(evidence[a]) < MaxItems
  /\ evidence' = [evidence EXCEPT ![a] = @ \cup {e}]
  /\ UNCHANGED <<wellFormed, exception, now>>

\* The plan is given the exception the user asked for.
RequestException(x) ==
  /\ exception = None
  /\ exception' = x
  /\ UNCHANGED <<wellFormed, evidence, now>>

TimePasses ==
  /\ now < MaxTime
  /\ now' = now + 1
  /\ UNCHANGED <<wellFormed, evidence, exception>>

Next ==
  \/ \E a \in Artifact, e \in Evidence : AddEvidence(a, e)
  \/ \E x \in Exceptions : RequestException(x)
  \/ TimePasses

Spec == Init /\ [][Next]_vars

-----------------------------------------------------------------------------
\* Properties

\* What the item of one claim must say for the plan to be allowed now.
Earns(a, claim, e) ==
  /\ {f \in evidence[a] : f.claim = claim} = {e}
  /\ e.status = "verified" /\ e.observedAt <= now /\ now < e.expiresAt
  /\ claim = "vulnerabilities" => e.applicability = "clear"
  /\ claim = "publication" =>
       /\ e.publication = "attestation" /\ 0 < e.publishedAt
       /\ \/ e.publishedAt + MinimumAge <= now
          \/ /\ exception # None /\ a \in exception.waived
             /\ exception.bound /\ now < exception.expiresAt

\* Allow means that each artifact has exactly one item for each claim, about itself and
\* with nothing else beside them, which is current and verified now; that no advisory
\* is open; and that each publication is attested and old enough or waived by a current
\* exception of this plan.
AllowIsEarned ==
  Evaluate(exception, now) = "allow" =>
    /\ wellFormed
    /\ \A a \in Artifact :
         /\ \A e \in evidence[a] : e.subject = a /\ e.claim \in Claim /\ Valid(e)
         /\ \A claim \in Claim : \E e \in evidence[a] : Earns(a, claim, e)

\* An exception only ever relaxes the age rule: an assessment it lets pass would,
\* without it, be held for the age of waived artifacts and for nothing else.
ExceptionRelaxesAge ==
  Evaluate(exception, now) = "allow" /\ exception # None =>
    \/ Evaluate(None, now) = "allow"
    \/ /\ Evaluate(None, now) = "hold"
       /\ \A h \in Holds(None, now) :
            /\ h[1] \in exception.waived
            /\ RequiredEvidenceReason(h[1], h[2], now) = "release_too_young"

\* The times at which this evidence and exception are allowed have no gap: a plan that
\* was allowed and is held again stays held, so a command refused by executionAllowed
\* is never let through later on the same assessment.
AllowedWithoutGap ==
  LET allowed == {t \in 0..MaxTime : Evaluate(exception, t) = "allow"}
  IN \A t, v \in allowed : t..v \subseteq allowed

\* A denied assessment is never allowed later: no further evidence, such as a successful
\* duplicate, no exception and no expiry of the finding lets it pass.  The outcome may
\* only weaken to a hold, and only while the requested exception is invalid or has expired,
\* which Evaluate reports before it looks at the evidence.
DenialIsFinal ==
  [](Evaluate(exception, now) = "deny" =>
       [](\/ Evaluate(exception, now) = "deny"
          \/ Evaluate(exception, now) = "hold" /\ ~ExceptionValid(exception, now)))

=============================================================================
