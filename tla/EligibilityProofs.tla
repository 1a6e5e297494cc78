------------------------- MODULE EligibilityProofs -------------------------
(***************************************************************************)
(* What Evaluate promises, for every artifact set, evidence and exception   *)
(* the constants allow, and every time.                                     *)
(***************************************************************************)
EXTENDS Eligibility, TLAPS

\* An assessment keeps its type while evidence, exception and time change.
THEOREM TypeAlways == Spec => []TypeOK
<1>1. Init => TypeOK
  BY DEF Init, TypeOK
<1>2. TypeOK /\ [Next]_vars => TypeOK'
  <2> SUFFICES ASSUME TypeOK, [Next]_vars PROVE TypeOK'
    OBVIOUS
  <2>1. ASSUME NEW a \in Artifact, NEW e \in Evidence, AddEvidence(a, e) PROVE TypeOK'
    BY <2>1 DEF AddEvidence, TypeOK
  <2>2. ASSUME NEW x \in Exceptions, RequestException(x) PROVE TypeOK'
    BY <2>2 DEF RequestException, TypeOK
  <2>3. CASE TimePasses
    BY <2>3 DEF TimePasses, TypeOK
  <2>4. CASE UNCHANGED vars
    BY <2>4 DEF vars, TypeOK
  <2> QED BY <2>1, <2>2, <2>3, <2>4 DEF Next
<1> QED BY <1>1, <1>2, PTL DEF Spec

\* Membership of the two sets of pairs, by their components.
LEMMA InHolds ==
  ASSUME NEW x, NEW t, NEW a \in Artifact, NEW claim \in Claim, Holds(x, t) = {}
  PROVE  \/ RequiredEvidenceReason(a, claim, t) = "none"
         \/ Waives(x, a, claim, RequiredEvidenceReason(a, claim, t))
<1>1. PICK h \in Artifact \X Claim : h[1] = a /\ h[2] = claim
  <2>1. <<a, claim>> \in Artifact \X Claim /\ <<a, claim>>[1] = a /\ <<a, claim>>[2] = claim
    OBVIOUS
  <2> QED BY <2>1
<1> QED BY <1>1 DEF Holds

LEMMA InDenials ==
  ASSUME NEW t, NEW a \in Artifact, NEW e \in Evidence, e \in evidence[a], Denies(a, e, t)
  PROVE  Denials(t) # {}
<1>1. PICK d \in Artifact \X Evidence : d[1] = a /\ d[2] = e
  <2>1. <<a, e>> \in Artifact \X Evidence /\ <<a, e>>[1] = a /\ <<a, e>>[2] = e
    OBVIOUS
  <2> QED BY <2>1
<1> QED BY <1>1 DEF Denials

\* A claim without a hold has one sufficient item, old enough or waived.
LEMMA NoHold ==
  ASSUME NEW x, NEW t, NEW a \in Artifact, NEW claim \in Claim, Holds(x, t) = {}
  PROVE  \E e \in Items(a, claim) :
           /\ Items(a, claim) = {e}
           /\ Sufficient(e, claim, t)
           /\ claim = "publication" /\ TooYoung(e, t) => x # None /\ a \in x.waived
<1>1. \/ RequiredEvidenceReason(a, claim, t) = "none"
      \/ Waives(x, a, claim, RequiredEvidenceReason(a, claim, t))
  BY InHolds
<1>2. PICK e \in Items(a, claim) : Items(a, claim) = {e} /\ Sufficient(e, claim, t)
  BY <1>1 DEF RequiredEvidenceReason, Waives
<1>3. ASSUME claim = "publication", TooYoung(e, t) PROVE x # None /\ a \in x.waived
  BY <1>1, <1>2, <1>3 DEF RequiredEvidenceReason, Waives
<1> QED BY <1>2, <1>3

\* What one evaluation that allows says of the plan.
LEMMA Allowed ==
  ASSUME NEW x, NEW t, Evaluate(x, t) = "allow"
  PROVE  /\ wellFormed /\ t # 0 /\ ExceptionValid(x, t)
         /\ Denials(t) = {} /\ Holds(x, t) = {}
         /\ \A a \in Artifact : Mismatched(a) = {}
BY DEF Evaluate

\* Evidence earns every Allow: one current verified item per claim and artifact, no
\* other item, and an attested age that is sufficient or currently waived.
THEOREM AllowIsEarnedAlways == Spec => []AllowIsEarned
<1>1. TypeOK => AllowIsEarned
  <2> SUFFICES ASSUME TypeOK, Evaluate(exception, now) = "allow", NEW a \in Artifact
               PROVE  /\ wellFormed
                      /\ \A e \in evidence[a] : e.subject = a /\ e.claim \in Claim /\ Valid(e)
                      /\ \A claim \in Claim : \E e \in evidence[a] : Earns(a, claim, e)
    <3>1. Evaluate(exception, now) = "allow" => wellFormed
      BY Allowed
    <3> QED BY <3>1 DEF AllowIsEarned
  <2>1. /\ wellFormed /\ ExceptionValid(exception, now) /\ Holds(exception, now) = {}
        /\ \A b \in Artifact : Mismatched(b) = {}
    BY Allowed
  <2>3. \A e \in evidence[a] : e.subject = a /\ e.claim \in Claim
    BY <2>1 DEF Mismatched
  <2>4. ASSUME NEW e \in evidence[a] PROVE e.subject = a /\ Valid(e)
    <3>1. e.subject = a /\ e.claim \in Claim /\ e \in Items(a, e.claim)
      BY <2>3 DEF Items
    <3>2. PICK f \in Items(a, e.claim) :
            Items(a, e.claim) = {f} /\ Sufficient(f, e.claim, now)
      BY <3>1, <2>1, NoHold
    <3> QED BY <3>1, <3>2 DEF Sufficient, Current
  <2>5. ASSUME NEW claim \in Claim
        PROVE  \E e \in evidence[a] : Earns(a, claim, e)
    <3>1. PICK e \in Items(a, claim) :
            /\ Items(a, claim) = {e}
            /\ Sufficient(e, claim, now)
            /\ claim = "publication" /\ TooYoung(e, now)
                 => exception # None /\ a \in exception.waived
      BY <2>1, NoHold
    <3>2. e \in evidence[a] /\ e \in EvidenceType
      BY InputsAreTyped DEF Items, TypeOK
    <3>3. {f \in evidence[a] : f.claim = claim} = {e}
      BY <3>1, <2>3 DEF Items
    <3>4. exception # None => exception.bound /\ now < exception.expiresAt
      BY <2>1 DEF ExceptionValid
    <3>5. ~TooYoung(e, now) => e.publishedAt + MinimumAge <= now
      BY <3>2, BoundsAreNaturals DEF TooYoung, TypeOK, EvidenceType
    <3> QED BY <3>1, <3>2, <3>3, <3>4, <3>5 DEF Sufficient, Current, Dated, Earns
  <2> QED BY <2>1, <2>3, <2>4, <2>5
<1> QED BY <1>1, TypeAlways, PTL

\* Without its exception, an allowed plan is held at most for the age of waived nodes.
THEOREM ExceptionRelaxesAgeAlways == Spec => []ExceptionRelaxesAge
<1>1. TypeOK => ExceptionRelaxesAge
  <2> SUFFICES ASSUME TypeOK, Evaluate(exception, now) = "allow", exception # None
               PROVE  \/ Evaluate(None, now) = "allow"
                      \/ /\ Evaluate(None, now) = "hold"
                         /\ \A h \in Holds(None, now) :
                              /\ h[1] \in exception.waived
                              /\ RequiredEvidenceReason(h[1], h[2], now) = "release_too_young"
    BY DEF ExceptionRelaxesAge
  <2>1. /\ wellFormed /\ now # 0 /\ Denials(now) = {} /\ Holds(exception, now) = {}
        /\ \A a \in Artifact : Mismatched(a) = {}
    BY Allowed
  <2>2. ExceptionValid(None, now)
    BY DEF ExceptionValid
  <2>3. ASSUME NEW h \in Holds(None, now)
        PROVE  /\ h[1] \in exception.waived
               /\ RequiredEvidenceReason(h[1], h[2], now) = "release_too_young"
    <3>1. /\ h \in Artifact \X Claim
          /\ RequiredEvidenceReason(h[1], h[2], now) # "none"
      BY DEF Holds
    <3>2. h = <<h[1], h[2]>> /\ h[1] \in Artifact /\ h[2] \in Claim
      BY <3>1
    <3>3. Waives(exception, h[1], h[2], RequiredEvidenceReason(h[1], h[2], now))
      BY <2>1, <3>1, <3>2 DEF Holds
    <3> QED BY <3>3 DEF Waives
  <2>4. Evaluate(None, now) \in {"allow", "hold"}
    BY <2>1, <2>2 DEF Evaluate
  <2> QED BY <2>3, <2>4
<1> QED BY <1>1, TypeAlways, PTL

\* A time between two allowed ones is allowed.
LEMMA Convex ==
  ASSUME TypeOK, NEW x \in Exceptions \cup {None},
         NEW t \in Nat, NEW u \in Nat, NEW v \in Nat, t <= u, u <= v,
         Evaluate(x, t) = "allow", Evaluate(x, v) = "allow"
  PROVE  Evaluate(x, u) = "allow"
<1>1. /\ wellFormed /\ t # 0 /\ ExceptionValid(x, t) /\ Holds(x, t) = {}
      /\ \A a \in Artifact : Mismatched(a) = {}
  BY Allowed
<1>2. ExceptionValid(x, v) /\ Denials(v) = {} /\ Holds(x, v) = {}
  BY Allowed
<1>3. ExceptionValid(x, u)
  BY <1>1, <1>2, InputsAreTyped DEF ExceptionValid, ExceptionType
<1>4. Denials(u) = {}
  <2> SUFFICES ASSUME NEW a \in Artifact, NEW e \in Evidence,
                      e \in evidence[a], Denies(a, e, u)
               PROVE  FALSE
    BY DEF Denials
  <2>1. e \in EvidenceType
    BY InputsAreTyped
  <2>2. Denies(a, e, v)
    BY <2>1 DEF Denies, EvidenceType
  <2> QED BY <2>2, <1>2, InDenials
<1>5. Holds(x, u) = {}
  <2> SUFFICES ASSUME NEW a \in Artifact, NEW claim \in Claim
               PROVE  \/ RequiredEvidenceReason(a, claim, u) = "none"
                      \/ Waives(x, a, claim, RequiredEvidenceReason(a, claim, u))
    BY DEF Holds
  <2>1. PICK e \in Items(a, claim) :
          /\ Items(a, claim) = {e}
          /\ Sufficient(e, claim, t)
          /\ claim = "publication" /\ TooYoung(e, t) => x # None /\ a \in x.waived
    BY <1>1, NoHold
  <2>2. Sufficient(e, claim, v)
    BY <2>1, <1>2, NoHold
  <2>3. e \in EvidenceType
    BY InputsAreTyped DEF Items, TypeOK
  <2>4. Sufficient(e, claim, u)
    BY <2>1, <2>2, <2>3 DEF Sufficient, Current, EvidenceType
  <2>5. TooYoung(e, u) => TooYoung(e, t)
    BY <2>3, BoundsAreNaturals DEF TooYoung, EvidenceType
  <2>6. CASE claim = "publication" /\ TooYoung(e, u)
    <3>1. RequiredEvidenceReason(a, claim, u) = "release_too_young"
      BY <2>1, <2>4, <2>6 DEF RequiredEvidenceReason
    <3> QED BY <3>1, <2>1, <2>5, <2>6 DEF Waives
  <2>7. CASE ~(claim = "publication" /\ TooYoung(e, u))
    BY <2>1, <2>4, <2>7 DEF RequiredEvidenceReason
  <2> QED BY <2>6, <2>7
<1>6. u # 0
  BY <1>1
<1> QED BY <1>1, <1>3, <1>4, <1>5, <1>6 DEF Evaluate

\* Allowed again after being held cannot happen on one assessment.
THEOREM AllowedWithoutGapAlways == Spec => []AllowedWithoutGap
<1>1. TypeOK => AllowedWithoutGap
  <2> SUFFICES ASSUME TypeOK,
                      NEW t \in 0..MaxTime, NEW v \in 0..MaxTime, NEW u \in t..v,
                      Evaluate(exception, t) = "allow", Evaluate(exception, v) = "allow"
               PROVE  u \in 0..MaxTime /\ Evaluate(exception, u) = "allow"
    BY DEF AllowedWithoutGap
  <2>1. u \in 0..MaxTime /\ t \in Nat /\ u \in Nat /\ v \in Nat /\ t <= u /\ u <= v
    BY BoundsAreNaturals
  <2>2. exception \in Exceptions \cup {None}
    BY DEF TypeOK
  <2> QED BY <2>1, <2>2, Convex
<1> QED BY <1>1, TypeAlways, PTL

\* The items that deny are kept, and a finding that was observed by now was observed by
\* any later time.
LEMMA DenialsGrow ==
  ASSUME TypeOK, [Next]_vars
  PROVE  Denials(now) \subseteq Denials(now)'
<1> SUFFICES ASSUME NEW a \in Artifact, NEW e \in Evidence,
                    e \in evidence[a], Denies(a, e, now)
             PROVE  e \in evidence[a]' /\ Denies(a, e, now)'
  BY DEF Denials
<1>1. e \in evidence[a]'
  BY DEF Next, AddEvidence, RequestException, TimePasses, vars, TypeOK
<1>2. now \in Nat /\ now' \in Nat /\ now <= now'
  BY DEF Next, AddEvidence, RequestException, TimePasses, vars, TypeOK
<1>3. e \in EvidenceType
  BY InputsAreTyped
<1>4. e.observedAt <= now => e.observedAt <= now'
  BY <1>2, <1>3 DEF EvidenceType
<1> QED BY <1>1, <1>4 DEF Denies, Items, Valid

\* What an outcome of Deny rests on, the validity of the exception apart.
Denied == wellFormed /\ now # 0 /\ Denials(now) # {}

LEMMA DeniedStays == TypeOK /\ Denied /\ [Next]_vars => Denied'
<1> SUFFICES ASSUME TypeOK, Denied, [Next]_vars PROVE Denied'
  OBVIOUS
<1>1. wellFormed' = wellFormed
  BY DEF Next, AddEvidence, RequestException, TimePasses, vars
<1>2. now \in Nat /\ (now' = now \/ now' = now + 1)
  BY DEF Next, AddEvidence, RequestException, TimePasses, vars, TypeOK
<1>3. now' # 0
  BY <1>2 DEF Denied
<1> QED BY <1>1, <1>3, DenialsGrow DEF Denied

\* No step, of an adapter, of the user or of the clock, lets a denied plan pass.
THEOREM DenialIsFinalAlways == Spec => DenialIsFinal
<1>1. Evaluate(exception, now) = "deny" => Denied
  BY DEF Evaluate, Denied
<1>2. Denied => \/ Evaluate(exception, now) = "deny"
                \/ Evaluate(exception, now) = "hold" /\ ~ExceptionValid(exception, now)
  BY DEF Evaluate, Denied
<1> QED BY <1>1, <1>2, DeniedStays, TypeAlways, PTL DEF Spec, DenialIsFinal

=============================================================================
