------------------------- MODULE AdvisoryScanProofs -------------------------
(***************************************************************************)
(* A finding or record that stood open throughout a collection is not       *)
(* cleared, for any number of candidates, advisories, records and changes.  *)
(***************************************************************************)
EXTENDS AdvisoryScan, TLAPS

\* Every variable keeps its type.
TypeOK ==
  /\ found \in [Formula -> SUBSET Advisory]
  /\ feed \in [Formula -> SUBSET Record]
  /\ page \in [Formula -> Page]
  /\ changes \in Nat
  /\ pc \in {"scan", "feed", "pages", "done", "held"}
  /\ report \in [Formula -> SUBSET Advisory]
  /\ index \in [Formula -> SUBSET Record]
  /\ assessed \in [Formula -> {"none", "clear", "affected"}]
  /\ unanswered \in [Formula -> SUBSET Advisory]
  /\ standing \in [Formula -> SUBSET Record]

\* What has stood since the start still stands now.
HistoryIsCurrent ==
  \A f \in Formula :
    /\ unanswered[f] \subseteq Unanswered(found[f], page[f])
    /\ standing[f] \subseteq Standing(feed[f], page[f])

\* It is part of what was fetched, and was not cleared.
HistoryIsFetched ==
  \A f \in Formula :
    /\ pc \in {"feed", "pages", "done"} => unanswered[f] \subseteq report[f]
    /\ pc \in {"pages", "done"} => standing[f] \subseteq index[f]
    /\ assessed[f] = "clear" => unanswered[f] = {} /\ standing[f] = {}
    /\ pc \in {"scan", "feed", "held"} => assessed[f] = "none"

ScanInvariant == TypeOK /\ HistoryIsCurrent /\ HistoryIsFetched

LEMMA InitHolds == Init => ScanInvariant
BY DEF Init, ScanInvariant, TypeOK, HistoryIsCurrent, HistoryIsFetched,
       Page, Unanswered, Standing

\* A change of a source takes away from the history what it ends.
LEMMA ChangeKeeps ==
  ASSUME ScanInvariant, NEW f \in Formula, Remember(f),
         found' \in [Formula -> SUBSET Advisory], feed' \in [Formula -> SUBSET Record],
         page' \in [Formula -> Page],
         \A g \in Formula \ {f} :
           found'[g] = found[g] /\ feed'[g] = feed[g] /\ page'[g] = page[g]
  PROVE  ScanInvariant'
<1>1. /\ unanswered'[f] = unanswered[f] \cap Unanswered(found'[f], page'[f])
      /\ standing'[f] = standing[f] \cap Standing(feed'[f], page'[f])
      /\ \A g \in Formula \ {f} : unanswered'[g] = unanswered[g] /\ standing'[g] = standing[g]
  BY DEF Remember, ScanInvariant, TypeOK
<1>2. TypeOK'
  <2>1. /\ unanswered[f] \cap Unanswered(found'[f], page'[f]) \in SUBSET Advisory
        /\ standing[f] \cap Standing(feed'[f], page'[f]) \in SUBSET Record
    BY DEF ScanInvariant, TypeOK
  <2>2. unanswered' \in [Formula -> SUBSET Advisory]
    BY <2>1 DEF Remember, ScanInvariant, TypeOK
  <2>3. standing' \in [Formula -> SUBSET Record]
    BY <2>1 DEF Remember, ScanInvariant, TypeOK
  <2> QED BY <2>2, <2>3 DEF Remember, ScanInvariant, TypeOK
<1>3. HistoryIsCurrent'
  <2> SUFFICES ASSUME NEW g \in Formula
               PROVE  /\ unanswered'[g] \subseteq Unanswered(found'[g], page'[g])
                      /\ standing'[g] \subseteq Standing(feed'[g], page'[g])
    BY DEF HistoryIsCurrent, Unanswered, Standing
  <2>1. CASE g = f
    BY <2>1, <1>1
  <2>2. CASE g # f
    BY <2>2, <1>1 DEF ScanInvariant, HistoryIsCurrent, Unanswered, Standing
  <2> QED BY <2>1, <2>2
<1>4. \A g \in Formula : unanswered'[g] \subseteq unanswered[g] /\ standing'[g] \subseteq standing[g]
  BY <1>1
<1>5. HistoryIsFetched'
  BY <1>4 DEF Remember, ScanInvariant, HistoryIsFetched
<1> QED BY <1>2, <1>3, <1>5 DEF ScanInvariant

\* The heart: a page that clears a formula answers for all that has stood.
LEMMA ClearAnswers ==
  ASSUME ScanInvariant, pc = "pages", NEW f \in Formula, page[f].candidate,
         NEW records \in Served(f), Applicability(report[f], records) = "clear"
  PROVE  unanswered[f] = {} /\ standing[f] = {}
<1>1. /\ OfState(records, "open") = {}
      /\ \A a \in report[f] : Resolved(a, records)
  BY DEF Applicability
<1>2. records = page[f].records \/ (records = {} /\ index[f] = {})
  BY DEF Served
<1>3. unanswered[f] = {}
  <2> SUFFICES ASSUME NEW a \in unanswered[f] PROVE FALSE
    OBVIOUS
  <2>1. a \in report[f] /\ a \in Unanswered(found[f], page[f])
    BY DEF ScanInvariant, HistoryIsCurrent, HistoryIsFetched
  <2>2. PICK r \in OfState(records, "patched") : r.upstream \cap Names[a] # {}
    BY <2>1, <1>1 DEF Resolved
  <2>3. r \in page[f].records /\ r.state = "patched"
    BY <2>2, <1>2 DEF OfState
  <2> QED BY <2>1, <2>2, <2>3 DEF Unanswered
<1>4. standing[f] = {}
  <2> SUFFICES ASSUME NEW r \in standing[f] PROVE FALSE
    OBVIOUS
  <2>1. r \in index[f] /\ r \in page[f].records /\ r.state = "open"
    BY DEF ScanInvariant, HistoryIsCurrent, HistoryIsFetched, Standing
  <2> QED BY <2>1, <1>1, <1>2 DEF OfState
<1> QED BY <1>3, <1>4

LEMMA StepHolds == ScanInvariant /\ [Next]_vars => ScanInvariant'
<1> SUFFICES ASSUME ScanInvariant, [Next]_vars PROVE ScanInvariant'
  OBVIOUS
<1> USE DEF sources, history
<1>1. ASSUME NEW findings \in {found, [f \in Formula |-> {}]}, Scan(findings)
      PROVE  ScanInvariant'
  <2>1. TypeOK'
    BY <1>1 DEF Scan, ScanInvariant, TypeOK
  <2>2. HistoryIsCurrent'
    BY <1>1 DEF Scan, ScanInvariant, HistoryIsCurrent, Unanswered, Standing
  <2>3. \A f \in Formula : found[f] \subseteq findings[f]
    BY <1>1 DEF Scan, ScanInvariant, TypeOK
  <2>4. \A f \in Formula : unanswered[f] \subseteq findings[f]
    BY <2>3 DEF ScanInvariant, HistoryIsCurrent, Unanswered
  <2>5. HistoryIsFetched'
    BY <1>1, <2>4 DEF Scan, ScanInvariant, HistoryIsFetched
  <2> QED BY <2>1, <2>2, <2>5 DEF ScanInvariant
<1>2. CASE ReadFeed
  <2>1. TypeOK'
    BY <1>2 DEF ReadFeed, ScanInvariant, TypeOK
  <2>2. HistoryIsCurrent'
    BY <1>2 DEF ReadFeed, ScanInvariant, HistoryIsCurrent, Unanswered, Standing
  <2>3. \A f \in Formula : standing[f] \subseteq feed[f]
    BY DEF ScanInvariant, HistoryIsCurrent, Standing
  <2>4. HistoryIsFetched'
    BY <1>2, <2>3 DEF ReadFeed, ScanInvariant, HistoryIsFetched
  <2> QED BY <2>1, <2>2, <2>4 DEF ScanInvariant
<1>3. ASSUME NEW f \in Formula, ReadPage(f) PROVE ScanInvariant'
  <2>1. PICK records \in Served(f) :
          assessed' = [assessed EXCEPT ![f] = Applicability(report[f], records)]
    BY <1>3 DEF ReadPage
  <2>2. Applicability(report[f], records) \in {"clear", "affected"}
    BY DEF Applicability
  <2>3. TypeOK'
    BY <1>3, <2>1, <2>2 DEF ReadPage, ScanInvariant, TypeOK
  <2>4. HistoryIsCurrent'
    BY <1>3 DEF ReadPage, ScanInvariant, HistoryIsCurrent, Unanswered, Standing
  <2>5. ASSUME NEW g \in Formula, assessed'[g] = "clear"
        PROVE  unanswered[g] = {} /\ standing[g] = {}
    <3>1. CASE g = f
      BY <3>1, <2>1, <2>5, <1>3, ClearAnswers DEF ReadPage, ScanInvariant, TypeOK
    <3>2. CASE g # f
      BY <3>2, <2>1, <2>5 DEF ScanInvariant, TypeOK, HistoryIsFetched
    <3> QED BY <3>1, <3>2
  <2>6. HistoryIsFetched'
    BY <1>3, <2>5 DEF ReadPage, ScanInvariant, HistoryIsFetched
  <2> QED BY <2>3, <2>4, <2>6 DEF ScanInvariant
<1>4. CASE HandOver
  BY <1>4 DEF HandOver, ScanInvariant, TypeOK, HistoryIsCurrent, HistoryIsFetched,
              Unanswered, Standing
<1>5. CASE Hold
  BY <1>5 DEF Hold, ScanInvariant, TypeOK, HistoryIsCurrent, HistoryIsFetched,
              Unanswered, Standing
<1>6. ASSUME NEW f \in Formula, NEW open \in SUBSET Advisory, UpstreamChanges(f, open)
      PROVE  ScanInvariant'
  BY <1>6, ChangeKeeps DEF UpstreamChanges, ScanInvariant, TypeOK
<1>7. ASSUME NEW f \in Formula, NEW records \in SUBSET Record, FeedChanges(f, records)
      PROVE  ScanInvariant'
  BY <1>7, ChangeKeeps DEF FeedChanges, ScanInvariant, TypeOK
<1>8. ASSUME NEW f \in Formula, NEW p \in Page, PageChanges(f, p) PROVE ScanInvariant'
  BY <1>8, ChangeKeeps DEF PageChanges, ScanInvariant, TypeOK
<1>9. CASE Finished \/ UNCHANGED vars
  BY <1>9 DEF Finished, vars, ScanInvariant, TypeOK, HistoryIsCurrent, HistoryIsFetched,
              Unanswered, Standing
<1> QED BY <1>1, <1>2, <1>3, <1>4, <1>5, <1>6, <1>7, <1>8, <1>9 DEF Next

\* The inductive invariant of one collection, for any formulae, records and changes.
THEOREM ScanInvariantAlways == Spec => []ScanInvariant
BY InitHolds, StepHolds, PTL DEF Spec

\* Collecting keeps every variable in its type.
THEOREM TypeAlways == Spec => []TypeOK
<1>1. ScanInvariant => TypeOK
  BY DEF ScanInvariant
<1> QED BY <1>1, ScanInvariantAlways, PTL

\* A finding that stood open upstream without a patch is not cleared.
THEOREM StandingFindingDeniesAlways == Spec => []StandingFindingDenies
<1>1. ScanInvariant => StandingFindingDenies
  BY DEF ScanInvariant, HistoryIsFetched, StandingFindingDenies
<1> QED BY <1>1, ScanInvariantAlways, PTL

\* A record that stood open on the page and in the feed is not cleared.
THEOREM StandingRecordDeniesAlways == Spec => []StandingRecordDenies
<1>1. ScanInvariant => StandingRecordDenies
  BY DEF ScanInvariant, HistoryIsFetched, StandingRecordDenies
<1> QED BY <1>1, ScanInvariantAlways, PTL

=============================================================================
