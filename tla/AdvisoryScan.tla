---------------------------- MODULE AdvisoryScan ----------------------------
(***************************************************************************)
(* collectPublicAdvisories: one scan of all candidates against the upstream *)
(* vulnerability database, one copy of Homebrew's advisory feed, then the   *)
(* public page of each formula, fetched one after the other while all three *)
(* keep changing.  The answers are combined into one applicability for each *)
(* candidate; a failure anywhere leaves the collection without any.         *)
(***************************************************************************)
EXTENDS Naturals, FiniteSets

CONSTANTS
  Formula,    \* the candidates
  Advisory,   \* upstream advisories
  Id,         \* advisory identifiers
  Names,      \* the identifiers of an advisory: its own and its aliases
  Record,     \* the records Homebrew may keep
  MaxChanges  \* bound on changes of the sources

\* A record of Homebrew's database about one formula.  "fixed" is only counted by the
\* formula page: a fix in some version resolves nothing.
RecordType ==
  [id : Id, state : {"open", "patched", "fixed"}, upstream : SUBSET Id]

ASSUME SourcesAreTyped ==
  /\ Names \in [Advisory -> SUBSET Id]
  /\ Record \subseteq RecordType
  /\ MaxChanges \in Nat

VARIABLES
  found,       \* what the upstream database has open for each candidate
  feed,        \* what the advisory feed has for each formula
  page,        \* what the formula page is about and says
  changes,     \* how often a source has changed
  pc,          \* the step the collection is at
  report,      \* the findings of the scan
  index,       \* the feed as fetched
  assessed,    \* the applicability of each candidate
  unanswered,  \* findings open, and without a patch on the page, ever since the start
  standing     \* records open on the page, and in the feed, ever since the start

sources == <<found, feed, page, changes>>
history == <<unanswered, standing>>
vars == <<sources, pc, report, index, assessed, history>>

Page == [candidate : BOOLEAN, records : SUBSET Record]

-----------------------------------------------------------------------------
\* Combining

OfState(records, state) == {r \in records : r.state = state}

\* Bug: a patch of any advisory resolves a finding.
BugResolved(a, records) == OfState(records, "patched") # {}

\* A patch of the same upstream advisory, under any of its names.
Resolved(a, records) ==
  \E r \in OfState(records, "patched") : r.upstream \cap Names[a] # {}

\* combineAdvisories
Applicability(findings, records) ==
  IF OfState(records, "open") = {} /\ \A a \in findings : Resolved(a, records)
    THEN "clear" ELSE "affected"

\* parseBrewAdvisoryStatus accepts the records: no identifier twice, no patch without
\* the advisory it resolves.
Consistent(records) ==
  /\ \A r, s \in OfState(records, "open") \cup OfState(records, "patched") :
       r.id = s.id => r = s
  /\ \A r \in OfState(records, "patched") : r.upstream # {}

-----------------------------------------------------------------------------
\* The sources, and what has been true of them ever since the collection began

\* A patch answers for a finding when the page is about the candidate and the patch
\* names the advisory.
Unanswered(open, p) ==
  {a \in open :
     ~ \E r \in p.records :
         p.candidate /\ r.state = "patched" /\ r.upstream \cap Names[a] # {}}

Standing(listed, p) == {r \in listed \cap p.records : r.state = "open"}

Remember(f) ==
  /\ changes < MaxChanges
  /\ changes' = changes + 1
  /\ unanswered' = [unanswered EXCEPT ![f] = @ \cap Unanswered(found'[f], page'[f])]
  /\ standing' = [standing EXCEPT ![f] = @ \cap Standing(feed'[f], page'[f])]
  /\ UNCHANGED <<pc, report, index, assessed>>

UpstreamChanges(f, open) ==
  /\ found' = [found EXCEPT ![f] = open]
  /\ UNCHANGED <<feed, page>>
  /\ Remember(f)

FeedChanges(f, records) ==
  /\ feed' = [feed EXCEPT ![f] = records]
  /\ UNCHANGED <<found, page>>
  /\ Remember(f)

PageChanges(f, p) ==
  /\ page' = [page EXCEPT ![f] = p]
  /\ UNCHANGED <<found, feed>>
  /\ Remember(f)

-----------------------------------------------------------------------------
\* The collection

Init ==
  /\ found \in [Formula -> SUBSET Advisory]
  /\ feed \in [Formula -> SUBSET Record]
  /\ page \in [Formula -> Page]
  /\ changes = 0
  /\ pc = "scan"
  /\ report = [f \in Formula |-> {}]
  /\ index = [f \in Formula |-> {}]
  /\ assessed = [f \in Formula |-> "none"]
  /\ unanswered = [f \in Formula |-> Unanswered(found[f], page[f])]
  /\ standing = [f \in Formula |-> Standing(feed[f], page[f])]

\* scanCandidateVulnerabilities.  The exit code tells whether anything is open; an
\* output without open findings that lost them disagrees with it.  An output that
\* lists what was skipped is refused.
Scan(findings) ==
  /\ pc = "scan"
  /\ findings \in {found, [f \in Formula |-> {}]}
  /\ (\E f \in Formula : found[f] # {}) <=> (\E f \in Formula : findings[f] # {})
  /\ pc' = "feed"
  /\ report' = findings
  /\ UNCHANGED <<sources, index, assessed, history>>

\* The whole feed: its own count shows a missing record.
ReadFeed ==
  /\ pc = "feed"
  /\ pc' = "pages"
  /\ index' = feed
  /\ UNCHANGED <<sources, report, assessed, history>>

\* Bug: a page without advisory status is taken for one without advisories.
BugServed(f) == {page[f].records, {}}

\* What a fetched page says.  It may lack its advisory status, which is refused for a
\* formula the feed knows.
Served(f) == {page[f].records} \cup (IF index[f] = {} THEN {{}} ELSE {})

\* The page must be about the candidate.
ReadPage(f) ==
  /\ pc = "pages"
  /\ assessed[f] = "none"
  /\ page[f].candidate
  /\ \E records \in Served(f) :
       /\ Consistent(records)
       /\ assessed' = [assessed EXCEPT ![f] = Applicability(report[f], records)]
  /\ UNCHANGED <<sources, pc, report, index, history>>

HandOver ==
  /\ pc = "pages"
  /\ \A f \in Formula : assessed[f] # "none"
  /\ pc' = "done"
  /\ UNCHANGED <<sources, report, index, assessed, history>>

\* Any command, request, check or write fails: nothing of this collection is used.
Hold ==
  /\ pc \in {"scan", "feed", "pages"}
  /\ pc' = "held"
  /\ report' = [f \in Formula |-> {}]
  /\ index' = [f \in Formula |-> {}]
  /\ assessed' = [f \in Formula |-> "none"]
  /\ UNCHANGED <<sources, history>>

Finished ==
  /\ pc \in {"done", "held"}
  /\ UNCHANGED vars

Next ==
  \/ \E findings \in {found, [f \in Formula |-> {}]} : Scan(findings)
  \/ ReadFeed
  \/ \E f \in Formula : ReadPage(f)
  \/ HandOver \/ Hold \/ Finished
  \/ \E f \in Formula, open \in SUBSET Advisory : UpstreamChanges(f, open)
  \/ \E f \in Formula, records \in SUBSET Record : FeedChanges(f, records)
  \/ \E f \in Formula, p \in Page : PageChanges(f, p)

Spec == Init /\ [][Next]_vars

-----------------------------------------------------------------------------
\* Properties

\* An advisory that was open upstream ever since the collection began, and that no page
\* about the candidate listed as patched since, is never cleared: not by a patch of
\* another advisory or another version, a fix, a lost output or the order of requests.
StandingFindingDenies ==
  \A f \in Formula : assessed[f] = "clear" => unanswered[f] = {}

\* Nor is a formula cleared of a record that Homebrew kept open in both of its
\* publications, even when the page is served without advisory status.
StandingRecordDenies ==
  \A f \in Formula : assessed[f] = "clear" => standing[f] = {}

=============================================================================
