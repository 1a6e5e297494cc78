-------------------------- MODULE DependencyGraph --------------------------
(***************************************************************************)
(* The depth-first search with which validGraph (over the assessed nodes)   *)
(* and parseMetadata (over the selected API document) accept a dependency   *)
(* graph: one call of visit per step, on an explicit stack.  The list of    *)
(* targets is the dependency list of a root that is no artifact, since both *)
(* loops refuse a repeated element and then visit it (parseMetadata looks   *)
(* for repeated dependencies before its search, with the same verdict).     *)
(***************************************************************************)
EXTENDS Naturals, Sequences, FiniteSets

CONSTANTS
  Artifact,  \* artifacts a document may name
  Root,      \* stands for the request
  Lists      \* the lists of dependencies or targets a document may hold

ASSUME ArtifactsAreFinite == IsFiniteSet(Artifact)

ASSUME RootIsNoArtifact == Root \notin Artifact

ASSUME ListsAreTyped == Lists \subseteq Seq(Artifact)

VARIABLES
  sound,    \* identities valid, names distinct, sizes within the fixed limits
  listed,   \* the artifacts that are nodes
  lists,    \* the dependencies of each node, and the targets as those of Root
  mark,     \* visitState
  stack,    \* the calls of visit in progress, each with its place in its list
  rank,     \* history: when each node was marked visited
  verdict   \* the result, or "none"

document == <<sound, listed, lists>>
vars == <<document, mark, stack, rank, verdict>>

Vertex == Artifact \cup {Root}

\* Every variable keeps its type.
TypeOK ==
  /\ sound \in BOOLEAN
  /\ listed \subseteq Artifact
  /\ lists \in [Vertex -> Seq(Artifact)]
  /\ mark \in [Artifact -> {"none", "visiting", "visited"}]
  /\ stack \in Seq([node : Vertex, next : Nat \ {0}])
  /\ rank \in [Artifact -> Nat]
  /\ verdict \in {"none", "accepted", "rejected"}

Elements(list) == {list[i] : i \in 1..Len(list)}

-----------------------------------------------------------------------------
Init ==
  /\ sound \in BOOLEAN
  /\ listed \in SUBSET Artifact
  /\ lists \in [Vertex -> Lists]
  /\ \A a \in Artifact \ listed : lists[a] = <<>>
  /\ mark = [a \in Artifact |-> "none"]
  /\ stack = <<>>
  /\ rank = [a \in Artifact |-> 0]
  /\ verdict = "none"

Searching == verdict = "none" /\ stack # <<>>

\* The innermost call, its list, and the element it comes to.
Top == stack[Len(stack)]
List == lists[Top.node]
Callee == List[Top.next]
Calls == Searching /\ Top.next <= Len(List)

Repeated == \E i \in 1..(Top.next - 1) : List[i] = Callee

\* The stack when the innermost call goes on to its next element.
Advanced == [stack EXCEPT ![Len(stack)].next = @ + 1]

\* The checks before the search.
WellFormed ==
  /\ sound
  /\ lists[Root] # <<>> /\ Len(lists[Root]) <= Cardinality(listed)
  /\ \A a \in listed : Len(lists[a]) <= Cardinality(listed)

Begin ==
  /\ verdict = "none" /\ stack = <<>>
  /\ IF WellFormed
       THEN stack' = <<[node |-> Root, next |-> 1]>> /\ UNCHANGED verdict
       ELSE verdict' = "rejected" /\ UNCHANGED stack
  /\ UNCHANGED <<document, mark, rank>>

\* A repeated element, one that is no node, or one that is being visited.
Refuse ==
  /\ Calls
  /\ Repeated \/ Callee \notin listed \/ mark[Callee] = "visiting"
  /\ verdict' = "rejected"
  /\ UNCHANGED <<document, mark, stack, rank>>

\* Bug: a node that is being visited is skipped like a visited one.
BugSkipVisited ==
  /\ Calls /\ ~Repeated /\ Callee \in listed
  /\ mark[Callee] # "none"
  /\ stack' = Advanced
  /\ UNCHANGED <<document, mark, rank, verdict>>

\* Bug: the loop does not go on after a visited element.
BugNoProgress ==
  /\ Calls /\ ~Repeated /\ Callee \in listed
  /\ mark[Callee] = "visited"
  /\ UNCHANGED vars

SkipVisited ==
  /\ Calls /\ ~Repeated /\ Callee \in listed
  /\ mark[Callee] = "visited"
  /\ stack' = Advanced
  /\ UNCHANGED <<document, mark, rank, verdict>>

\* Bug: a node is marked visited before its dependencies are.
BugEnter ==
  /\ Calls /\ ~Repeated /\ Callee \in listed
  /\ mark[Callee] = "none"
  /\ mark' = [mark EXCEPT ![Callee] = "visited"]
  /\ stack' = Append(Advanced, [node |-> Callee, next |-> 1])
  /\ UNCHANGED <<document, rank, verdict>>

Enter ==
  /\ Calls /\ ~Repeated /\ Callee \in listed
  /\ mark[Callee] = "none"
  /\ mark' = [mark EXCEPT ![Callee] = "visiting"]
  /\ stack' = Append(Advanced, [node |-> Callee, next |-> 1])
  /\ UNCHANGED <<document, rank, verdict>>

Visited == {a \in Artifact : mark[a] = "visited"}

\* visit returns true; rank numbers the nodes in the order of this step.
Leave ==
  /\ Searching /\ Top.next > Len(List) /\ Top.node # Root
  /\ mark' = [mark EXCEPT ![Top.node] = "visited"]
  /\ rank' = [rank EXCEPT ![Top.node] = Cardinality(Visited) + 1]
  /\ stack' = SubSeq(stack, 1, Len(stack) - 1)
  /\ UNCHANGED <<document, verdict>>

\* Bug: nodes no target leads to are let through.
BugConclude ==
  /\ Searching /\ Top.next > Len(List) /\ Top.node = Root
  /\ verdict' = "accepted"
  /\ UNCHANGED <<document, mark, stack, rank>>

\* Every target is visited: the nodes are accepted if there is no other one.
Conclude ==
  /\ Searching /\ Top.next > Len(List) /\ Top.node = Root
  /\ verdict' = IF {a \in Artifact : mark[a] # "none"} = listed
                  THEN "accepted" ELSE "rejected"
  /\ UNCHANGED <<document, mark, stack, rank>>

Decided ==
  /\ verdict # "none"
  /\ UNCHANGED vars

Next == Begin \/ Refuse \/ SkipVisited \/ Enter \/ Leave \/ Conclude \/ Decided

Spec == Init /\ [][Next]_vars

FairSpec == Spec /\ WF_vars(Next)

-----------------------------------------------------------------------------
\* Properties

NoRepetition(list) == \A i, j \in 1..Len(list) : list[i] = list[j] => i = j

\* What no search that starts from the targets can leave.
Closed(S) ==
  /\ Elements(lists[Root]) \subseteq S
  /\ \A a \in S : Elements(lists[a]) \subseteq S

\* Some element of S depends on no element of S.
HasLeast(S) == \E a \in S : Elements(lists[a]) \cap S = {}

\* The definition the search stands for: no list repeats an element or names one that
\* is no node, the nodes are the smallest set the targets lead to, and no set of nodes
\* depends on itself all round.
ClosedAndAcyclic ==
  /\ listed # {}
  /\ \A v \in listed \cup {Root} :
       NoRepetition(lists[v]) /\ Elements(lists[v]) \subseteq listed
  /\ \A S \in SUBSET listed : Closed(S) => S = listed
  /\ \A S \in (SUBSET listed) \ {{}} : HasLeast(S)

\* The search accepts exactly the closed acyclic graphs: no cycle, gap, duplicate or
\* unrequested node passes, and no valid plan is refused (validGraph, parseMetadata).
VerdictIsExact ==
  verdict # "none" => (verdict = "accepted" <=> sound /\ ClosedAndAcyclic)

\* An accepted graph has a rank that falls along every dependency, which is what
\* nextReadyAction needs to find an action for as long as one is pending.
AcceptedIsRanked ==
  verdict = "accepted" =>
    \A a \in listed : \A d \in Elements(lists[a]) : d \in listed /\ rank[d] < rank[a]

\* The search ends for every document, cyclic ones included.
SearchEnds == <>(verdict # "none")

-----------------------------------------------------------------------------
\* A measure of the search, the reason why it ends

Unseen == {a \in Artifact : mark[a] = "none"}

\* The places a call may be at, the end of its list included (WellFormed).
Places == Cardinality(listed) + 1

\* Steps the search may still take: every node is entered and left once, and between
\* those steps the innermost call only goes on in its list.
StepsLeft ==
  LET nodes == Cardinality(Unseen) + Cardinality(Artifact \ Visited) IN
  CASE verdict # "none" -> 0
    [] verdict = "none" /\ stack = <<>> -> 2 * Cardinality(Artifact) * Places + Places + 1
    [] OTHER -> nodes * Places + (Places - Top.next) + 1

\* Every step brings the verdict nearer, for cyclic documents too: no node is entered
\* twice and no list is begun anew (visit).
SearchAdvances == [][StepsLeft' \in Nat /\ StepsLeft' < StepsLeft]_vars

-----------------------------------------------------------------------------
\* The inductive invariant behind AcceptedIsRanked, VerdictIsExact and SearchAdvances

\* The nodes on the stack are the ones being visited, each once, above the root.
StackIsVisiting ==
  /\ stack # <<>> => stack[1].node = Root
  /\ \A i \in 2..Len(stack) : stack[i].node \in listed /\ mark[stack[i].node] = "visiting"
  /\ \A i, j \in 1..Len(stack) : stack[i].node = stack[j].node => i = j
  /\ \A a \in Artifact : mark[a] = "visiting" => \E i \in 2..Len(stack) : stack[i].node = a

\* The elements a call has passed are visited, but for the one it waits for.
PassedIsVisited ==
  \A i \in 1..Len(stack) : \A k \in 1..Len(lists[stack[i].node]) :
    k < stack[i].next =>
      \/ lists[stack[i].node][k] \in Visited
      \/ i < Len(stack) /\ lists[stack[i].node][k] = stack[i + 1].node

\* A visited node comes after the nodes it depends on.
VisitedIsRanked ==
  \A a \in Visited :
    /\ a \in listed
    /\ rank[a] <= Cardinality(Visited)
    /\ \A d \in Elements(lists[a]) : d \in Visited /\ rank[d] < rank[a]

\* A search is only begun on a well-formed document.
SearchIsWellFormed == stack # <<>> \/ verdict = "accepted" => WellFormed

\* Each call on the stack is one of an element of the list of the call before.
StackIsPath ==
  \A i \in 1..(Len(stack) - 1) : stack[i + 1].node \in Elements(lists[stack[i].node])

\* No list repeats an element among those a call has passed.
PassedIsDistinct ==
  \A i \in 1..Len(stack) : \A k, l \in 1..Len(lists[stack[i].node]) :
    k < stack[i].next /\ l < stack[i].next
    /\ lists[stack[i].node][k] = lists[stack[i].node][l] => k = l

\* Only nodes the targets lead to are marked.
MarkedIsReached ==
  \A S \in SUBSET listed : Closed(S) => {a \in Artifact : mark[a] # "none"} \subseteq S

\* The visited nodes are in order among themselves.
VisitedIsOrdered ==
  /\ \A a \in Visited : NoRepetition(lists[a])
  /\ \A S \in (SUBSET Visited) \ {{}} : HasLeast(S)

\* A call is at an element of its list or past the last one.
CallIsInList == \A i \in 1..Len(stack) : stack[i].next <= Len(lists[stack[i].node]) + 1

\* What an accepted graph's rank rests on.
RankInvariant ==
  /\ TypeOK
  /\ StackIsVisiting
  /\ PassedIsVisited
  /\ VisitedIsRanked
  /\ AcceptedIsRanked

\* What the verdict rests on.
VerdictInvariant ==
  /\ SearchIsWellFormed
  /\ StackIsPath
  /\ PassedIsDistinct
  /\ MarkedIsReached
  /\ VisitedIsOrdered
  /\ VerdictIsExact

\* The conjunction the proofs show to be inductive.
SearchInvariant == RankInvariant /\ VerdictInvariant /\ CallIsInList

=============================================================================
