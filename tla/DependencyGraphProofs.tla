----------------------- MODULE DependencyGraphProofs -----------------------
(***************************************************************************)
(* An accepted dependency graph can be ranked, for every document: each     *)
(* node is marked visited after all of its dependencies.                    *)
(***************************************************************************)
EXTENDS DependencyGraph, FiniteSetTheorems, TLAPS

Frame == [node : Vertex, next : Nat \ {0}]

\* The innermost call and the stack that has advanced over its current element.
LEMMA TopFacts ==
  ASSUME TypeOK, Searching
  PROVE  /\ Len(stack) \in Nat \ {0}
         /\ Top \in Frame /\ Top = stack[Len(stack)]
         /\ List = lists[Top.node] /\ List \in Seq(Artifact) /\ Len(List) \in Nat
         /\ \A i \in 1..Len(stack) :
              /\ stack[i] \in Frame
              /\ stack[i].node \in Vertex /\ stack[i].next \in Nat \ {0}
              /\ lists[stack[i].node] \in Seq(Artifact)
<1>1. stack \in Seq(Frame) /\ stack # <<>>
  BY DEF TypeOK, Searching, Frame
<1>2. Len(stack) \in Nat \ {0} /\ \A i \in 1..Len(stack) : stack[i] \in Frame
  BY <1>1
<1>3. \A i \in 1..Len(stack) : stack[i].node \in Vertex /\ stack[i].next \in Nat \ {0}
  BY <1>2 DEF Frame
<1>4. \A v \in Vertex : lists[v] \in Seq(Artifact)
  BY DEF TypeOK
<1>5. Len(stack) \in 1..Len(stack)
  BY <1>2
<1>6. Top \in Frame /\ Top = stack[Len(stack)] /\ List = lists[Top.node]
  BY <1>2, <1>5 DEF Top, List
<1>7. List \in Seq(Artifact) /\ Len(List) \in Nat
  BY <1>3, <1>4, <1>5, <1>6
<1> QED BY <1>2, <1>3, <1>4, <1>6, <1>7

LEMMA AdvancedFacts ==
  ASSUME TypeOK, Searching
  PROVE  /\ Advanced \in Seq(Frame)
         /\ Len(Advanced) = Len(stack)
         /\ \A i \in 1..Len(stack) :
              /\ Advanced[i].node = stack[i].node
              /\ i # Len(stack) => Advanced[i].next = stack[i].next
              /\ i = Len(stack) => Advanced[i].next = stack[i].next + 1
<1>1. /\ Len(stack) \in Nat \ {0}
      /\ \A i \in 1..Len(stack) : stack[i] \in Frame
  BY TopFacts
<1>2. stack \in Seq(Frame)
  BY DEF TypeOK, Frame
<1>3. stack = [i \in 1..Len(stack) |-> stack[i]]
  BY <1>2
<1> DEFINE step(i) == IF i = Len(stack) THEN [stack[i] EXCEPT !.next = @ + 1] ELSE stack[i]
<1>4. Advanced = [i \in 1..Len(stack) |-> step(i)]
  BY <1>1, <1>3 DEF Advanced
<1>5. \A i \in 1..Len(stack) :
        /\ step(i) \in Frame
        /\ step(i).node = stack[i].node
        /\ i # Len(stack) => step(i).next = stack[i].next
        /\ i = Len(stack) => step(i).next = stack[i].next + 1
  BY <1>1 DEF Frame
<1> HIDE DEF step
<1>6. Advanced \in Seq(Frame) /\ Len(Advanced) = Len(stack)
  BY <1>1, <1>4, <1>5
<1> QED BY <1>4, <1>5, <1>6

\* Visited nodes are finitely many.
LEMMA VisitedIsFinite ==
  IsFiniteSet(Visited) /\ Cardinality(Visited) \in Nat
BY ArtifactsAreFinite, FS_Subset, FS_CardinalityType DEF Visited

\* The initial condition establishes the invariant.
LEMMA SearchInit == Init => RankInvariant
<1> SUFFICES ASSUME Init PROVE RankInvariant
  OBVIOUS
<1>1. stack = <<>> /\ Len(stack) = 0 /\ Visited = {}
  BY DEF Init, Visited
<1>2. TypeOK
  BY <1>1, ListsAreTyped DEF Init, TypeOK
<1>3. StackIsVisiting
  BY <1>1 DEF Init, StackIsVisiting
<1>4. PassedIsVisited
  BY <1>1 DEF PassedIsVisited
<1>5. VisitedIsRanked
  BY <1>1 DEF VisitedIsRanked
<1>6. AcceptedIsRanked
  BY DEF Init, AcceptedIsRanked
<1> QED BY <1>2, <1>3, <1>4, <1>5, <1>6 DEF RankInvariant

LEMMA BeginKeeps ==
  ASSUME RankInvariant, Begin
  PROVE  RankInvariant'
<1> USE DEF RankInvariant
<1>1. /\ UNCHANGED <<document, mark, rank>> /\ Visited' = Visited
      /\ verdict' # "accepted" /\ stack = <<>>
      /\ \/ stack' = <<>>
         \/ stack' = <<[node |-> Root, next |-> 1]>>
  BY DEF Begin, Visited, document
<1>2. \/ stack' = <<>> /\ Len(stack') = 0
      \/ /\ stack' = <<[node |-> Root, next |-> 1]>> /\ Len(stack') = 1
         /\ stack'[1].node = Root /\ stack'[1].next = 1
  BY <1>1
<1>3. stack' \in Seq(Frame)
  <2>1. [node |-> Root, next |-> 1] \in Frame
    BY DEF Frame, Vertex
  <2>2. PICK frame \in Frame : frame = [node |-> Root, next |-> 1]
    BY <2>1
  <2>3. <<frame>> \in Seq(Frame) /\ <<>> \in Seq(Frame)
    OBVIOUS
  <2> QED BY <2>2, <2>3, <1>1
<1>4. TypeOK'
  BY <1>1, <1>3 DEF TypeOK, Begin, document, Frame, Vertex
<1>5. \A a \in Artifact : mark[a] # "visiting"
  BY <1>1 DEF StackIsVisiting
<1>6. StackIsVisiting'
  BY <1>1, <1>2, <1>5 DEF StackIsVisiting, document
<1>7. PassedIsVisited'
  BY <1>2 DEF PassedIsVisited
<1>8. VisitedIsRanked'
  BY <1>1 DEF VisitedIsRanked, document
<1> QED BY <1>1, <1>4, <1>6, <1>7, <1>8 DEF AcceptedIsRanked

LEMMA RefuseKeeps ==
  ASSUME RankInvariant, Refuse
  PROVE  RankInvariant'
<1> USE DEF RankInvariant
<1>1. UNCHANGED <<document, mark, stack, rank>> /\ Visited' = Visited /\ verdict' = "rejected"
  BY DEF Refuse, Visited
<1>2. TypeOK'
  BY <1>1 DEF TypeOK, document
<1>3. StackIsVisiting' /\ PassedIsVisited' /\ VisitedIsRanked' /\ AcceptedIsRanked'
  BY <1>1 DEF StackIsVisiting, PassedIsVisited, VisitedIsRanked, AcceptedIsRanked, document
<1> QED BY <1>2, <1>3

LEMMA SkipKeeps ==
  ASSUME RankInvariant, SkipVisited
  PROVE  RankInvariant'
<1> USE DEF RankInvariant
<1>1. /\ UNCHANGED <<document, mark, rank, verdict>> /\ Visited' = Visited
      /\ stack' = Advanced /\ Searching /\ verdict # "accepted"
      /\ Callee \in Visited
  BY DEF SkipVisited, Calls, Searching, Visited, TypeOK
<1>2. /\ Len(stack) \in Nat \ {0}
      /\ \A i \in 1..Len(stack) :
           stack[i].next \in Nat \ {0} /\ lists[stack[i].node] \in Seq(Artifact)
      /\ List = lists[stack[Len(stack)].node] /\ Top = stack[Len(stack)]
  BY <1>1, TopFacts
<1>3. /\ stack' \in Seq(Frame) /\ Len(stack') = Len(stack)
      /\ \A i \in 1..Len(stack) :
           /\ stack'[i].node = stack[i].node
           /\ i # Len(stack) => stack'[i].next = stack[i].next
           /\ i = Len(stack) => stack'[i].next = stack[i].next + 1
  BY <1>1, AdvancedFacts
<1>4. TypeOK'
  BY <1>1, <1>3 DEF TypeOK, document, Frame, Vertex
<1>5. StackIsVisiting'
  <2>1. stack'[1].node = Root
    BY <1>1, <1>2, <1>3 DEF StackIsVisiting, Searching
  <2>2. \A i \in 2..Len(stack') :
          stack'[i].node \in listed' /\ mark'[stack'[i].node] = "visiting"
    BY <1>1, <1>2, <1>3 DEF StackIsVisiting, document
  <2>3. \A i, j \in 1..Len(stack') : stack'[i].node = stack'[j].node => i = j
    BY <1>1, <1>2, <1>3 DEF StackIsVisiting
  <2>4. ASSUME NEW a \in Artifact, mark'[a] = "visiting"
        PROVE  \E i \in 2..Len(stack') : stack'[i].node = a
    <3>1. PICK i \in 2..Len(stack) : stack[i].node = a
      BY <2>4, <1>1 DEF StackIsVisiting
    <3>2. i \in 2..Len(stack') /\ i \in 1..Len(stack)
      BY <1>2, <1>3
    <3> QED BY <3>1, <3>2, <1>3
  <2> QED BY <2>1, <2>2, <2>3, <2>4 DEF StackIsVisiting
<1>6. PassedIsVisited'
  <2> SUFFICES ASSUME NEW i \in 1..Len(stack), NEW k \in 1..Len(lists[stack[i].node]),
                      k < stack'[i].next
               PROVE  \/ lists[stack[i].node][k] \in Visited
                      \/ i < Len(stack) /\ lists[stack[i].node][k] = stack'[i + 1].node
    <3>1. lists' = lists /\ Visited' = Visited /\ Len(stack') = Len(stack)
      BY <1>1, <1>3 DEF document
    <3>2. \A i \in 1..Len(stack) : stack'[i].node = stack[i].node
      BY <1>3
    <3> QED BY <3>1, <3>2 DEF PassedIsVisited
  <2>1. CASE k < stack[i].next
    <3>1. \/ lists[stack[i].node][k] \in Visited
          \/ i < Len(stack) /\ lists[stack[i].node][k] = stack[i + 1].node
      BY <2>1 DEF PassedIsVisited
    <3>2. i < Len(stack) => i + 1 \in 1..Len(stack)
      BY <1>2
    <3>3. i < Len(stack) => stack'[i + 1].node = stack[i + 1].node
      BY <3>2, <1>3
    <3> QED BY <3>1, <3>3
  <2>2. CASE ~(k < stack[i].next)
    <3>1. i = Len(stack) /\ k = stack[i].next
      BY <2>2, <1>2, <1>3
    <3> QED BY <3>1, <1>1, <1>2 DEF Callee
  <2> QED BY <2>1, <2>2
<1>7. VisitedIsRanked' /\ AcceptedIsRanked'
  BY <1>1 DEF VisitedIsRanked, AcceptedIsRanked, document
<1> QED BY <1>4, <1>5, <1>6, <1>7

LEMMA EnterKeeps ==
  ASSUME RankInvariant, Enter
  PROVE  RankInvariant'
<1> USE DEF RankInvariant
<1> DEFINE n == Len(stack)
           frame == [node |-> Callee, next |-> 1]
<1>1. /\ UNCHANGED <<document, rank, verdict>>
      /\ stack' = Append(Advanced, frame) /\ Searching /\ verdict # "accepted"
      /\ Callee \in listed /\ Callee \in Artifact /\ mark[Callee] = "none"
      /\ mark' = [mark EXCEPT ![Callee] = "visiting"]
  BY DEF Enter, Calls, Searching, TypeOK
<1>2. /\ n \in Nat \ {0}
      /\ \A i \in 1..n : stack[i].next \in Nat \ {0} /\ lists[stack[i].node] \in Seq(Artifact)
      /\ List = lists[stack[n].node] /\ Top = stack[n]
  BY <1>1, TopFacts
<1>3. frame \in Frame /\ frame.node = Callee /\ frame.next = 1
  BY <1>1 DEF Frame, Vertex
<1>4. /\ Advanced \in Seq(Frame) /\ Len(Advanced) = n
      /\ \A i \in 1..n :
           /\ Advanced[i].node = stack[i].node
           /\ i # n => Advanced[i].next = stack[i].next
           /\ i = n => Advanced[i].next = stack[i].next + 1
  BY <1>1, AdvancedFacts
<1> HIDE DEF frame
<1>5. /\ stack' \in Seq(Frame) /\ Len(stack') = n + 1
      /\ stack'[n + 1] = frame
      /\ \A i \in 1..n : stack'[i] = Advanced[i]
  BY <1>1, <1>2, <1>3, <1>4
<1>6. /\ \A i \in 1..n :
           /\ stack'[i].node = stack[i].node
           /\ i # n => stack'[i].next = stack[i].next
           /\ i = n => stack'[i].next = stack[i].next + 1
      /\ stack'[n + 1].node = Callee /\ stack'[n + 1].next = 1
  BY <1>3, <1>4, <1>5
<1>7. /\ mark' \in [Artifact -> {"none", "visiting", "visited"}]
      /\ mark'[Callee] = "visiting"
      /\ \A a \in Artifact \ {Callee} : mark'[a] = mark[a]
  BY <1>1 DEF TypeOK
<1>8. Visited' = Visited
  BY <1>1, <1>7 DEF Visited
<1>9. TypeOK'
  BY <1>1, <1>5, <1>7 DEF TypeOK, document, Frame, Vertex
<1>10. StackIsVisiting'
  <2>1. stack'[1].node = Root
    BY <1>1, <1>2, <1>6 DEF StackIsVisiting, Searching
  <2>2. \A i \in 1..n : stack[i].node # Callee
    <3> SUFFICES ASSUME NEW i \in 1..n, stack[i].node = Callee PROVE FALSE
      OBVIOUS
    <3>1. CASE i = 1
      BY <3>1, <1>1, RootIsNoArtifact DEF StackIsVisiting, Searching
    <3>2. CASE i # 1
      <4>1. i \in 2..Len(stack)
        BY <3>2, <1>2
      <4> QED BY <4>1, <1>1 DEF StackIsVisiting
    <3> QED BY <3>1, <3>2
  <2>3. ASSUME NEW i \in 2..(n + 1)
        PROVE  stack'[i].node \in listed' /\ mark'[stack'[i].node] = "visiting"
    <3>1. CASE i = n + 1
      BY <3>1, <1>1, <1>6, <1>7 DEF document
    <3>2. CASE i # n + 1
      <4>1. i \in 2..n /\ i \in 1..n
        BY <3>2, <1>2
      <4>2. stack[i].node \in listed /\ mark[stack[i].node] = "visiting"
        BY <4>1 DEF StackIsVisiting
      <4>3. stack[i].node \in Artifact
        BY <4>2 DEF TypeOK
      <4> QED BY <4>1, <4>2, <4>3, <2>2, <1>1, <1>6, <1>7 DEF document
    <3> QED BY <3>1, <3>2
  <2>4. ASSUME NEW i \in 1..(n + 1), NEW j \in 1..(n + 1), stack'[i].node = stack'[j].node
        PROVE  i = j
    <3>1. CASE i \in 1..n /\ j \in 1..n
      BY <3>1, <2>4, <1>6 DEF StackIsVisiting
    <3>2. CASE i = n + 1 \/ j = n + 1
      <4>1. (i = n + 1 \/ i \in 1..n) /\ (j = n + 1 \/ j \in 1..n)
        BY <1>2
      <4> QED BY <4>1, <3>2, <2>2, <2>4, <1>6
    <3> QED BY <3>1, <3>2, <1>2
  <2>5. ASSUME NEW a \in Artifact, mark'[a] = "visiting"
        PROVE  \E i \in 2..(n + 1) : stack'[i].node = a
    <3>1. CASE a = Callee
      <4>1. n + 1 \in 2..(n + 1)
        BY <1>2
      <4> QED BY <3>1, <4>1, <1>6
    <3>2. CASE a # Callee
      <4>1. PICK i \in 2..n : stack[i].node = a
        BY <3>2, <2>5, <1>7 DEF StackIsVisiting
      <4>2. i \in 2..(n + 1) /\ i \in 1..n
        BY <1>2
      <4> QED BY <4>1, <4>2, <1>6
    <3> QED BY <3>1, <3>2
  <2> QED BY <2>1, <2>3, <2>4, <2>5, <1>5 DEF StackIsVisiting
<1>11. PassedIsVisited'
  <2> SUFFICES ASSUME NEW i \in 1..(n + 1), NEW k \in 1..Len(lists[stack'[i].node]),
                      k < stack'[i].next
               PROVE  \/ lists[stack'[i].node][k] \in Visited
                      \/ i < n + 1 /\ lists[stack'[i].node][k] = stack'[i + 1].node
    BY <1>1, <1>5, <1>8 DEF PassedIsVisited, document
  <2>1. CASE i = n + 1
    BY <2>1, <1>6
  <2>2. CASE i # n + 1
    <3>1. i \in 1..n /\ i < n + 1 /\ (i = n \/ i + 1 \in 1..n)
      BY <2>2, <1>2
    <3>2. CASE k < stack[i].next
      BY <3>1, <3>2, <1>2, <1>6 DEF PassedIsVisited
    <3>3. CASE ~(k < stack[i].next)
      <4>1. i = n /\ k = stack[i].next
        BY <3>1, <3>3, <1>2, <1>6
      <4> QED BY <4>1, <3>1, <1>2, <1>6 DEF Callee
    <3> QED BY <3>2, <3>3
  <2> QED BY <2>1, <2>2
<1>12. VisitedIsRanked' /\ AcceptedIsRanked'
  BY <1>1, <1>8 DEF VisitedIsRanked, AcceptedIsRanked, document
<1> QED BY <1>9, <1>10, <1>11, <1>12

LEMMA LeaveKeeps ==
  ASSUME RankInvariant, Leave
  PROVE  RankInvariant'
<1> USE DEF RankInvariant
<1> DEFINE n == Len(stack)
           left == Top.node
<1>1. /\ UNCHANGED <<document, verdict>>
      /\ stack' = SubSeq(stack, 1, n - 1) /\ Searching /\ verdict # "accepted"
      /\ Top.next > Len(List) /\ left # Root
      /\ mark' = [mark EXCEPT ![left] = "visited"]
      /\ rank' = [rank EXCEPT ![left] = Cardinality(Visited) + 1]
  BY DEF Leave, Searching
<1>2. /\ n \in Nat \ {0} /\ Top = stack[n] /\ List = lists[left] /\ Top.next \in Nat
      /\ List \in Seq(Artifact)
      /\ \A i \in 1..n : stack[i] \in Frame
                         /\ stack[i].next \in Nat \ {0} /\ lists[stack[i].node] \in Seq(Artifact)
  BY <1>1, TopFacts
<1>3. n # 1 /\ n \in 2..n /\ n \in 1..n
  BY <1>1, <1>2 DEF StackIsVisiting, Searching
<1>4. left \in listed /\ left \in Artifact /\ mark[left] = "visiting"
  BY <1>2, <1>3 DEF StackIsVisiting, TypeOK
<1>5. /\ stack' \in Seq(Frame) /\ Len(stack') = n - 1
      /\ \A i \in 1..(n - 1) : stack'[i] = stack[i]
  <2>1. stack \in Seq(Frame)
    BY DEF TypeOK, Frame
  <2> QED BY <2>1, <1>1, <1>2, <1>3
<1>6. /\ mark' \in [Artifact -> {"none", "visiting", "visited"}]
      /\ mark'[left] = "visited" /\ \A a \in Artifact \ {left} : mark'[a] = mark[a]
  BY <1>1, <1>4 DEF TypeOK
<1>7. Visited' = Visited \cup {left} /\ left \notin Visited
  BY <1>4, <1>6 DEF Visited
<1>8. Cardinality(Visited) \in Nat /\ Cardinality(Visited') = Cardinality(Visited) + 1
  <2>1. IsFiniteSet(Visited) /\ Cardinality(Visited) \in Nat
    BY VisitedIsFinite
  <2> QED BY <2>1, <1>7, FS_AddElement
<1>9. /\ rank' \in [Artifact -> Nat]
      /\ rank'[left] = Cardinality(Visited) + 1
      /\ \A a \in Artifact \ {left} : rank'[a] = rank[a]
  BY <1>1, <1>4, <1>8 DEF TypeOK
<1>10. TypeOK'
  BY <1>1, <1>5, <1>6, <1>9 DEF TypeOK, document, Frame, Vertex
<1>11. StackIsVisiting'
  <2>1. stack'[1].node = Root
    <3>1. 1 \in 1..(n - 1)
      BY <1>2, <1>3
    <3> QED BY <3>1, <1>1, <1>5 DEF StackIsVisiting, Searching
  <2>2. ASSUME NEW i \in 2..(n - 1)
        PROVE  stack'[i].node \in listed' /\ mark'[stack'[i].node] = "visiting"
    <3>1. i \in 1..(n - 1) /\ i \in 2..n /\ i \in 1..n /\ i # n
      BY <1>2
    <3>2. stack[i].node \in listed /\ mark[stack[i].node] = "visiting"
      BY <3>1 DEF StackIsVisiting
    <3>3. stack[i].node # left
      BY <3>1, <1>2, <1>3 DEF StackIsVisiting
    <3>4. stack[i].node \in Artifact
      BY <3>2 DEF TypeOK
    <3> QED BY <3>1, <3>2, <3>3, <3>4, <1>1, <1>5, <1>6 DEF document
  <2>3. ASSUME NEW i \in 1..(n - 1), NEW j \in 1..(n - 1), stack'[i].node = stack'[j].node
        PROVE  i = j
    <3>1. i \in 1..n /\ j \in 1..n
      BY <1>2
    <3> QED BY <3>1, <2>3, <1>5 DEF StackIsVisiting
  <2>4. ASSUME NEW a \in Artifact, mark'[a] = "visiting"
        PROVE  \E i \in 2..(n - 1) : stack'[i].node = a
    <3>1. a # left /\ mark[a] = "visiting"
      BY <2>4, <1>6
    <3>2. PICK i \in 2..n : stack[i].node = a
      BY <3>1 DEF StackIsVisiting
    <3>3. i \in 2..(n - 1) /\ i \in 1..(n - 1)
      BY <3>1, <3>2, <1>2
    <3> QED BY <3>2, <3>3, <1>5
  <2> QED BY <2>1, <2>2, <2>3, <2>4, <1>5 DEF StackIsVisiting
<1>12. PassedIsVisited'
  <2> SUFFICES ASSUME NEW i \in 1..(n - 1), NEW k \in 1..Len(lists[stack[i].node]),
                      k < stack[i].next
               PROVE  \/ lists[stack[i].node][k] \in Visited'
                      \/ i < n - 1 /\ lists[stack[i].node][k] = stack'[i + 1].node
    BY <1>1, <1>5 DEF PassedIsVisited, document
  <2>1. i \in 1..n /\ (i = n - 1 \/ (i < n - 1 /\ i + 1 \in 1..(n - 1)))
    BY <1>2
  <2>2. \/ lists[stack[i].node][k] \in Visited
        \/ lists[stack[i].node][k] = stack[i + 1].node
    BY <2>1 DEF PassedIsVisited
  <2>3. CASE lists[stack[i].node][k] \in Visited
    BY <2>3, <1>7
  <2>4. CASE lists[stack[i].node][k] = stack[i + 1].node /\ i = n - 1
    <3>1. i + 1 = n
      BY <2>4, <1>2
    <3> QED BY <3>1, <2>4, <1>2, <1>7
  <2>5. CASE lists[stack[i].node][k] = stack[i + 1].node /\ i < n - 1
    BY <2>1, <2>5, <1>5, <1>2
  <2> QED BY <2>1, <2>2, <2>3, <2>4, <2>5
<1>13. VisitedIsRanked'
  <2> SUFFICES ASSUME NEW a \in Visited'
               PROVE  /\ a \in listed
                      /\ rank'[a] <= Cardinality(Visited) + 1
                      /\ \A d \in Elements(lists[a]) : d \in Visited' /\ rank'[d] < rank'[a]
    BY <1>1, <1>8 DEF VisitedIsRanked, document, Elements
  <2>1. \A b \in Visited : b # left /\ b \in Artifact /\ rank'[b] = rank[b] /\ rank[b] \in Nat
                           /\ rank[b] <= Cardinality(Visited)
    BY <1>7, <1>9 DEF VisitedIsRanked, Visited, TypeOK
  <2>2. CASE a = left
    <3>1. ASSUME NEW d \in Elements(List) PROVE d \in Visited
      <4>1. PICK k \in 1..Len(List) : List[k] = d
        BY DEF Elements
      <4>2. k < stack[n].next
        BY <1>1, <1>2
      <4> QED BY <4>1, <4>2, <1>2, <1>3 DEF PassedIsVisited
    <3>2. rank'[a] = Cardinality(Visited) + 1 /\ a \in listed
      BY <2>2, <1>4, <1>9
    <3>3. Elements(lists[a]) = Elements(List)
      BY <2>2, <1>2
    <3> QED BY <3>1, <3>2, <3>3, <2>1, <1>7, <1>8
  <2>3. CASE a # left
    <3>1. a \in Visited
      BY <2>3, <1>7
    <3>2. a \in listed /\ \A d \in Elements(lists[a]) : d \in Visited /\ rank[d] < rank[a]
      BY <3>1 DEF VisitedIsRanked
    <3> QED BY <3>1, <3>2, <2>1, <1>7, <1>8
  <2> QED BY <2>2, <2>3
<1>14. AcceptedIsRanked'
  BY <1>1 DEF AcceptedIsRanked
<1> QED BY <1>10, <1>11, <1>12, <1>13, <1>14

LEMMA ConcludeKeeps ==
  ASSUME RankInvariant, Conclude
  PROVE  RankInvariant'
<1> USE DEF RankInvariant
<1>1. /\ UNCHANGED <<document, mark, stack, rank>> /\ Visited' = Visited
      /\ Searching /\ Top.node = Root
      /\ verdict' \in {"accepted", "rejected"}
      /\ verdict' = "accepted" => {a \in Artifact : mark[a] # "none"} = listed
  BY DEF Conclude, Visited
<1>2. Len(stack) \in Nat \ {0} /\ Top = stack[Len(stack)]
  BY <1>1, TopFacts
<1>3. Len(stack) = 1
  <2>1. Len(stack) \in 1..Len(stack) /\ 1 \in 1..Len(stack)
    BY <1>2
  <2> QED BY <2>1, <1>1, <1>2 DEF StackIsVisiting, Searching
<1>4. \A a \in Artifact : mark[a] # "visiting"
  BY <1>3 DEF StackIsVisiting
<1>5. verdict' = "accepted" => listed \subseteq Visited
  BY <1>1, <1>4 DEF Visited, TypeOK
<1>6. TypeOK'
  BY <1>1 DEF TypeOK, document
<1>7. StackIsVisiting' /\ PassedIsVisited' /\ VisitedIsRanked'
  BY <1>1 DEF StackIsVisiting, PassedIsVisited, VisitedIsRanked, document
<1>8. AcceptedIsRanked'
  BY <1>1, <1>5 DEF AcceptedIsRanked, VisitedIsRanked, document
<1> QED BY <1>6, <1>7, <1>8

LEMMA RankNext ==
  ASSUME RankInvariant, [Next]_vars
  PROVE  RankInvariant'
<1>1. CASE UNCHANGED vars
  <2> USE <1>1 DEF vars, document, RankInvariant
  <2>1. TypeOK'
    BY DEF TypeOK
  <2>2. StackIsVisiting'
    BY DEF StackIsVisiting
  <2>3. Visited' = Visited
    BY DEF Visited
  <2>4. PassedIsVisited' /\ VisitedIsRanked' /\ AcceptedIsRanked'
    BY <2>3 DEF PassedIsVisited, VisitedIsRanked, AcceptedIsRanked
  <2> QED BY <2>1, <2>2, <2>3, <2>4
<1>2. CASE Decided
  BY <1>1, <1>2 DEF Decided
<1> QED BY <1>1, <1>2, BeginKeeps, RefuseKeeps, SkipKeeps, EnterKeeps, LeaveKeeps,
           ConcludeKeeps DEF Next

-----------------------------------------------------------------------------
\* The verdict

\* The document does not change, and with it what the verdict should be.
LEMMA DocumentStays ==
  ASSUME UNCHANGED document
  PROVE  /\ ClosedAndAcyclic' = ClosedAndAcyclic
         /\ WellFormed' = WellFormed
         /\ \A S : Closed(S)' = Closed(S) /\ HasLeast(S)' = HasLeast(S)
<1> USE DEF document
<1>1. WellFormed' = WellFormed
  BY DEF WellFormed
<1>2. \A S : Closed(S)' = Closed(S) /\ HasLeast(S)' = HasLeast(S)
  BY DEF Closed, HasLeast, Elements
<1>3. ClosedAndAcyclic' = ClosedAndAcyclic
  BY DEF ClosedAndAcyclic, Closed, HasLeast, Elements, NoRepetition
<1> QED BY <1>1, <1>2, <1>3

\* A list of nodes that repeats none is no longer than there are nodes.
LEMMA DistinctIsShort ==
  ASSUME TypeOK, NEW v \in Vertex, NoRepetition(lists[v]), Elements(lists[v]) \subseteq listed
  PROVE  Len(lists[v]) <= Cardinality(listed)
<1> DEFINE n == Len(lists[v])
           f == [i \in 1..n |-> lists[v][i]]
<1>1. lists[v] \in Seq(Artifact) /\ n \in Nat
  BY DEF TypeOK
<1>2. IsFiniteSet(listed)
  BY ArtifactsAreFinite, FS_Subset DEF TypeOK
<1>3. f \in Injection(1..n, listed)
  BY DEF Injection, IsInjective, NoRepetition, Elements
<1>4. Cardinality(1..n) <= Cardinality(listed)
  BY <1>2, <1>3, FS_Injection
<1>5. Cardinality(1..n) = n
  <2>1. 1 \in Int /\ n \in Int
    BY <1>1
  <2>2. Cardinality(1..n) = IF 1 > n THEN 0 ELSE n - 1 + 1
    BY <2>1, FS_Interval
  <2> QED BY <2>2, <1>1
<1> QED BY <1>4, <1>5

\* The checks before the search refuse nothing that should be accepted.
LEMMA ExactIsWellFormed ==
  ASSUME TypeOK, sound, ClosedAndAcyclic
  PROVE  WellFormed
<1>1. listed \subseteq Vertex /\ Root \in Vertex
  BY DEF TypeOK, Vertex
<1>2. \A v \in listed \cup {Root} : Len(lists[v]) <= Cardinality(listed)
  BY <1>1, DistinctIsShort DEF ClosedAndAcyclic
<1>3. lists[Root] # <<>>
  <2> SUFFICES ASSUME lists[Root] = <<>> PROVE FALSE
    OBVIOUS
  <2>1. Elements(lists[Root]) = {}
    BY DEF Elements
  <2>2. Closed({}) /\ {} \in SUBSET listed
    BY <2>1 DEF Closed
  <2> QED BY <2>2 DEF ClosedAndAcyclic
<1> QED BY <1>2, <1>3 DEF WellFormed

\* Before the first step nothing is on the stack, marked or decided.
LEMMA VerdictInit == Init => VerdictInvariant
<1> SUFFICES ASSUME Init PROVE VerdictInvariant
  OBVIOUS
<1>1. /\ stack = <<>> /\ Len(stack) = 0 /\ Visited = {} /\ verdict = "none"
      /\ {a \in Artifact : mark[a] # "none"} = {}
  BY DEF Init, Visited
<1>2. SearchIsWellFormed /\ VerdictIsExact
  BY <1>1 DEF SearchIsWellFormed, VerdictIsExact
<1>3. StackIsPath /\ PassedIsDistinct
  BY <1>1 DEF StackIsPath, PassedIsDistinct
<1>4. MarkedIsReached /\ VisitedIsOrdered
  BY <1>1 DEF MarkedIsReached, VisitedIsOrdered
<1> QED BY <1>2, <1>3, <1>4 DEF VerdictInvariant

LEMMA BeginDecides ==
  ASSUME RankInvariant, VerdictInvariant, Begin
  PROVE  VerdictInvariant'
<1> USE DEF RankInvariant, VerdictInvariant
<1>1. /\ UNCHANGED <<document, mark>> /\ Visited' = Visited
      /\ \/ WellFormed /\ stack' = <<[node |-> Root, next |-> 1]>> /\ verdict' = "none"
         \/ ~WellFormed /\ stack' = <<>> /\ verdict' = "rejected"
  BY DEF Begin, Visited
<1>2. \/ stack' = <<>> /\ Len(stack') = 0
      \/ Len(stack') = 1 /\ stack'[1].node = Root /\ stack'[1].next = 1
  BY <1>1
<1>3. SearchIsWellFormed'
  BY <1>1, DocumentStays DEF SearchIsWellFormed
<1>4. StackIsPath'
  BY <1>2 DEF StackIsPath
<1>5. PassedIsDistinct'
  BY <1>2 DEF PassedIsDistinct
<1>6. MarkedIsReached' /\ VisitedIsOrdered'
  BY <1>1, DocumentStays DEF MarkedIsReached, VisitedIsOrdered, document
<1>7. VerdictIsExact'
  BY <1>1, ExactIsWellFormed, DocumentStays DEF VerdictIsExact, document
<1> QED BY <1>3, <1>4, <1>5, <1>6, <1>7

\* The calls in progress, from the one of the element that is refused on, depend on one
\* another all round.
LEMMA VisitingIsCycle ==
  ASSUME RankInvariant, VerdictInvariant, Calls, mark[Callee] = "visiting", Callee \in listed
  PROVE  ~ClosedAndAcyclic
<1> USE DEF RankInvariant, VerdictInvariant
<1> DEFINE n == Len(stack)
<1>1. /\ n \in Nat \ {0} /\ Top = stack[n] /\ List = lists[stack[n].node]
      /\ Top.next \in 1..Len(List) /\ Callee \in Artifact
  <2>1. Searching
    BY DEF Calls
  <2>2. n \in Nat \ {0} /\ n \in 1..n /\ Top = stack[n] /\ List = lists[Top.node]
        /\ Len(List) \in Nat /\ stack[n].next \in Nat \ {0}
    BY <2>1, TopFacts
  <2> QED BY <2>2 DEF Calls, TypeOK
<1>2. Callee \in Elements(List)
  BY <1>1 DEF Callee, Elements
<1>3. PICK p \in 2..n : stack[p].node = Callee
  BY <1>1 DEF StackIsVisiting
<1> DEFINE S == {stack[i].node : i \in p..n}
<1>4. S \subseteq listed /\ Callee \in S
  <2>1. p \in p..n /\ \A i \in p..n : i \in 2..n
    BY <1>1, <1>3
  <2> QED BY <2>1, <1>3 DEF StackIsVisiting
<1>5. ASSUME NEW i \in p..n
      PROVE  Elements(lists[stack[i].node]) \cap S # {}
  <2>1. CASE i = n
    BY <2>1, <1>1, <1>2, <1>4
  <2>2. CASE i # n
    <3>1. i \in 1..(n - 1) /\ i + 1 \in p..n
      BY <2>2, <1>1, <1>3
    <3>2. stack[i + 1].node \in Elements(lists[stack[i].node])
      BY <3>1 DEF StackIsPath
    <3>3. stack[i + 1].node \in S
      BY <3>1
    <3> QED BY <3>2, <3>3
  <2> QED BY <2>1, <2>2
<1>6. ~HasLeast(S)
  BY <1>5 DEF HasLeast
<1>7. S \in (SUBSET listed) \ {{}}
  BY <1>4
<1> HIDE DEF S
<1> QED BY <1>6, <1>7 DEF ClosedAndAcyclic

LEMMA RefuseDecides ==
  ASSUME RankInvariant, VerdictInvariant, Refuse
  PROVE  VerdictInvariant'
<1> USE DEF RankInvariant, VerdictInvariant
<1>1. /\ UNCHANGED <<document, mark, stack>> /\ Visited' = Visited
      /\ verdict' = "rejected" /\ Searching /\ Calls
  BY DEF Refuse, Visited, Calls
<1>2. /\ Len(stack) \in 1..Len(stack) /\ Top = stack[Len(stack)] /\ List = lists[Top.node]
      /\ Top.next \in 1..Len(List)
  <2>1. Len(stack) \in Nat \ {0} /\ Top = stack[Len(stack)] /\ List = lists[Top.node]
        /\ Len(List) \in Nat
        /\ \A i \in 1..Len(stack) : stack[i].next \in Nat \ {0}
    BY <1>1, TopFacts
  <2>2. Len(stack) \in 1..Len(stack)
    BY <2>1
  <2> QED BY <2>1, <2>2, <1>1 DEF Calls
<1>3. Top.node \in listed \cup {Root}
  BY <1>1, <1>2 DEF StackIsVisiting, Searching
<1>4. ASSUME Repeated PROVE ~ClosedAndAcyclic
  <2>1. PICK i \in 1..(Top.next - 1) : List[i] = List[Top.next]
    BY <1>4 DEF Repeated, Callee
  <2>2. i \in 1..Len(List) /\ i # Top.next
    BY <2>1, <1>2
  <2>3. ~NoRepetition(List)
    BY <2>1, <2>2, <1>2 DEF NoRepetition
  <2> QED BY <2>3, <1>2, <1>3 DEF ClosedAndAcyclic
<1>5. ASSUME Callee \notin listed PROVE ~ClosedAndAcyclic
  <2>1. Callee \in Elements(List)
    BY <1>2 DEF Callee, Elements
  <2> QED BY <2>1, <1>2, <1>3, <1>5 DEF ClosedAndAcyclic
<1>6. ~ClosedAndAcyclic
  BY <1>1, <1>4, <1>5, VisitingIsCycle DEF Refuse
<1>7. VerdictIsExact'
  BY <1>1, <1>6, DocumentStays DEF VerdictIsExact
<1>8. SearchIsWellFormed' /\ MarkedIsReached' /\ VisitedIsOrdered'
  BY <1>1, DocumentStays
  DEF SearchIsWellFormed, MarkedIsReached, VisitedIsOrdered, document, Searching
<1>9. StackIsPath' /\ PassedIsDistinct'
  BY <1>1 DEF StackIsPath, PassedIsDistinct, document
<1> QED BY <1>7, <1>8, <1>9

\* When the innermost call has passed its element, what it has passed is still distinct.
LEMMA AdvancedIsDistinct ==
  ASSUME TypeOK, PassedIsDistinct, Calls, ~Repeated,
         NEW i \in 1..Len(stack),
         NEW k \in 1..Len(lists[stack[i].node]), NEW l \in 1..Len(lists[stack[i].node]),
         k < Advanced[i].next, l < Advanced[i].next,
         lists[stack[i].node][k] = lists[stack[i].node][l]
  PROVE  k = l
<1> DEFINE n == Len(stack)
<1>1. Searching
  BY DEF Calls
<1>2. /\ n \in Nat \ {0} /\ Top = stack[n] /\ List = lists[Top.node]
      /\ i # n => Advanced[i].next = stack[i].next
      /\ i = n => Advanced[i].next = stack[i].next + 1
      /\ stack[i].next \in Nat \ {0} /\ Len(lists[stack[i].node]) \in Nat
  BY <1>1, TopFacts, AdvancedFacts
<1>3. CASE k < stack[i].next /\ l < stack[i].next
  BY <1>3 DEF PassedIsDistinct
<1>4. CASE ~(k < stack[i].next /\ l < stack[i].next)
  <2>1. i = n /\ (k = Top.next \/ l = Top.next)
    BY <1>2, <1>4
  <2>2. \A j \in 1..(Top.next - 1) : List[j] # List[Top.next]
    BY DEF Repeated, Callee
  <2>3. (k = Top.next \/ k \in 1..(Top.next - 1)) /\ (l = Top.next \/ l \in 1..(Top.next - 1))
    BY <1>2, <2>1
  <2> QED BY <1>2, <2>1, <2>2, <2>3
<1> QED BY <1>3, <1>4

LEMMA SkipDecides ==
  ASSUME RankInvariant, VerdictInvariant, SkipVisited
  PROVE  VerdictInvariant'
<1> USE DEF RankInvariant, VerdictInvariant
<1>1. /\ UNCHANGED <<document, mark, verdict>> /\ Visited' = Visited /\ stack' = Advanced
      /\ Calls /\ Searching /\ verdict = "none" /\ ~Repeated
  BY DEF SkipVisited, Visited, Calls, Searching
<1>2. /\ Len(stack) \in Nat \ {0} /\ Len(Advanced) = Len(stack)
      /\ \A i \in 1..Len(stack) : Advanced[i].node = stack[i].node
  BY <1>1, TopFacts, AdvancedFacts
<1>3. SearchIsWellFormed'
  BY <1>1, DocumentStays DEF SearchIsWellFormed, Searching
<1>4. StackIsPath'
  <2> SUFFICES ASSUME NEW i \in 1..(Len(stack) - 1)
               PROVE  stack'[i + 1].node \in Elements(lists[stack'[i].node])
    <3>1. lists' = lists /\ Len(stack') = Len(stack)
      BY <1>1, <1>2 DEF document
    <3> QED BY <3>1 DEF StackIsPath, Elements
  <2>1. i \in 1..Len(stack) /\ i + 1 \in 1..Len(stack)
    BY <1>2
  <2> QED BY <2>1, <1>1, <1>2 DEF StackIsPath
<1>5. PassedIsDistinct'
  <2>1. lists' = lists
    BY <1>1 DEF document
  <2> SUFFICES ASSUME NEW i \in 1..Len(stack),
                      NEW k \in 1..Len(lists[stack[i].node]),
                      NEW l \in 1..Len(lists[stack[i].node]),
                      k < Advanced[i].next, l < Advanced[i].next,
                      lists[stack[i].node][k] = lists[stack[i].node][l]
               PROVE  k = l
    BY <2>1, <1>1, <1>2 DEF PassedIsDistinct
  <2> QED BY <1>1, AdvancedIsDistinct
<1>6. MarkedIsReached' /\ VisitedIsOrdered'
  BY <1>1, DocumentStays DEF MarkedIsReached, VisitedIsOrdered, document
<1>7. VerdictIsExact'
  BY <1>1 DEF VerdictIsExact
<1> QED BY <1>3, <1>4, <1>5, <1>6, <1>7

LEMMA EnterDecides ==
  ASSUME RankInvariant, VerdictInvariant, Enter
  PROVE  VerdictInvariant'
<1> USE DEF RankInvariant, VerdictInvariant
<1> DEFINE n == Len(stack)
           frame == [node |-> Callee, next |-> 1]
<1>1. /\ UNCHANGED <<document, verdict>> /\ stack' = Append(Advanced, frame)
      /\ mark' = [mark EXCEPT ![Callee] = "visiting"]
      /\ Calls /\ Searching /\ verdict = "none" /\ ~Repeated
      /\ Callee \in Artifact /\ mark[Callee] = "none"
  BY DEF Enter, Calls, Searching, TypeOK
<1>2. /\ n \in Nat \ {0} /\ Top = stack[n] /\ List = lists[Top.node]
      /\ Len(List) \in Nat /\ Top.next \in Nat \ {0}
      /\ Advanced \in Seq(Frame) /\ Len(Advanced) = n
      /\ \A i \in 1..n : Advanced[i].node = stack[i].node
  <2>1. n \in 1..n
    BY <1>1, TopFacts
  <2> QED BY <2>1, <1>1, TopFacts, AdvancedFacts
<1>3. frame \in Frame /\ frame.node = Callee /\ frame.next = 1
  BY <1>1 DEF Frame, Vertex
<1> HIDE DEF frame
<1>4. /\ Len(stack') = n + 1 /\ stack'[n + 1].node = Callee /\ stack'[n + 1].next = 1
      /\ \A i \in 1..n : stack'[i] = Advanced[i] /\ stack'[i].node = stack[i].node
  BY <1>1, <1>2, <1>3
<1>5. mark'[Callee] = "visiting" /\ \A a \in Artifact \ {Callee} : mark'[a] = mark[a]
  BY <1>1 DEF TypeOK
<1>6. Visited' = Visited
  BY <1>1, <1>5 DEF Visited
<1>7. Callee \in Elements(List)
  BY <1>1, <1>2 DEF Callee, Elements, Calls
<1>8. SearchIsWellFormed'
  BY <1>1, DocumentStays DEF SearchIsWellFormed, Searching
<1>9. StackIsPath'
  <2> SUFFICES ASSUME NEW i \in 1..n
               PROVE  stack'[i + 1].node \in Elements(lists[stack[i].node])
    <3>1. lists' = lists /\ Len(stack') - 1 = n
      BY <1>1, <1>2, <1>4 DEF document
    <3> QED BY <3>1, <1>4 DEF StackIsPath, Elements
  <2>1. CASE i = n
    BY <2>1, <1>2, <1>4, <1>7
  <2>2. CASE i # n
    <3>1. i \in 1..(n - 1) /\ i + 1 \in 1..n
      BY <2>2, <1>2
    <3> QED BY <3>1, <1>4 DEF StackIsPath
  <2> QED BY <2>1, <2>2
<1>10. PassedIsDistinct'
  <2>1. lists' = lists
    BY <1>1 DEF document
  <2>2. \A i \in 1..(n + 1) : i \in 1..n \/ i = n + 1
    BY <1>2
  <2> SUFFICES ASSUME NEW i \in 1..(n + 1),
                      NEW k \in 1..Len(lists[stack'[i].node]),
                      NEW l \in 1..Len(lists[stack'[i].node]),
                      k < stack'[i].next, l < stack'[i].next,
                      lists[stack'[i].node][k] = lists[stack'[i].node][l]
               PROVE  k = l
    BY <2>1, <1>4 DEF PassedIsDistinct
  <2>3. CASE i = n + 1
    BY <2>3, <1>4
  <2>4. CASE i \in 1..n
    BY <2>4, <1>1, <1>4, AdvancedIsDistinct
  <2> QED BY <2>2, <2>3, <2>4
<1>11. MarkedIsReached'
  <2> DEFINE Marked == {a \in Artifact : mark[a] # "none"}
  <2>1. {a \in Artifact : mark'[a] # "none"} = Marked \cup {Callee}
    BY <1>1, <1>5
  <2>2. ASSUME NEW S \in SUBSET listed, Closed(S)
        PROVE  Callee \in S
    <3>1. Marked \subseteq S
      BY <2>2 DEF MarkedIsReached
    <3>2. CASE Top.node = Root
      BY <3>2, <2>2, <1>2, <1>7 DEF Closed
    <3>3. CASE Top.node # Root
      <4>1. n \in 2..n
        BY <3>3, <1>1, <1>2 DEF StackIsVisiting, Searching
      <4>2. Top.node \in listed /\ mark[Top.node] = "visiting"
        BY <4>1, <1>2 DEF StackIsVisiting
      <4>3. Top.node \in S
        BY <4>2, <3>1 DEF TypeOK
      <4> QED BY <4>3, <2>2, <1>2, <1>7 DEF Closed
    <3> QED BY <3>2, <3>3
  <2>3. \A S \in SUBSET listed : Closed(S) => Marked \subseteq S
    BY DEF MarkedIsReached
  <2> QED BY <2>1, <2>2, <2>3, <1>1, DocumentStays DEF MarkedIsReached, document
<1>12. VisitedIsOrdered'
  BY <1>1, <1>6, DocumentStays DEF VisitedIsOrdered, document
<1>13. VerdictIsExact'
  BY <1>1 DEF VerdictIsExact
<1> QED BY <1>8, <1>9, <1>10, <1>11, <1>12, <1>13

\* The set of a new visited node and of visited ones still has a least element: none of
\* the old ones depends on the new one, and the new one only on old ones.
LEMMA OrderExtends ==
  ASSUME VisitedIsRanked, VisitedIsOrdered, NEW left, left \notin Visited,
         Elements(lists[left]) \subseteq Visited,
         NEW S \in (SUBSET (Visited \cup {left})) \ {{}}
  PROVE  HasLeast(S)
<1>1. CASE left \notin S
  BY <1>1 DEF VisitedIsOrdered
<1>2. CASE S = {left}
  BY <1>2 DEF HasLeast
<1>3. CASE left \in S /\ S # {left}
  <2> DEFINE rest == S \ {left}
  <2>1. rest \in (SUBSET Visited) \ {{}}
    BY <1>3
  <2>2. HasLeast(rest)
    BY <2>1 DEF VisitedIsOrdered
  <2>3. PICK a \in rest : Elements(lists[a]) \cap rest = {}
    BY <2>2 DEF HasLeast
  <2>4. a \in Visited /\ Elements(lists[a]) \subseteq Visited
    BY <2>1, <2>3 DEF VisitedIsRanked
  <2>5. Elements(lists[a]) \cap S = {}
    BY <2>3, <2>4
  <2> QED BY <2>3, <2>5 DEF HasLeast
<1> QED BY <1>1, <1>2, <1>3

\* When a call has passed its whole list, the list is distinct and its elements visited.
LEMMA CompletedCall ==
  ASSUME RankInvariant, PassedIsDistinct, Searching, Top.next > Len(List)
  PROVE  NoRepetition(List) /\ Elements(List) \subseteq Visited
<1> DEFINE n == Len(stack)
<1>1. /\ n \in Nat \ {0} /\ n \in 1..n /\ Top = stack[n] /\ List = lists[stack[n].node]
      /\ Len(List) \in Nat /\ stack[n].next \in Nat
  <2>1. n \in Nat \ {0} /\ n \in 1..n /\ Top = stack[n] /\ List = lists[Top.node]
    BY TopFacts DEF RankInvariant
  <2> QED BY <2>1, TopFacts DEF RankInvariant
<1>2. \A k \in 1..Len(List) : k < stack[n].next
  BY <1>1
<1>3. NoRepetition(List)
  BY <1>1, <1>2 DEF PassedIsDistinct, NoRepetition
<1>4. \A k \in 1..Len(List) : List[k] \in Visited
  BY <1>1, <1>2 DEF RankInvariant, PassedIsVisited
<1> QED BY <1>3, <1>4 DEF Elements

LEMMA LeaveDecides ==
  ASSUME RankInvariant, VerdictInvariant, Leave
  PROVE  VerdictInvariant'
<1> USE DEF RankInvariant, VerdictInvariant
<1> DEFINE n == Len(stack)
           left == Top.node
<1>1. /\ UNCHANGED <<document, verdict>> /\ lists' = lists
      /\ stack' = SubSeq(stack, 1, n - 1) /\ Searching /\ verdict = "none"
      /\ Top.next > Len(List) /\ left # Root
      /\ mark' = [mark EXCEPT ![left] = "visited"]
  BY DEF Leave, Searching, document
<1>2. n \in Nat \ {0} /\ n \in 1..n /\ Top = stack[n] /\ List = lists[left]
  BY <1>1, TopFacts
<1>3. n \in 2..n
  BY <1>1, <1>2 DEF StackIsVisiting, Searching
<1>4. left \in listed /\ left \in Artifact /\ mark[left] = "visiting"
  BY <1>2, <1>3 DEF StackIsVisiting, TypeOK
<1>5. Len(stack') = n - 1 /\ \A i \in 1..(n - 1) : stack'[i] = stack[i]
  <2>1. stack \in Seq(Frame)
    BY DEF TypeOK, Frame
  <2> QED BY <2>1, <1>1, <1>2, <1>3
<1>6. mark'[left] = "visited" /\ \A a \in Artifact \ {left} : mark'[a] = mark[a]
  BY <1>1, <1>4 DEF TypeOK
<1>7. Visited' = Visited \cup {left} /\ left \notin Visited
  BY <1>4, <1>6 DEF Visited
<1>8. NoRepetition(lists[left]) /\ Elements(lists[left]) \subseteq Visited
  BY <1>1, <1>2, CompletedCall
<1>9. SearchIsWellFormed'
  BY <1>1, DocumentStays DEF SearchIsWellFormed, Searching
<1>10. StackIsPath'
  <2> SUFFICES ASSUME NEW i \in 1..(Len(stack') - 1)
               PROVE  stack'[i + 1].node \in Elements(lists[stack'[i].node])
    <3>1. lists' = lists
      BY <1>1
    <3> QED BY <3>1 DEF StackIsPath, Elements
  <2>1. i \in 1..(n - 1) /\ i + 1 \in 1..(n - 1)
    BY <1>2, <1>5
  <2> QED BY <2>1, <1>5 DEF StackIsPath
<1>11. PassedIsDistinct'
  <2>1. \A i \in 1..(n - 1) : i \in 1..n
    BY <1>2
  <2> QED BY <2>1, <1>1, <1>5 DEF PassedIsDistinct
<1>12. MarkedIsReached'
  <2>1. {a \in Artifact : mark'[a] # "none"} = {a \in Artifact : mark[a] # "none"}
    BY <1>4, <1>6
  <2> QED BY <2>1, <1>1, DocumentStays DEF MarkedIsReached, document
<1>13. VisitedIsOrdered'
  <2>1. \A a \in Visited' : NoRepetition(lists[a])
    BY <1>7, <1>8 DEF VisitedIsOrdered
  <2>2. \A S \in (SUBSET Visited') \ {{}} : HasLeast(S)
    <3>1. VisitedIsRanked /\ VisitedIsOrdered /\ (SUBSET Visited') = SUBSET (Visited \cup {left})
      BY <1>7
    <3> HIDE DEF left
    <3> QED BY <3>1, <1>7, <1>8, OrderExtends
  <2> QED BY <2>1, <2>2, <1>1, DocumentStays DEF VisitedIsOrdered, NoRepetition
<1>14. VerdictIsExact'
  BY <1>1 DEF VerdictIsExact
<1> QED BY <1>9, <1>10, <1>11, <1>12, <1>13, <1>14

LEMMA ConcludeDecides ==
  ASSUME RankInvariant, VerdictInvariant, Conclude
  PROVE  VerdictInvariant'
<1> USE DEF RankInvariant, VerdictInvariant
<1> DEFINE Marked == {a \in Artifact : mark[a] # "none"}
<1>1. /\ UNCHANGED <<document, mark, stack>> /\ Visited' = Visited /\ lists' = lists
      /\ Searching /\ Top.node = Root /\ Top.next > Len(List)
      /\ verdict' = IF Marked = listed THEN "accepted" ELSE "rejected"
  BY DEF Conclude, Visited, document
<1>2. /\ Len(stack) \in Nat \ {0} /\ Len(stack) \in 1..Len(stack) /\ 1 \in 1..Len(stack)
      /\ Top = stack[Len(stack)] /\ List = lists[Root]
  BY <1>1, TopFacts
<1>3. Len(stack) = 1
  BY <1>1, <1>2 DEF StackIsVisiting, Searching
<1>4. Marked = Visited
  <2>1. \A a \in Artifact : mark[a] # "visiting"
    BY <1>3 DEF StackIsVisiting
  <2> QED BY <2>1 DEF Visited, TypeOK
<1>5. NoRepetition(lists[Root]) /\ Elements(lists[Root]) \subseteq Visited
  BY <1>1, <1>2, CompletedCall
<1>6. sound /\ lists[Root] # <<>>
  BY <1>1 DEF SearchIsWellFormed, WellFormed, Searching
<1>7. Visited \subseteq listed /\ Closed(Visited)
  BY <1>5 DEF Closed, VisitedIsRanked
<1>8. ASSUME Marked = listed PROVE ClosedAndAcyclic
  <2>1. lists[Root] \in Seq(Artifact) /\ Len(lists[Root]) \in Nat
    BY DEF TypeOK, Vertex
  <2>2. 1 \in 1..Len(lists[Root])
    BY <2>1, <1>6
  <2>3. listed # {}
    BY <2>2, <1>5, <1>7 DEF Elements
  <2>4. \A v \in listed \cup {Root} :
          NoRepetition(lists[v]) /\ Elements(lists[v]) \subseteq listed
    BY <1>4, <1>5, <1>7, <1>8 DEF Closed, VisitedIsOrdered
  <2>5. \A S \in SUBSET listed : Closed(S) => S = listed
    BY <1>8 DEF MarkedIsReached
  <2>6. \A S \in (SUBSET listed) \ {{}} : HasLeast(S)
    BY <1>4, <1>8 DEF VisitedIsOrdered
  <2> QED BY <2>3, <2>4, <2>5, <2>6 DEF ClosedAndAcyclic
<1>9. ASSUME Marked # listed PROVE ~ClosedAndAcyclic
  BY <1>4, <1>7, <1>9 DEF ClosedAndAcyclic
<1>10. VerdictIsExact'
  BY <1>1, <1>6, <1>8, <1>9, DocumentStays DEF VerdictIsExact, document
<1>11. SearchIsWellFormed' /\ MarkedIsReached' /\ VisitedIsOrdered'
  <2>1. WellFormed
    BY <1>1 DEF SearchIsWellFormed, Searching
  <2>2. SearchIsWellFormed'
    BY <2>1, <1>1, DocumentStays DEF SearchIsWellFormed
  <2>3. MarkedIsReached' /\ VisitedIsOrdered'
    <3>1. UNCHANGED <<lists, listed, mark>> /\ UNCHANGED document
      BY <1>1 DEF document
    <3> QED BY <3>1, <1>1, DocumentStays DEF MarkedIsReached, VisitedIsOrdered, NoRepetition
  <2> QED BY <2>2, <2>3
<1>12. StackIsPath' /\ PassedIsDistinct'
  BY <1>1 DEF StackIsPath, PassedIsDistinct, Elements
<1> QED BY <1>10, <1>11, <1>12

\* A call only goes on while it is within its list.
LEMMA CallStep ==
  ASSUME RankInvariant, CallIsInList, Next
  PROVE  CallIsInList'
<1> USE DEF RankInvariant
<1>1. lists' = lists
  BY DEF Next, Begin, Refuse, SkipVisited, Enter, Leave, Conclude, Decided, document, vars
<1>2. CASE Begin
  <2>1. stack = <<>> /\ (stack' = <<>> \/ stack' = <<[node |-> Root, next |-> 1]>>)
    BY <1>2 DEF Begin
  <2>2. Len(lists[Root]) \in Nat
    BY DEF TypeOK, Vertex
  <2> QED BY <1>1, <2>1, <2>2 DEF CallIsInList
<1>3. CASE SkipVisited \/ Enter
  <2> DEFINE n == Len(stack)
  <2>1. Searching /\ Top.next <= Len(List)
    BY <1>3 DEF SkipVisited, Enter, Calls
  <2>2. /\ n \in Nat \ {0} /\ Top = stack[n] /\ List = lists[stack[n].node]
        /\ \A i \in 1..n :
             stack[i].next \in Nat \ {0} /\ lists[stack[i].node] \in Seq(Artifact)
    BY <2>1, TopFacts
  <2>3. /\ Advanced \in Seq(Frame) /\ Len(Advanced) = n
        /\ \A i \in 1..n :
             /\ Advanced[i].node = stack[i].node
             /\ i # n => Advanced[i].next = stack[i].next
             /\ i = n => Advanced[i].next = stack[i].next + 1
    BY <2>1, AdvancedFacts
  <2>4. \A i \in 1..n : Advanced[i].next <= Len(lists[Advanced[i].node]) + 1
    <3> SUFFICES ASSUME NEW i \in 1..n
                 PROVE  Advanced[i].next <= Len(lists[stack[i].node]) + 1
      BY <2>3
    <3>1. stack[i].next <= Len(lists[stack[i].node]) + 1
      BY DEF CallIsInList
    <3>2. CASE i = n
      BY <2>1, <2>2, <2>3, <3>2
    <3>3. CASE i # n
      BY <2>3, <3>1, <3>3
    <3> QED BY <3>2, <3>3
  <2>5. CASE SkipVisited
    BY <1>1, <2>3, <2>4, <2>5 DEF SkipVisited, CallIsInList
  <2>6. CASE Enter
    <3> DEFINE frame == [node |-> Callee, next |-> 1]
    <3>1. stack' = Append(Advanced, frame) /\ Callee \in Artifact
      BY <2>6 DEF Enter, TypeOK
    <3>2. frame \in Frame /\ frame.node = Callee /\ frame.next = 1
      BY <3>1 DEF Frame, Vertex
    <3>3. Len(lists[Callee]) \in Nat
      BY <3>1 DEF TypeOK, Vertex
    <3> HIDE DEF frame
    <3>4. /\ Len(stack') = n + 1 /\ stack'[n + 1] = frame
          /\ \A i \in 1..n : stack'[i] = Advanced[i]
      BY <2>2, <2>3, <3>1, <3>2
    <3>5. ASSUME NEW i \in 1..(n + 1)
          PROVE  stack'[i].next <= Len(lists[stack'[i].node]) + 1
      <4>1. CASE i = n + 1
        BY <3>2, <3>3, <3>4, <4>1
      <4>2. CASE i # n + 1
        <5>1. i \in 1..n
          BY <2>2, <4>2
        <5> QED BY <2>4, <3>4, <5>1
      <4> QED BY <4>1, <4>2
    <3> QED BY <1>1, <3>4, <3>5 DEF CallIsInList
  <2> QED BY <1>3, <2>5, <2>6
<1>4. CASE Leave
  <2>1. Searching /\ stack' = SubSeq(stack, 1, Len(stack) - 1)
    BY <1>4 DEF Leave
  <2>2. Len(stack) \in Nat \ {0} /\ stack \in Seq(Frame)
    BY <2>1, TopFacts DEF TypeOK, Frame
  <2> DEFINE m == Len(stack) - 1
  <2>3. m \in Nat /\ stack' = SubSeq(stack, 1, m) /\ m <= Len(stack)
    BY <2>1, <2>2
  <2>4. Len(stack') = m /\ \A i \in 1..m : stack'[i] = stack[i]
    <3> HIDE DEF m
    <3> QED BY <2>2, <2>3
  <2> QED BY <1>1, <2>2, <2>4 DEF CallIsInList
<1>5. CASE Refuse \/ Conclude \/ Decided
  <2>1. stack' = stack
    BY <1>5 DEF Refuse, Conclude, Decided, vars
  <2> QED BY <1>1, <2>1 DEF CallIsInList
<1> QED BY <1>2, <1>3, <1>4, <1>5 DEF Next

\* The invariant of the search holds for every document.
THEOREM SearchAlways == Spec => []SearchInvariant
<1>1. Init => SearchInvariant
  <2>1. Init => CallIsInList
    BY DEF Init, CallIsInList
  <2> QED BY <2>1, SearchInit, VerdictInit DEF SearchInvariant
<1>2. SearchInvariant /\ [Next]_vars => SearchInvariant'
  <2> SUFFICES ASSUME SearchInvariant, [Next]_vars PROVE SearchInvariant'
    OBVIOUS
  <2>1. RankInvariant /\ VerdictInvariant /\ CallIsInList
    BY DEF SearchInvariant
  <2>2. RankInvariant'
    BY <2>1, RankNext
  <2>3. ASSUME UNCHANGED vars PROVE VerdictInvariant'
    <3> USE <2>1, <2>3 DEF vars, VerdictInvariant
    <3>1. Visited' = Visited /\ UNCHANGED document /\ lists' = lists
      BY DEF Visited, document
    <3>2. SearchIsWellFormed' /\ VerdictIsExact'
      BY <3>1, DocumentStays DEF SearchIsWellFormed, VerdictIsExact, document
    <3>3. MarkedIsReached' /\ VisitedIsOrdered'
      BY <3>1, DocumentStays DEF MarkedIsReached, VisitedIsOrdered, document
    <3>4. StackIsPath' /\ PassedIsDistinct'
      BY <3>1 DEF StackIsPath, PassedIsDistinct, Elements
    <3> QED BY <3>2, <3>3, <3>4
  <2>4. ASSUME Decided PROVE VerdictInvariant'
    BY <2>3, <2>4 DEF Decided
  <2>5. VerdictInvariant'
    BY <2>1, <2>3, <2>4, BeginDecides, RefuseDecides, SkipDecides, EnterDecides,
       LeaveDecides, ConcludeDecides DEF Next
  <2>6. CallIsInList'
    BY <2>1, CallStep DEF CallIsInList, vars, document
  <2> QED BY <2>2, <2>5, <2>6 DEF SearchInvariant
<1> QED BY <1>1, <1>2, PTL DEF Spec

\* Every graph validGraph or parseMetadata accepts can be ranked, so that the order in
\* which nextReadyAction runs its actions never comes to a standstill.
THEOREM AcceptedIsRankedAlways == Spec => []AcceptedIsRanked
<1>1. SearchInvariant => AcceptedIsRanked
  BY DEF SearchInvariant, RankInvariant
<1> QED BY <1>1, SearchAlways, PTL

\* validGraph and parseMetadata accept the closed acyclic graphs and no other, for every
\* number of artifacts: nothing valid is refused, and nothing else passes.
THEOREM VerdictAlways == Spec => []VerdictIsExact
<1>1. SearchInvariant => VerdictIsExact
  BY DEF SearchInvariant, VerdictInvariant
<1> QED BY <1>1, SearchAlways, PTL

-----------------------------------------------------------------------------
\* The measure falls

\* Nodes still to be entered, and nodes still to be left.
Nodes == Cardinality(Unseen) + Cardinality(Artifact \ Visited)

LEMMA NodesFacts ==
  /\ Nodes \in Nat /\ Nodes <= 2 * Cardinality(Artifact) /\ Cardinality(Artifact) \in Nat
  /\ Cardinality(Unseen) \in Nat /\ Cardinality(Artifact \ Visited) \in Nat
<1>1. /\ Cardinality(Artifact) \in Nat
      /\ Cardinality(Unseen) \in Nat /\ Cardinality(Unseen) <= Cardinality(Artifact)
  BY ArtifactsAreFinite, FS_Subset, FS_CardinalityType DEF Unseen
<1>2. /\ Cardinality(Artifact \ Visited) \in Nat
      /\ Cardinality(Artifact \ Visited) <= Cardinality(Artifact)
  BY ArtifactsAreFinite, FS_Subset, FS_CardinalityType
<1> QED BY <1>1, <1>2 DEF Nodes

LEMMA PlacesFacts == TypeOK => Cardinality(listed) \in Nat /\ Places \in Nat \ {0}
BY ArtifactsAreFinite, FS_Subset, FS_CardinalityType DEF TypeOK, Places

\* A set with one element less.
LEMMA OneLess ==
  ASSUME NEW S \in SUBSET Artifact, NEW a \in S
  PROVE  Cardinality(S \ {a}) \in Nat /\ Cardinality(S \ {a}) + 1 = Cardinality(S)
<1>1. IsFiniteSet(S) /\ Cardinality(S) \in Nat
  BY ArtifactsAreFinite, FS_Subset, FS_CardinalityType
<1>2. Cardinality(S \ {a}) = Cardinality(S) - 1
  BY <1>1, FS_RemoveElement, Zenon
<1>3. Cardinality(S \ {a}) \in Nat
  BY <1>1, FS_Subset, FS_CardinalityType
<1> QED BY <1>1, <1>2, <1>3

LEMMA Products ==
  ASSUME NEW m \in Nat, NEW n \in Nat, NEW p \in Nat
  PROVE  n * p \in Nat /\ (n + 1) * p = n * p + p /\ (n <= m => n * p <= m * p)
<1>1. n * p \in Nat /\ (n + 1) * p = n * p + p
  OBVIOUS
<1>2. ASSUME n <= m PROVE n * p <= m * p
  <2>1. m - n \in Nat /\ m = n + (m - n)
    BY <1>2
  <2>2. m * p = n * p + (m - n) * p /\ (m - n) * p \in Nat
    BY <2>1
  <2> QED BY <1>1, <2>2
<1> QED BY <1>1, <1>2

\* The innermost call is at one of the places of its list.
LEMMA TopIsPlaced ==
  SearchInvariant /\ Searching => Top.next \in Nat \ {0} /\ Top.next <= Places
<1> SUFFICES ASSUME SearchInvariant, Searching
             PROVE  Top.next \in Nat \ {0} /\ Top.next <= Places
  OBVIOUS
<1> USE DEF SearchInvariant, RankInvariant, VerdictInvariant
<1>1. /\ Len(stack) \in Nat \ {0} /\ Top = stack[Len(stack)] /\ List = lists[Top.node]
      /\ Len(List) \in Nat /\ Top.next \in Nat \ {0}
  <2>1. Len(stack) \in 1..Len(stack)
    BY TopFacts
  <2> QED BY <2>1, TopFacts
<1>2. Top.next <= Len(List) + 1
  BY <1>1 DEF CallIsInList
<1>3. Top.node = Root \/ Top.node \in listed
  BY <1>1 DEF StackIsVisiting, Searching
<1>4. Len(List) <= Cardinality(listed)
  BY <1>1, <1>3 DEF SearchIsWellFormed, WellFormed, Searching
<1> QED BY <1>1, <1>2, <1>4, PlacesFacts DEF Places

LEMMA BeginLowers ==
  ASSUME SearchInvariant, Begin PROVE StepsLeft' \in Nat /\ StepsLeft' < StepsLeft
<1> DEFINE most == 2 * Cardinality(Artifact)
<1>1. /\ Nodes \in Nat /\ most \in Nat /\ Nodes <= most /\ Places \in Nat \ {0}
  BY NodesFacts, PlacesFacts DEF SearchInvariant, RankInvariant
<1>2. Nodes * Places \in Nat /\ Nodes * Places <= most * Places /\ most * Places \in Nat
  BY <1>1, Products
<1>3. StepsLeft = most * Places + Places + 1
  BY DEF Begin, StepsLeft
<1>4. CASE WellFormed
  <2>1. /\ UNCHANGED <<document, mark, verdict>> /\ verdict = "none"
        /\ stack' = <<[node |-> Root, next |-> 1]>>
    BY <1>4 DEF Begin
  <2>2. stack' # <<>> /\ Top'.next = 1
    BY <2>1 DEF Top
  <2>3. UNCHANGED <<Places, Unseen, Visited>>
    BY <2>1 DEF Places, Unseen, Visited, document
  <2>4. StepsLeft' = Nodes * Places + (Places - 1) + 1
    BY <2>1, <2>2, <2>3 DEF StepsLeft, Nodes
  <2> HIDE DEF most
  <2> QED BY <1>1, <1>2, <1>3, <2>4
<1>5. CASE ~WellFormed
  <2>1. StepsLeft' = 0
    BY <1>5 DEF Begin, StepsLeft
  <2> HIDE DEF most
  <2> QED BY <1>1, <1>2, <1>3, <2>1
<1> QED BY <1>4, <1>5

\* Every step of a search that has begun.
LEMMA SearchLowers ==
  ASSUME SearchInvariant, SearchInvariant', Searching,
         Refuse \/ SkipVisited \/ Enter \/ Leave \/ Conclude
  PROVE  StepsLeft' \in Nat /\ StepsLeft' < StepsLeft
<1>1. TypeOK /\ TypeOK'
  BY DEF SearchInvariant, RankInvariant
<1>2. /\ Nodes \in Nat /\ Places \in Nat \ {0} /\ Nodes * Places \in Nat
      /\ Top.next \in Nat \ {0} /\ Top.next <= Places
  BY <1>1, NodesFacts, PlacesFacts, Products, TopIsPlaced
<1>3. StepsLeft = Nodes * Places + (Places - Top.next) + 1
  BY DEF StepsLeft, Searching, Nodes
<1>4. CASE Refuse \/ Conclude
  <2>1. verdict' # "none"
    BY <1>4 DEF Refuse, Conclude
  <2>2. StepsLeft' = 0
    BY <2>1 DEF StepsLeft
  <2> QED BY <1>2, <1>3, <2>2
<1> DEFINE n == Len(stack)
<1>5. n \in Nat \ {0} /\ Top = stack[n] /\ n \in 1..n
  BY <1>1, TopFacts
<1>6. CASE SkipVisited
  <2>1. UNCHANGED <<document, mark, verdict>> /\ stack' = Advanced
    BY <1>6 DEF SkipVisited
  <2>2. Len(stack') = n /\ stack'[n].next = stack[n].next + 1
    BY <1>1, <1>5, <2>1, AdvancedFacts
  <2>3. Searching' /\ Top'.next = Top.next + 1
    BY <1>5, <2>1, <2>2 DEF Searching, Top
  <2>4. UNCHANGED <<Places, Unseen, Visited>>
    BY <2>1 DEF Places, Unseen, Visited, document
  <2>5. StepsLeft' = Nodes * Places + (Places - (Top.next + 1)) + 1
    BY <2>3, <2>4 DEF StepsLeft, Searching, Nodes
  <2> QED BY <1>2, <1>3, <2>5
<1>7. CASE Enter
  <2> DEFINE frame == [node |-> Callee, next |-> 1]
  <2>1. /\ UNCHANGED <<document, verdict>> /\ stack' = Append(Advanced, frame)
        /\ Callee \in Artifact /\ mark[Callee] = "none"
        /\ mark' = [mark EXCEPT ![Callee] = "visiting"]
    BY <1>1, <1>7 DEF Enter, TypeOK
  <2>2. Advanced \in Seq(Frame) /\ Len(Advanced) = n
    BY <1>1, AdvancedFacts
  <2>3. frame \in Frame /\ frame.next = 1
    BY <2>1 DEF Frame, Vertex
  <2>4. Searching' /\ Top'.next = 1
    <3> HIDE DEF frame
    <3>1. Len(stack') = n + 1 /\ stack'[n + 1] = frame /\ stack' # <<>>
      BY <1>5, <2>1, <2>2, <2>3
    <3> QED BY <1>5, <2>1, <2>3, <3>1 DEF Searching, Top
  <2>5. UNCHANGED <<Places, Visited>> /\ Unseen' = Unseen \ {Callee} /\ Callee \in Unseen
    BY <1>1, <2>1 DEF Places, Visited, Unseen, TypeOK, document
  <2>6. Cardinality(Unseen') \in Nat /\ Cardinality(Unseen') + 1 = Cardinality(Unseen)
    BY <2>5, OneLess DEF Unseen
  <2>7. Nodes' \in Nat /\ Nodes' + 1 = Nodes
    BY <2>5, <2>6, NodesFacts DEF Nodes
  <2>8. Nodes * Places = Nodes' * Places + Places /\ Nodes' * Places \in Nat
    BY <1>2, <2>7, Products
  <2>9. StepsLeft' = Nodes' * Places + (Places - 1) + 1
    BY <2>4, <2>5 DEF StepsLeft, Searching, Nodes
  <2> QED BY <1>2, <1>3, <2>8, <2>9
<1>8. CASE Leave
  <2> DEFINE left == Top.node
  <2>1. /\ UNCHANGED <<document, verdict>> /\ stack' = SubSeq(stack, 1, n - 1)
        /\ mark' = [mark EXCEPT ![left] = "visited"] /\ left # Root
    BY <1>8 DEF Leave
  <2>2. n # 1 /\ left \in listed /\ mark[left] = "visiting"
    BY <1>5, <2>1 DEF SearchInvariant, RankInvariant, StackIsVisiting, Searching
  <2>3. stack' # <<>>
    <3>1. stack \in Seq(Frame)
      BY <1>1 DEF TypeOK, Frame
    <3> DEFINE m == n - 1
    <3>2. m \in Nat /\ m <= Len(stack) /\ stack' = SubSeq(stack, 1, m)
      BY <1>5, <2>1
    <3> HIDE DEF m
    <3>3. Len(stack') = m
      BY <3>1, <3>2
    <3> QED BY <1>5, <2>2, <3>3 DEF m
  <2>4. Searching'
    BY <2>1, <2>3 DEF Searching
  <2>5. Top'.next \in Nat \ {0} /\ Top'.next <= Places'
    <3>1. (SearchInvariant /\ Searching => Top.next \in Nat \ {0} /\ Top.next <= Places)'
      BY TopIsPlaced, PTL
    <3> QED BY <2>4, <3>1
  <2>6. left \in Artifact /\ UNCHANGED <<Places, Unseen>> /\ Visited' = Visited \cup {left}
        /\ left \notin Visited
    BY <1>1, <2>1, <2>2 DEF Places, Visited, Unseen, TypeOK, document
  <2>7. Artifact \ Visited' = (Artifact \ Visited) \ {left} /\ left \in Artifact \ Visited
    BY <2>6
  <2>8. /\ Cardinality(Artifact \ Visited') \in Nat
        /\ Cardinality(Artifact \ Visited') + 1 = Cardinality(Artifact \ Visited)
    BY <2>7, OneLess
  <2>9. Nodes' \in Nat /\ Nodes' + 1 = Nodes
    BY <2>6, <2>7, <2>8, NodesFacts DEF Nodes
  <2>10. Nodes * Places = Nodes' * Places + Places /\ Nodes' * Places \in Nat
    BY <1>2, <2>9, Products
  <2>11. StepsLeft' = Nodes' * Places + (Places - Top'.next) + 1
    BY <2>4, <2>6 DEF StepsLeft, Searching, Nodes
  <2>12. Top'.next \in Nat /\ Top'.next > 0 /\ Top'.next <= Places
    BY <2>5, <2>6
  <2> QED BY <1>2, <1>3, <2>10, <2>11, <2>12
<1> QED BY <1>4, <1>6, <1>7, <1>8

\* The search takes fewer than a number of steps known when it begins, for cyclic
\* documents too: no node is entered twice and no list is begun anew (visit).
THEOREM SearchAdvancesAlways == Spec => SearchAdvances
<1>1. SearchInvariant /\ SearchInvariant' /\ [Next]_vars
        => [StepsLeft' \in Nat /\ StepsLeft' < StepsLeft]_vars
  <2> SUFFICES ASSUME SearchInvariant, SearchInvariant', Next, ~Decided
               PROVE  StepsLeft' \in Nat /\ StepsLeft' < StepsLeft
    BY DEF Decided
  <2>1. ASSUME Refuse \/ SkipVisited \/ Enter \/ Leave \/ Conclude PROVE Searching
    BY <2>1 DEF Refuse, SkipVisited, Enter, Leave, Conclude, Calls
  <2> QED BY <2>1, BeginLowers, SearchLowers DEF Next
<1> QED BY <1>1, SearchAlways, PTL DEF Spec, SearchAdvances

=============================================================================
