---------------------------- MODULE TaxonomyProofs ----------------------------
(***************************************************************************)
(* Theorems about Taxonomy, for every set of ids, every seeded taxonomy    *)
(* and all the bounds.  What is below a node is the smallest closed set    *)
(* that holds its children, so a claim about ancestry before and after a   *)
(* write is proved by giving, for a closed set of the one graph, a closed  *)
(* set of the other.                                                       *)
(***************************************************************************)
EXTENDS Taxonomy, TLAPS

--------------------------------------------------------------------------------
(* Ancestry.                                                                *)

\* A closed set with the children of n holds all that is below n.
LEMMA BelowLeast ==
    ASSUME NEW E, NEW n, NEW S \in SUBSET Ids, Children(E, n) \subseteq S, Closed(E, S)
    PROVE  Below(E, n) \subseteq S
  BY DEF Below

\* What every such set holds is below n.
LEMMA BelowIntro ==
    ASSUME NEW E, NEW n, NEW m \in Ids,
           \A S \in SUBSET Ids : Children(E, n) \subseteq S /\ Closed(E, S) => m \in S
    PROVE  m \in Below(E, n)
  BY DEF Below

\* The nodes below n are such a set themselves.
LEMMA BelowClosed ==
    ASSUME NEW E \in SUBSET (Ids \X Ids), NEW n
    PROVE  /\ Below(E, n) \in SUBSET Ids
           /\ Children(E, n) \subseteq Below(E, n)
           /\ Closed(E, Below(E, n))
  <1>1. Below(E, n) \in SUBSET Ids
    BY DEF Below
  <1>2. Children(E, n) \subseteq Below(E, n)
    BY DEF Below, Children
  <1>3. ASSUME NEW e \in E, e[1] \in Below(E, n) PROVE e[2] \in Below(E, n)
    <2>1. e[2] \in Ids
      OBVIOUS
    <2>2. ASSUME NEW S \in SUBSET Ids, Children(E, n) \subseteq S, Closed(E, S)
          PROVE  e[2] \in S
      <3>1. e[1] \in S
        BY <1>3, <2>2, BelowLeast
      <3>2. QED
        BY <2>2, <3>1 DEF Closed
    <2>3. QED
      BY <2>1, <2>2, BelowIntro
  <1>4. QED
    BY <1>1, <1>2, <1>3 DEF Closed

\* More edges, more below.
LEMMA BelowMonotone ==
    ASSUME NEW E, NEW F, E \subseteq F, NEW n
    PROVE  Below(E, n) \subseteq Below(F, n)
  <1> SUFFICES ASSUME NEW m \in Below(E, n) PROVE m \in Below(F, n)
    OBVIOUS
  <1>1. m \in Ids
    BY DEF Below
  <1>2. ASSUME NEW S \in SUBSET Ids, Children(F, n) \subseteq S, Closed(F, S)
        PROVE  m \in S
    <2>1. Children(E, n) \subseteq S
      BY <1>2 DEF Children
    <2>2. Closed(E, S)
      BY <1>2 DEF Closed
    <2>3. QED
      BY <2>1, <2>2, BelowLeast
  <1>3. QED
    BY <1>1, <1>2, BelowIntro

--------------------------------------------------------------------------------
(* Types.                                                                   *)

\* The initial state is well typed: a DAG has no self-loop.
LEMMA InitTyped == Init => TypeOK
  <1> SUFFICES ASSUME Init PROVE TypeOK
    OBVIOUS
  <1> USE IdsOK DEF Init
  <1>1. \A e \in edges : e[1] # e[2]
    <2> SUFFICES ASSUME NEW e \in edges, e[1] = e[2] PROVE FALSE
      OBVIOUS
    <2>1. edges \in SUBSET (Ids \X Ids)
      OBVIOUS
    <2>2. e[1] \in Ids /\ e[1] \in Children(edges, e[1])
      BY <2>1 DEF Children
    <2>3. e[1] \in Below(edges, e[1])
      BY <2>1, <2>2, BelowClosed
    <2>4. QED
      BY <2>2, <2>3 DEF Acyclic
  <1>2. births \in Nat /\ MaxBirths \in Nat /\ births \in 0 .. MaxBirths
    OBVIOUS
  <1>3. node \in [Ids -> 0 .. births]
    BY <1>2
  <1>4. \A i, j \in Exists : node[i] = node[j] => i = j
    BY DEF Exists
  <1>5. review \in [Kinds -> [Ids -> 0 .. births]]
    BY <1>2
  <1>6. pc \in Kinds \cup {"idle"} /\ asked \subseteq Ids \X (1 .. births)
        /\ shown \subseteq 1 .. births /\ writes \in 0 .. MaxWrites
    OBVIOUS
  <1>7. QED
    BY <1>1, <1>2, <1>3, <1>4, <1>5, <1>6 DEF TypeOK

\* Insert gives a new node a row of its own.
LEMMA InsertTyped ==
    ASSUME TypeOK, NEW i \in Ids, Insert(i)
    PROVE  /\ node' \in [Ids -> 0 .. births'] /\ births' \in 0 .. MaxBirths
           /\ \A a, b \in Exists' : node'[a] = node'[b] => a = b
           /\ Exists' = Exists \cup {i}
           /\ births' = births + 1 /\ births \in Nat
  <1> USE IdsOK DEF TypeOK, Insert, Exists
  <1>1. births \in Nat /\ MaxBirths \in Nat /\ births' = births + 1 /\ births' \in 0 .. MaxBirths
    OBVIOUS
  <1>2. node' \in [Ids -> 0 .. births']
    BY <1>1
  <1>3. Exists' = Exists \cup {i}
    BY <1>1
  <1>4. ASSUME NEW a \in Exists', NEW b \in Exists', node'[a] = node'[b] PROVE a = b
    BY <1>1, <1>4
  <1>5. QED
    BY <1>1, <1>2, <1>3, <1>4

\* Remove takes a row away.
LEMMA RemoveTyped ==
    ASSUME TypeOK, NEW g \in Ids, Remove(g), edges' \subseteq Exists' \X Exists'
    PROVE  /\ node' \in [Ids -> 0 .. births'] /\ births' \in 0 .. MaxBirths
           /\ \A a, b \in Exists' : node'[a] = node'[b] => a = b
           /\ Exists' = Exists \ {g}
           /\ cluster' \subseteq Exists' /\ live' \subseteq Exists'
  BY IdsOK DEF TypeOK, Remove, Exists

\* What the stage and the reviews remember stays typed when births grows or stays.
LEMMA RestTyped ==
    ASSUME TypeOK, births' \in Nat, births <= births'
    PROVE  /\ review \in [Kinds -> [Ids -> 0 .. births']]
           /\ asked \subseteq Ids \X (1 .. births') /\ shown \subseteq 1 .. births'
  <1> USE IdsOK DEF TypeOK
  <1>1. births \in Nat /\ 0 .. births \subseteq 0 .. births' /\ 1 .. births \subseteq 1 .. births'
    OBVIOUS
  <1>2. [Ids -> 0 .. births] \subseteq [Ids -> 0 .. births']
    BY <1>1
  <1>3. review \in [Kinds -> [Ids -> 0 .. births']]
    BY <1>2
  <1>4. QED
    BY <1>1, <1>3

\* combine_merge leaves sound rows, and absorbs a node that exists.
LEMMA MergeTyped ==
    ASSUME TypeOK, NEW s \in Ids, NEW g \in Ids, Merge(s, g)
    PROVE  /\ node' \in [Ids -> 0 .. births] /\ births' = births
           /\ \A a, b \in Exists' : node'[a] = node'[b] => a = b
           /\ edges' \subseteq Exists' \X Exists' /\ \A e \in edges' : e[1] # e[2]
           /\ cluster' \subseteq Exists' /\ live' \subseteq Exists'
  <1>1. Exists' = Exists \ {g}
    BY DEF TypeOK, Merge, Remove, Exists
  <1>2. ASSUME NEW e \in edges' PROVE e \in Exists' \X Exists' /\ e[1] # e[2]
    <2>1. edges \subseteq Exists \X Exists /\ s # g /\ s \in Exists /\ \A d \in edges : d[1] # d[2]
      BY DEF TypeOK, Merge
    <2>2. CASE e \in EdgesWithout(g)
      BY <1>1, <2>1, <2>2 DEF EdgesWithout
    <2>3. ASSUME NEW p \in Ids \ {s}, <<p, g>> \in edges, e = <<p, s>>
          PROVE  e \in Exists' \X Exists' /\ e[1] # e[2]
      <3>1. p \in Exists /\ p # g
        BY <2>1, <2>3
      <3>2. QED
        BY <1>1, <2>1, <2>3, <3>1
    <2>4. ASSUME NEW c \in Ids \ {s}, <<g, c>> \in edges, e = <<s, c>>
          PROVE  e \in Exists' \X Exists' /\ e[1] # e[2]
      <3>1. c \in Exists /\ c # g
        BY <2>1, <2>4
      <3>2. QED
        BY <1>1, <2>1, <2>4, <3>1
    <2>5. QED
      BY <2>2, <2>3, <2>4 DEF Merge
  <1>3. Remove(g)
    BY DEF Merge
  <1>4. births' = births
    BY <1>3 DEF Remove
  <1>5. QED
    BY <1>2, <1>3, <1>4, RemoveTyped

\* So does connect_place.
LEMMA PlaceTyped ==
    ASSUME TypeOK, NEW n \in Ids, NEW P, NEW flag, Place(n, P, flag)
    PROVE  /\ UNCHANGED <<node, births>> /\ Exists' = Exists
           /\ edges' \subseteq Exists \X Exists /\ \A e \in edges' : e[1] # e[2]
           /\ cluster' \subseteq Exists /\ live' \subseteq Exists
  <1>1. UNCHANGED <<node, births>> /\ Exists' = Exists
    BY DEF Place, Exists
  <1>2. edges' \subseteq Exists \X Exists /\ \A e \in edges' : e[1] # e[2]
    BY DEF TypeOK, Place
  <1>3. cluster' \subseteq Exists /\ live' \subseteq Exists
    BY DEF TypeOK, Place
  <1>4. QED
    BY <1>1, <1>2, <1>3

\* Every step of the stages and the curators keeps the state well typed.
LEMMA TypeStep == TypeOK /\ [Next]_vars => TypeOK'
  <1> SUFFICES ASSUME TypeOK, [Next]_vars PROVE TypeOK'
    OBVIOUS
  <1> USE IdsOK
  <1>0. births \in Nat /\ MaxWrites \in Nat /\ writes \in 0 .. MaxWrites
    BY DEF TypeOK
  <1>a. ASSUME UNCHANGED rows PROVE UNCHANGED <<node, births, edges, cluster, live, Exists>>
    BY <1>a DEF rows, Exists
  <1>b. ASSUME Request PROVE writes' \in 0 .. MaxWrites /\ UNCHANGED <<pc, asked, shown>>
    BY <1>0, <1>b DEF Request, stage
  <1>1. CASE UNCHANGED vars
    BY <1>1 DEF vars, rows, stage, TypeOK, Exists
  <1>2. ASSUME NEW i \in Ids, Mint(i) PROVE TypeOK'
    <2>1. Insert(i) /\ UNCHANGED <<edges, cluster, live, review, pc, asked, shown, writes>>
      BY <1>2 DEF Mint, stage
    <2>2. QED
      BY <2>1, InsertTyped, RestTyped DEF TypeOK
  <1>3. ASSUME NEW kind \in Kinds, NEW S \in SUBSET Ids, Begin(kind, S) PROVE TypeOK'
    <2>1. UNCHANGED <<node, births, edges, cluster, live, review, Exists>>
      BY <1>3, <1>a DEF Begin
    <2>2. asked' \subseteq Ids \X (1 .. births)
      BY <1>0, <1>3 DEF Begin, TypeOK, Exists
    <2>3. shown' \subseteq 1 .. births
      BY <1>0, <1>3 DEF Begin, TypeOK, Exists
    <2>4. pc' \in Kinds \cup {"idle"} /\ writes' \in 0 .. MaxWrites
      BY <1>0, <1>3 DEF Begin
    <2>5. QED
      BY <2>1, <2>2, <2>3, <2>4 DEF TypeOK
  <1>4. ASSUME NEW a \in asked, Park(a) PROVE TypeOK'
    <2>1. UNCHANGED <<node, births, edges, cluster, live, Exists, pc, shown, writes>>
          /\ asked' = asked \ {a}
      BY <1>4, <1>a DEF Park, Answered
    <2>2. a[1] \in Ids /\ a[2] \in 0 .. births
      BY <1>0 DEF TypeOK
    <2>3. review' \in [Kinds -> [Ids -> 0 .. births]]
      BY <1>4, <2>2 DEF Park, TypeOK
    <2>4. QED
      BY <2>1, <2>3 DEF TypeOK
  <1>5. ASSUME NEW a \in asked, CombineKeeps(a) PROVE TypeOK'
    BY <1>5, <1>a DEF CombineKeeps, Answered, TypeOK
  <1>6. ASSUME NEW a \in asked, NEW s \in Ids, CombineMerges(a, s) PROVE TypeOK'
    <2>1. a[1] \in Ids /\ Merge(s, a[1]) /\ asked' = asked \ {a} /\ UNCHANGED <<review, pc, shown, writes>>
      BY <1>6 DEF CombineMerges, Answered, TypeOK
    <2>2. QED
      BY <2>1, MergeTyped DEF TypeOK
  <1>7. ASSUME NEW a \in asked, NEW P, NEW flag, ConnectPlaces(a, P, flag) PROVE TypeOK'
    <2>1. a[1] \in Ids /\ Place(a[1], P, flag) /\ asked' = asked \ {a}
          /\ UNCHANGED <<review, pc, shown, writes>>
      BY <1>7 DEF ConnectPlaces, Answered, TypeOK
    <2>2. QED
      BY <2>1, PlaceTyped DEF TypeOK
  <1>8. CASE End
    BY <1>8, <1>a DEF End, TypeOK
  <1>9. ASSUME NEW i \in Ids, NEW P, NEW flag, CreateNode(i, P, flag) PROVE TypeOK'
    <2>1. Insert(i) /\ Request /\ UNCHANGED review
      BY <1>9 DEF CreateNode
    <2>2. i \notin Exists
      BY <2>1 DEF Insert
    <2>3. edges' \subseteq Exists' \X Exists' /\ \A e \in edges' : e[1] # e[2]
      BY <1>9, <2>1, <2>2, InsertTyped DEF CreateNode, TypeOK
    <2>4. cluster' \subseteq Exists' /\ live' \subseteq Exists'
      BY <1>9, <2>1, InsertTyped DEF CreateNode, TypeOK
    <2>5. /\ node' \in [Ids -> 0 .. births'] /\ births' \in 0 .. MaxBirths
          /\ \A a, b \in Exists' : node'[a] = node'[b] => a = b
          /\ births' \in Nat /\ births <= births'
      BY <1>0, <2>1, InsertTyped
    <2>6. /\ review' \in [Kinds -> [Ids -> 0 .. births']] /\ pc' \in Kinds \cup {"idle"}
          /\ asked' \subseteq Ids \X (1 .. births') /\ shown' \subseteq 1 .. births'
      BY <1>b, <2>1, <2>5, RestTyped DEF TypeOK
    <2>7. QED
      BY <1>b, <2>1, <2>3, <2>4, <2>5, <2>6 DEF TypeOK
  <1>10. ASSUME NEW n \in Ids, UpdateNode(n) PROVE TypeOK'
    <2>1. Exists' = Exists /\ cluster' \subseteq Exists /\ live' \subseteq Exists
      BY <1>10 DEF UpdateNode, Exists, TypeOK
    <2>2. QED
      BY <1>10, <1>b, <2>1 DEF UpdateNode, TypeOK
  <1>11. ASSUME NEW n \in Ids, NEW P, SetParents(n, P) PROVE TypeOK'
    <2>1. Exists' = Exists /\ edges' \subseteq Exists \X Exists /\ \A e \in edges' : e[1] # e[2]
      BY <1>11 DEF SetParents, Exists, TypeOK
    <2>2. QED
      BY <1>11, <1>b, <2>1 DEF SetParents, TypeOK
  <1>12. ASSUME NEW n \in Ids, DeleteNode(n) PROVE TypeOK'
    <2>1. Remove(n) /\ Request /\ UNCHANGED review /\ edges' = EdgesWithout(n)
      BY <1>12 DEF DeleteNode
    <2>2. Exists' = Exists \ {n}
      BY <2>1 DEF Remove, Exists, TypeOK
    <2>3. edges' \subseteq Exists' \X Exists' /\ \A e \in edges' : e[1] # e[2]
      BY <2>1, <2>2 DEF EdgesWithout, TypeOK
    <2>4. births' = births
      BY <2>1 DEF Remove
    <2>5. QED
      BY <1>b, <2>1, <2>3, <2>4, RemoveTyped DEF TypeOK
  <1>13. ASSUME NEW kind \in Kinds, NEW i \in Ids, FlagReview(kind, i) PROVE TypeOK'
    <2>1. review' \in [Kinds -> [Ids -> 0 .. births]]
      BY <1>0, <1>13 DEF FlagReview, TypeOK
    <2>2. QED
      BY <1>13, <1>a, <1>b, <2>1 DEF FlagReview, TypeOK
  <1>c. ASSUME NEW kind \in Kinds, NEW i \in Ids, Close(kind, i)
        PROVE  review' \in [Kinds -> [Ids -> 0 .. births]]
    BY <1>0, <1>c DEF Close, TypeOK
  <1>14. ASSUME NEW kind \in Kinds, NEW i \in Ids, DismissReview(kind, i) PROVE TypeOK'
    BY <1>14, <1>a, <1>b, <1>c DEF DismissReview, TypeOK
  <1>15. ASSUME NEW i \in Ids, NEW s \in Ids, ResolveMerge(i, s) PROVE TypeOK'
    BY <1>15, <1>b, <1>c, MergeTyped DEF ResolveMerge, TypeOK, Kinds
  <1>16. ASSUME NEW i \in Ids, NEW P, NEW flag, ResolvePlace(i, P, flag) PROVE TypeOK'
    BY <1>16, <1>b, <1>c, PlaceTyped DEF ResolvePlace, TypeOK, Kinds
  <1>17. QED
    BY <1>1, <1>2, <1>3, <1>4, <1>5, <1>6, <1>7, <1>8, <1>9, <1>10, <1>11, <1>12, <1>13, <1>14,
       <1>15, <1>16 DEF Next, StageStep, CuratorStep, Edit

\* In every reachable state the rows are sound: no edge hangs, none is a loop, no
\* node has two ids.
THEOREM TypeCorrect == Spec => []TypeOK
  <1>1. QED
    BY InitTyped, TypeStep, PTL DEF Spec

--------------------------------------------------------------------------------
(* What the writes do to ancestry.                                          *)

\* Merging g into s maps every edge to an edge, but for those that would become
\* loops: a node below another before is below it after.
LEMMA MergeKeepsBelow ==
    ASSUME TypeOK, NEW s \in Ids, NEW g \in Ids, Merge(s, g),
           NEW n \in Ids \ {g}, NEW m \in Ids \ {g}, n # m, m \in Below(edges, n)
    PROVE  m \in Below(edges', n)
  <1> DEFINE to(x) == IF x = g THEN s ELSE x
  <1>1. edges \subseteq Ids \X Ids /\ s # g /\ \A e \in edges : e[1] # e[2]
    BY DEF TypeOK, Exists, Merge
  <1>2. ASSUME NEW x, NEW y, <<x, y>> \in edges PROVE <<to(x), to(y)>> \in edges' \/ to(x) = to(y)
    <2>1. x \in Ids /\ y \in Ids /\ x # y
      BY <1>1, <1>2
    <2>2. CASE x # g /\ y # g
      BY <1>2, <2>2 DEF Merge, EdgesWithout
    <2>3. CASE x = g
      BY <1>1, <1>2, <2>1, <2>3 DEF Merge
    <2>4. CASE y = g
      BY <1>1, <1>2, <2>1, <2>4 DEF Merge
    <2>5. QED
      BY <2>2, <2>3, <2>4
  <1>3. ASSUME NEW S \in SUBSET Ids, Children(edges', n) \subseteq S, Closed(edges', S)
        PROVE  m \in S
    <2> DEFINE T == {x \in Ids : to(x) \in S \cup {n}}
    <2>1. ASSUME NEW x \in T, NEW y, <<x, y>> \in edges PROVE y \in T
      <3>1. y \in Ids
        BY <1>1, <2>1
      <3>2. CASE to(x) = to(y)
        BY <2>1, <3>1, <3>2
      <3>3. CASE <<to(x), to(y)>> \in edges' /\ to(x) = n
        <4>1. to(y) \in Ids
          BY <3>1
        <4>2. to(y) \in Children(edges', n)
          BY <3>3, <4>1 DEF Children
        <4>3. QED
          BY <1>3, <3>1, <4>2
      <3>4. CASE <<to(x), to(y)>> \in edges' /\ to(x) \in S
        <4>1. to(y) \in S
          BY <1>3, <3>4 DEF Closed
        <4>2. QED
          BY <3>1, <4>1
      <3>5. QED
        BY <1>2, <2>1, <3>2, <3>3, <3>4
    <2>2. n \in T
      OBVIOUS
    <2>3. Children(edges, n) \subseteq T
      BY <2>1, <2>2 DEF Children
    <2>4. Closed(edges, T)
      <3>1. ASSUME NEW e \in edges, e[1] \in T PROVE e[2] \in T
        <4>1. e = <<e[1], e[2]>>
          BY <1>1
        <4>2. QED
          BY <2>1, <3>1, <4>1
      <3>2. QED
        BY <3>1 DEF Closed
    <2>5. m \in T
      BY <2>3, <2>4, BelowLeast
    <2>6. QED
      BY <2>5
  <1>4. QED
    BY <1>3, BelowIntro

\* A deleted node has no children: nothing was below another through it.
LEMMA DeleteKeepsBelow ==
    ASSUME TypeOK, NEW g \in Ids, DeleteNode(g),
           NEW n \in Ids \ {g}, NEW m \in Ids \ {g}, m \in Below(edges, n)
    PROVE  m \in Below(edges', n)
  <1>1. edges \subseteq Ids \X Ids /\ Children(edges, g) = {} /\ edges' = EdgesWithout(g)
    BY DEF TypeOK, Exists, DeleteNode
  <1>2. ASSUME NEW e \in edges PROVE e[1] # g /\ (e[2] = g \/ e \in edges')
    <2>1. e = <<e[1], e[2]>> /\ e[2] \in Ids
      BY <1>1
    <2>2. e[1] # g
      BY <1>1, <2>1 DEF Children
    <2>3. QED
      BY <1>1, <2>2 DEF EdgesWithout
  <1>3. ASSUME NEW S \in SUBSET Ids, Children(edges', n) \subseteq S, Closed(edges', S)
        PROVE  m \in S
    <2>1. Children(edges, n) \subseteq S \cup {g}
      BY <1>2, <1>3 DEF Children
    <2>2. Closed(edges, S \cup {g})
      BY <1>2, <1>3 DEF Closed
    <2>3. m \in S \cup {g}
      BY <2>1, <2>2, BelowLeast
    <2>4. QED
      BY <2>3
  <1>4. QED
    BY <1>3, BelowIntro

\* Nothing but set_parents takes a surviving node from under another.
THEOREM Moves == Spec => OnlySetParentsMoves
  <1>1. ASSUME TypeOK, [Next]_vars, edges' # edges,
               ~\E n \in Ids, P \in SUBSET Exists : SetParents(n, P),
               NEW n \in Survivors, NEW m \in (Below(edges, n) \cap Survivors) \ {n}
        PROVE  m \in Below(edges', n)
    <2>1. n \in Ids /\ m \in Ids /\ n # m /\ m \in Below(edges, n)
          /\ node'[n] # 0 /\ node'[m] # 0
      BY <1>1 DEF Survivors, Exists
    <2>2. ASSUME edges \subseteq edges' PROVE m \in Below(edges', n)
      BY <2>1, <2>2, BelowMonotone
    <2>3. ASSUME NEW s \in Ids, NEW g \in Ids, Merge(s, g) PROVE m \in Below(edges', n)
      <3>1. node'[g] = 0
        BY <1>1, <2>3 DEF Merge, Remove, TypeOK
      <3>2. n # g /\ m # g
        BY <2>1, <3>1
      <3>3. QED
        BY <1>1, <2>1, <2>3, <3>2, MergeKeepsBelow
    <2>4. ASSUME NEW a \in Ids, NEW P, NEW flag, Place(a, P, flag) PROVE m \in Below(edges', n)
      BY <2>2, <2>4 DEF Place
    <2>5. ASSUME NEW g \in Ids, DeleteNode(g) PROVE m \in Below(edges', n)
      <3>1. node'[g] = 0
        BY <1>1, <2>5 DEF DeleteNode, Remove, TypeOK
      <3>2. n # g /\ m # g
        BY <2>1, <3>1
      <3>3. QED
        BY <1>1, <2>1, <2>5, <3>2, DeleteKeepsBelow
    <2>6. ASSUME NEW i, NEW P, NEW flag, CreateNode(i, P, flag) PROVE m \in Below(edges', n)
      BY <2>2, <2>6 DEF CreateNode
    <2>7. \A a \in asked : a[1] \in Ids
      BY <1>1 DEF TypeOK
    <2>8. ASSUME StageStep PROVE m \in Below(edges', n)
      BY <1>1, <2>3, <2>4, <2>7, <2>8
         DEF StageStep, Park, CombineKeeps, CombineMerges, ConnectPlaces, End, rows
    <2>9. ASSUME CuratorStep PROVE m \in Below(edges', n)
      BY <1>1, <2>3, <2>4, <2>5, <2>6, <2>9
         DEF CuratorStep, Edit, UpdateNode, FlagReview, DismissReview, ResolveMerge, ResolvePlace, rows
    <2>10. QED
      BY <1>1, <2>8, <2>9 DEF Next, Mint, Begin, vars, rows
  <1>2. TypeOK /\ [Next]_vars
        => [(\A n \in Survivors : (Below(edges, n) \cap Survivors) \ {n} \subseteq Below(edges', n))
            \/ \E n \in Ids, P \in SUBSET Exists : SetParents(n, P)]_edges
    BY <1>1
  <1>3. QED
    BY <1>2, TypeCorrect, PTL DEF Spec, OnlySetParentsMoves

--------------------------------------------------------------------------------
(* Cycles.                                                                  *)

\* A node without a row is in no cycle, and closes none when it gets its parent.
LEMMA CreateKeepsDag ==
    ASSUME TypeOK, NEW i \in Ids, NEW P, NEW flag, CreateNode(i, P, flag), Acyclic(edges)
    PROVE  Acyclic(edges')
  <1>1. /\ edges \subseteq Exists \X Exists /\ Exists \subseteq Ids
        /\ i \notin Exists /\ P \subseteq Exists
        /\ edges' = edges \cup {<<p, i>> : p \in P}
    <2>1. i \notin Exists /\ P \subseteq Exists /\ edges' = edges \cup {<<p, i>> : p \in P}
      BY IdsOK DEF CreateNode, Insert
    <2>2. QED
      BY <2>1 DEF TypeOK, Exists
  <1>2. \A e \in edges' : e[1] # i /\ (e \in edges \/ e[2] = i)
    BY <1>1
  <1>3. ASSUME NEW n \in Ids, n \in Below(edges', n) PROVE FALSE
    <2>1. CASE n = i
      <3>1. Children(edges', i) = {}
        BY <1>2 DEF Children
      <3>2. Below(edges', i) \subseteq {}
        BY <3>1, BelowLeast DEF Closed
      <3>3. QED
        BY <1>3, <2>1, <3>2
    <2>2. CASE n # i
      <3>1. ASSUME NEW S \in SUBSET Ids, Children(edges, n) \subseteq S, Closed(edges, S)
            PROVE  n \in S
        <4>1. Children(edges', n) \subseteq S \cup {i}
          BY <1>2, <3>1 DEF Children
        <4>2. Closed(edges', S \cup {i})
          BY <1>2, <3>1 DEF Closed
        <4>3. n \in S \cup {i}
          BY <1>3, <4>1, <4>2, BelowLeast
        <4>4. QED
          BY <2>2, <4>3
      <3>2. n \in Below(edges, n)
        BY <3>1, BelowIntro
      <3>3. QED
        BY <3>2 DEF Acyclic
    <2>3. QED
      BY <2>1, <2>2
  <1>4. QED
    BY <1>3 DEF Acyclic

\* A node put under parents that are neither it nor below it is in no cycle, nor is
\* any other: what was below it stays below it and gets no new child.
LEMMA SetParentsKeepsDag ==
    ASSUME TypeOK, NEW n \in Ids, NEW P, SetParents(n, P), Acyclic(edges)
    PROVE  Acyclic(edges')
  <1> DEFINE D == Below(edges, n)
  <1>1. edges \in SUBSET (Ids \X Ids) /\ n \notin P /\ P \cap D = {}
    BY DEF TypeOK, Exists, SetParents
  <1>2. D \in SUBSET Ids /\ Children(edges, n) \subseteq D /\ Closed(edges, D)
    BY <1>1, BelowClosed
  <1> HIDE DEF D
  <1>3. \A e \in edges' : (e \in edges /\ e[2] # n) \/ (e[1] \in P /\ e[2] = n)
    BY DEF SetParents
  <1>4. \A e \in edges : e[1] = n => e[2] \in D
    BY <1>1, <1>2 DEF Children
  <1>5. ASSUME NEW x \in Ids, x \in Below(edges', x) PROVE FALSE
    <2>1. CASE x \in D \cup {n}
      <3>1. ASSUME NEW S \in SUBSET Ids, Children(edges, x) \subseteq S, Closed(edges, S)
            PROVE  x \in S
        <4>1. ASSUME NEW c \in Children(edges', x) PROVE c \in S \cap D
          <5>1. c \in Ids /\ <<x, c>> \in edges'
            BY <4>1 DEF Children
          <5>2. x \notin P
            BY <1>1, <2>1
          <5>3. <<x, c>> \in edges
            BY <1>3, <5>1, <5>2
          <5>4. c \in S
            BY <3>1, <5>1, <5>3 DEF Children
          <5>5. c \in D
            BY <1>2, <1>4, <2>1, <5>3 DEF Closed
          <5>6. QED
            BY <5>4, <5>5
        <4>2. Closed(edges', S \cap D)
          BY <1>1, <1>2, <1>3, <3>1 DEF Closed
        <4>3. QED
          BY <1>5, <4>1, <4>2, BelowLeast
      <3>2. x \in Below(edges, x)
        BY <3>1, BelowIntro
      <3>3. QED
        BY <3>2 DEF Acyclic
    <2>2. CASE x \notin D \cup {n}
      <3>1. ASSUME NEW S \in SUBSET Ids, Children(edges, x) \subseteq S, Closed(edges, S)
            PROVE  x \in S
        <4>1. Children(edges', x) \subseteq S \cup D \cup {n}
          BY <1>3, <3>1 DEF Children
        <4>2. Closed(edges', S \cup D \cup {n})
          BY <1>2, <1>3, <1>4, <3>1 DEF Closed
        <4>3. S \cup D \cup {n} \in SUBSET Ids
          BY <1>2
        <4>4. x \in S \cup D \cup {n}
          BY <1>5, <4>1, <4>2, <4>3, BelowLeast
        <4>5. QED
          BY <2>2, <4>4
      <3>2. x \in Below(edges, x)
        BY <3>1, BelowIntro
      <3>3. QED
        BY <3>2 DEF Acyclic
    <2>3. QED
      BY <2>1, <2>2
  <1>6. QED
    BY <1>5 DEF Acyclic

\* The curators' edits of the edges keep a DAG a DAG.
THEOREM NoCycleByEdits == Spec => EditsKeepDag
  <1>1. ASSUME TypeOK, Edit, Acyclic(edges) PROVE Acyclic(edges')
    <2>1. ASSUME NEW i \in Ids, NEW P, NEW flag, CreateNode(i, P, flag) PROVE Acyclic(edges')
      BY <1>1, <2>1, CreateKeepsDag
    <2>2. ASSUME NEW n \in Ids, NEW P, SetParents(n, P) PROVE Acyclic(edges')
      BY <1>1, <2>2, SetParentsKeepsDag
    <2>3. ASSUME NEW n \in Ids, DeleteNode(n) PROVE Acyclic(edges')
      <3>1. edges' \subseteq edges
        BY <2>3 DEF DeleteNode, EdgesWithout
      <3>2. QED
        BY <1>1, <3>1, BelowMonotone DEF Acyclic
    <2>4. CASE \E i \in Ids, P \in SUBSET Exists, flag \in BOOLEAN : CreateNode(i, P, flag)
      BY <2>1, <2>4
    <2>5. QED
      BY <1>1, <2>2, <2>3, <2>4 DEF Edit
  <1>2. TypeOK /\ [Next]_vars => [Acyclic(edges) /\ ~Acyclic(edges') => ~Edit]_edges
    BY <1>1
  <1>3. QED
    BY <1>2, TypeCorrect, PTL DEF Spec, EditsKeepDag

--------------------------------------------------------------------------------
(* The antichain.                                                           *)

\* New edges into n put no cluster node below another unless they put one above n:
\* what is below a node that is not above n was there before.
LEMMA PlaceKeepsAntichain ==
    ASSUME TypeOK, NEW n \in Ids, NEW P, Place(n, P, TRUE), Antichain(edges, cluster)
    PROVE  Antichain(edges', cluster')
  <1>1. /\ edges \subseteq edges' /\ \A e \in edges' : e \in edges \/ e[2] = n
        /\ cluster' = cluster \cup {n}
        /\ ~Conflict(edges', n)
    BY DEF Place
  <1>2. edges' \in SUBSET (Ids \X Ids)
    BY PlaceTyped DEF Exists
  <1>3. ASSUME NEW a \in cluster', NEW b \in cluster', a # b, b \in Below(edges', a)
        PROVE  FALSE
    <2>1. a = n => b \in cluster
      BY <1>1, <1>3
    <2>2. a # n /\ b # n /\ a \in cluster /\ b \in cluster
      BY <1>1, <1>3, <2>1 DEF Conflict
    <2> DEFINE T == Below(edges', a)
    <2>3. T \in SUBSET Ids /\ Children(edges', a) \subseteq T /\ Closed(edges', T) /\ n \notin T
      BY <1>1, <1>2, <2>2, BelowClosed DEF Conflict
    <2>4. b \in T /\ b \in Ids
      BY <1>3, <2>3
    <2> HIDE DEF T
    <2>5. ASSUME NEW S \in SUBSET Ids, Children(edges, a) \subseteq S, Closed(edges, S)
          PROVE  b \in S
      <3>1. Children(edges', a) \subseteq S \cap T
        BY <1>1, <2>3, <2>5 DEF Children
      <3>2. Closed(edges', S \cap T)
        BY <1>1, <2>3, <2>5 DEF Closed
      <3>3. QED
        BY <1>3, <3>1, <3>2, BelowLeast
    <2>6. b \in Below(edges, a)
      BY <2>4, <2>5, BelowIntro
    <2>7. QED
      BY <1>3, <2>2, <2>6 DEF Antichain
  <1>4. QED
    BY <1>3 DEF Antichain

\* Placing a cluster node keeps the antichain, whoever places it.
THEOREM PlacementKeepsAntichain == Spec => ClusterPlacementKeepsAntichain
  <1>1. TypeOK /\ [Next]_vars
        => [Antichain(edges, cluster) /\ ~Antichain(edges', cluster')
            => ~\E n \in Exists, P \in SUBSET Exists : Place(n, P, TRUE)]_<<edges, cluster>>
    BY PlaceKeepsAntichain DEF Exists
  <1>2. QED
    BY <1>1, TypeCorrect, PTL DEF Spec, ClusterPlacementKeepsAntichain
===============================================================================
