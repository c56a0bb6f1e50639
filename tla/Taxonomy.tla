------------------------------- MODULE Taxonomy -------------------------------
(***************************************************************************)
(* The structure of the taxonomy: the nodes, the parent edges and the      *)
(* cluster flags, the two stages of a run that rework it (combine-nodes    *)
(* merges duplicates, connect-nodes places provisional stubs), the reviews *)
(* they open, and the curators who edit nodes and resolve reviews while    *)
(* the stage waits for its LLM (pipeline/stages/combine.py, connect.py,    *)
(* taxonomy/ops.py, curate.py, reviews/*.py).                              *)
(*                                                                         *)
(* A node id is an `integer primary key': the next node takes the largest  *)
(* id in use plus one, so the id of a deleted node is given out again.     *)
(* `node' therefore holds, for each id, which node it is.  A slug          *)
(* identifies a node, an id does not.                                      *)
(*                                                                         *)
(* Each structural write is one transaction, hence one action.  Names,     *)
(* aliases and resolutions are in NameResolution.                          *)
(***************************************************************************)
EXTENDS Naturals

CONSTANTS
    Ids,          \* row ids, 1 .. some n
    Seeds,        \* sets of edges that a taxonomy may start with
    MaxBirths,    \* bound: nodes there are and will ever be
    MaxWrites     \* bound: curators' requests and runs of the two stages

ASSUME IdsOK ==
    /\ Ids \subseteq Nat \ {0}
    /\ Seeds \subseteq SUBSET (Ids \X Ids)
    /\ MaxBirths \in Nat /\ MaxWrites \in Nat

VARIABLES
    node,     \* the node that has each id, 0 when there is no such row
    births,   \* nodes inserted so far
    edges,    \* taxonomy_edges: <<parent id, child id>>
    cluster,  \* the ids with is_cluster_node
    live,     \* the ids with status `live'
    review,   \* the node each open review was opened for, by stage and entity_id
    pc,       \* the stage at work, or "idle"
    asked,    \* <<id, node>> of the members whose answers are still to be applied
    shown,    \* combine: the nodes whose slugs were candidates
    writes

rows  == <<node, births, edges, cluster, live>>
stage == <<pc, asked, shown>>
vars  == <<rows, review, stage, writes>>

Kinds  == {"combine", "connect"}
Exists == {i \in Ids : node[i] # 0}

--------------------------------------------------------------------------------
(* Ancestry.  The recursive queries compute the smallest set that holds the  *)
(* first generation and all its descendants.                                 *)

Closed(E, S)   == \A e \in E : e[1] \in S => e[2] \in S
Children(E, n) == {m \in Ids : <<n, m>> \in E}
Below(E, n)    ==
    LET Holds == {S \in SUBSET Ids : Children(E, n) \subseteq S /\ Closed(E, S)}
    IN  {m \in Ids : \A S \in Holds : m \in S}

Acyclic(E) == \A n \in Ids : n \notin Below(E, n)

\* No cluster node has a cluster node above or below it.
Antichain(E, C) == \A a, b \in C : a # b => b \notin Below(E, a)

--------------------------------------------------------------------------------
(* The writes.                                                               *)

\* `insert into taxonomy_nodes': the row id is one more than the largest.
Insert(i) ==
    /\ births < MaxBirths
    /\ i \in Ids
    /\ \A j \in Exists : j < i
    /\ i - 1 \in Exists \/ i = 1
    /\ node' = [node EXCEPT ![i] = births + 1]
    /\ births' = births + 1

\* `delete from taxonomy_nodes': the edges go with it.
EdgesWithout(g) == {e \in edges : e[1] # g /\ e[2] # g}
Remove(g) ==
    /\ node' = [node EXCEPT ![g] = 0]
    /\ cluster' = cluster \ {g}
    /\ live' = live \ {g}
    /\ UNCHANGED births

\* Mutant: the children of the absorbed node go with its row.
MergeDropsChildren(s, g) ==
    /\ s # g /\ {s, g} \subseteq Exists
    /\ edges' = EdgesWithout(g) \cup {<<p, s>> : p \in {q \in Ids \ {s} : <<q, g>> \in edges}}
    /\ Remove(g)

\* combine_merge: the edges of the absorbed node are repointed at the survivor,
\* self-loops left out; the survivor keeps its own flag and status.
Merge(s, g) ==
    /\ s # g /\ {s, g} \subseteq Exists
    /\ edges' = EdgesWithout(g)
                \cup {<<p, s>> : p \in {q \in Ids \ {s} : <<q, g>> \in edges}}
                \cup {<<s, c>> : c \in {d \in Ids \ {s} : <<g, d>> \in edges}}
    /\ Remove(g)

\* antichain_conflict: a cluster node above or below n.
Conflict(E, n) == \E c \in cluster : n \in Below(E, c) \/ c \in Below(E, n)

\* Mutant: the conflict is looked for before the parents are attached.
PlaceChecksFirst(n, P, flag) ==
    LET E == edges \cup {<<p, n>> : p \in P \ {n}} IN
    /\ n \in Exists /\ P \subseteq Exists
    /\ flag => ~Conflict(edges, n)
    /\ edges' = E
    /\ cluster' = IF flag THEN cluster \cup {n} ELSE cluster \ {n}
    /\ live' = live \cup {n}
    /\ UNCHANGED <<node, births>>

\* connect_place: the parents are attached, a cluster node is checked for conflicts,
\* the node is live.  Anything wrong raises and changes nothing.
Place(n, P, flag) ==
    LET E == edges \cup {<<p, n>> : p \in P \ {n}} IN
    /\ n \in Exists /\ P \subseteq Exists
    /\ flag => ~Conflict(E, n)
    /\ edges' = E
    /\ cluster' = IF flag THEN cluster \cup {n} ELSE cluster \ {n}
    /\ live' = live \cup {n}
    /\ UNCHANGED <<node, births>>

--------------------------------------------------------------------------------
(* The stages.  One executor: at most one of them is at work.               *)

\* The map stage of some run mints a stub.
Mint(i) ==
    /\ pc = "idle"
    /\ Insert(i)
    /\ UNCHANGED <<edges, cluster, live, review, stage, writes>>

\* The stage reads which of its members still have a row, and the nodes that may
\* be candidates; then it asks its provider chain.  connect does so chunk by chunk.
Begin(kind, S) ==
    /\ pc = "idle" /\ writes < MaxWrites
    /\ writes' = writes + 1
    /\ pc' = kind
    /\ asked' = {<<i, node[i]>> : i \in S \cap Exists}
    /\ shown' = IF kind = "combine" THEN {node[i] : i \in Exists} ELSE {}
    /\ UNCHANGED <<rows, review>>

Answered(a) == asked' = asked \ {a} /\ UNCHANGED <<pc, shown, writes>>

\* _park: opens a review, unless one is open for this entity_id.
Park(a) ==
    /\ review' = [review EXCEPT ![pc][a[1]] = IF @ = 0 THEN a[2] ELSE @]
    /\ Answered(a)
    /\ UNCHANGED rows

\* combine: the survivor is looked up by its slug among the candidates.
CombineMerges(a, s) ==
    /\ pc = "combine"
    /\ node[s] \in shown
    /\ Merge(s, a[1])
    /\ Answered(a)
    /\ UNCHANGED review

CombineKeeps(a) ==
    /\ pc = "combine"
    /\ Answered(a)
    /\ UNCHANGED <<rows, review>>

\* connect: the parents are slugs, candidates or not.
ConnectPlaces(a, P, flag) ==
    /\ pc = "connect"
    /\ P # {}
    /\ Place(a[1], P, flag)
    /\ Answered(a)
    /\ UNCHANGED review

\* The stage returns, or is cut short by a failure or a crash.
End ==
    /\ pc # "idle"
    /\ pc' = "idle"
    /\ asked' = {}
    /\ shown' = {}
    /\ UNCHANGED <<rows, review, writes>>

StageStep ==
    \/ \E a \in asked : \/ Park(a) \/ CombineKeeps(a)
                        \/ \E s \in Ids : CombineMerges(a, s)
                        \/ \E P \in SUBSET Exists, flag \in BOOLEAN : ConnectPlaces(a, P, flag)
    \/ End

--------------------------------------------------------------------------------
(* Curators.                                                                *)

Request ==
    /\ writes < MaxWrites
    /\ writes' = writes + 1
    /\ UNCHANGED stage

\* create_node: with one parent or none.
CreateNode(i, P, flag) ==
    /\ Request
    /\ Insert(i)
    /\ P \subseteq Exists /\ \A p, q \in P : p = q
    /\ edges' = edges \cup {<<p, i>> : p \in P}
    /\ cluster' = IF flag THEN cluster \cup {i} ELSE cluster
    /\ live' = live \cup {i}
    /\ UNCHANGED review

\* update_node: the flag or the status is set as asked.
UpdateNode(n) ==
    /\ Request
    /\ n \in Exists
    /\ cluster' \in {cluster \cup {n}, cluster \ {n}}
    /\ live' \in {live \cup {n}, live \ {n}}
    /\ UNCHANGED <<node, births, edges, review>>

\* Mutant: only the node itself is refused as its parent.
SetParentsUnchecked(n, P) ==
    /\ Request
    /\ n \in Exists /\ P \subseteq Exists
    /\ n \notin P
    /\ edges' = {e \in edges : e[2] # n} \cup {<<p, n>> : p \in P}
    /\ UNCHANGED <<node, births, cluster, live, review>>

\* set_parents: refused when a parent is the node or below it.
SetParents(n, P) ==
    /\ Request
    /\ n \in Exists /\ P \subseteq Exists
    /\ n \notin P /\ P \cap Below(edges, n) = {}
    /\ edges' = {e \in edges : e[2] # n} \cup {<<p, n>> : p \in P}
    /\ UNCHANGED <<node, births, cluster, live, review>>

\* delete_node: refused while it has children (or a recipe or a proposal refers to
\* it, which may be or not).
DeleteNode(n) ==
    /\ Request
    /\ n \in Exists /\ Children(edges, n) = {}
    /\ edges' = EdgesWithout(n)
    /\ Remove(n)
    /\ UNCHANGED review

FlagReview(kind, i) ==
    /\ Request
    /\ i \in Exists
    /\ review' = [review EXCEPT ![kind][i] = IF @ = 0 THEN node[i] ELSE @]
    /\ UNCHANGED rows

Close(kind, i) == review' = [review EXCEPT ![kind][i] = 0]

DismissReview(kind, i) ==
    /\ Request
    /\ review[kind][i] # 0
    /\ Close(kind, i)
    /\ UNCHANGED rows

\* resolve_review -> apply_review: what the review is about is its entity_id.
ResolveMerge(i, s) ==
    /\ Request
    /\ review["combine"][i] # 0
    /\ Merge(s, i)
    /\ Close("combine", i)

ResolvePlace(i, P, flag) ==
    /\ Request
    /\ review["connect"][i] # 0
    /\ Place(i, P, flag)
    /\ Close("connect", i)

Edit ==
    \/ \E i \in Ids, P \in SUBSET Exists, flag \in BOOLEAN : CreateNode(i, P, flag)
    \/ \E n \in Ids, P \in SUBSET Exists : SetParents(n, P)
    \/ \E n \in Ids : DeleteNode(n)

CuratorStep ==
    \/ Edit
    \/ \E n \in Ids : UpdateNode(n)
    \/ \E kind \in Kinds, i \in Ids : FlagReview(kind, i) \/ DismissReview(kind, i)
    \/ \E i \in Ids, s \in Ids : ResolveMerge(i, s)
    \/ \E i \in Ids, P \in SUBSET Exists, flag \in BOOLEAN : ResolvePlace(i, P, flag)

Next ==
    \/ \E i \in Ids : Mint(i)
    \/ \E kind \in Kinds, S \in SUBSET Ids : S # {} /\ Begin(kind, S)
    \/ StageStep
    \/ CuratorStep

\* A seeded taxonomy: a DAG with an antichain of cluster nodes.
Init ==
    /\ births \in Ids \cup {0} /\ births <= MaxBirths
    /\ node = [i \in Ids |-> IF i <= births THEN i ELSE 0]
    /\ edges \in Seeds /\ edges \subseteq Exists \X Exists /\ Acyclic(edges)
    /\ cluster \in SUBSET Exists /\ Antichain(edges, cluster)
    /\ live = Exists
    /\ review = [k \in Kinds |-> [i \in Ids |-> 0]]
    /\ pc = "idle" /\ asked = {} /\ shown = {}
    /\ writes = 0

Spec == Init /\ [][Next]_vars

--------------------------------------------------------------------------------
(* Properties.                                                              *)

\* The rows are sound: edges join two different nodes that exist, flags and
\* statuses belong to existing nodes, and no node has two ids.
TypeOK ==
    /\ node \in [Ids -> 0 .. births] /\ births \in 0 .. MaxBirths
    /\ \A i, j \in Exists : node[i] = node[j] => i = j
    /\ edges \subseteq Exists \X Exists /\ \A e \in edges : e[1] # e[2]
    /\ cluster \subseteq Exists /\ live \subseteq Exists
    /\ review \in [Kinds -> [Ids -> 0 .. births]]
    /\ pc \in Kinds \cup {"idle"}
    /\ asked \subseteq Ids \X (1 .. births) /\ shown \subseteq 1 .. births
    /\ writes \in 0 .. MaxWrites

\* Only set_parents takes a node from under another: whatever merges, placements
\* and deletions do, a node that was below another node stays below it as long as
\* both are there (combine_merge repoints both sides of the absorbed node; only a
\* leaf is deleted).
Survivors == {n \in Exists : node'[n] = node[n]}
OnlySetParentsMoves ==
    [][\/ \A n \in Survivors :
             (Below(edges, n) \cap Survivors) \ {n} \subseteq Below(edges', n)
       \/ \E n \in Ids, P \in SUBSET Exists : SetParents(n, P)]_edges

\* The curators' own edits of the edges never make a cycle, whatever the taxonomy
\* looks like: create_node, set_parents and delete_node keep a DAG a DAG.
EditsKeepDag == [][Acyclic(edges) /\ ~Acyclic(edges') => ~Edit]_edges

\* Placing a node as a cluster node, by the stage or by a review, keeps the
\* antichain: the relatives that the new edges bring are looked at, those above
\* the new parents among them.
ClusterPlacementKeepsAntichain ==
    [][Antichain(edges, cluster) /\ ~Antichain(edges', cluster')
       => ~\E n \in Exists, P \in SUBSET Exists : Place(n, P, TRUE)]_<<edges, cluster>>

\* docs/spirits-taxonomy.md: the nodes form a DAG, cycles are prevented.  The code does
\* not keep this: neither connect_place nor combine_merge looks for one.
Dag == Acyclic(edges)

\* reviews/apply.py: the node under review is the one that is absorbed; a wrong id
\* cannot merge the wrong node.  The code does not keep this: the id of a deleted node
\* is given out again while a review names it.
MergesTheNodeUnderReview ==
    [][\A i, s \in Ids : ResolveMerge(i, s) => node[i] = review["combine"][i]]_vars
===============================================================================
