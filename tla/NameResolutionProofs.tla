------------------------- MODULE NameResolutionProofs -------------------------
(***************************************************************************)
(* Theorems about NameResolution, for every set of names and nodes, every  *)
(* slugify and similarity, and all the bounds: the fixes of the curators   *)
(* stand when a chunk is recorded, a resolved name is resolved once, the   *)
(* stage only ever mints, and without a cut every name lands.  The         *)
(* argument is the invariant IInv of NameResolutionInv; each action gets   *)
(* a step of its own.                                                      *)
(***************************************************************************)
EXTENDS NameResolutionInv, TLAPS

\* A tier that finds a node finds one of the taxonomy.
LEMMA TierTyped ==
    ASSUME known \in [Names -> Nodes \cup {NoNode}], NEW n \in Names
    PROVE  Tier(n) \in Nodes \cup {NoNode}
  <1>1. Lexical(n) \in Nodes \cup {NoNode}
    BY DEF Lexical
  <1>2. QED
    BY <1>1 DEF Tier

\* The initial state satisfies the invariant.
LEMMA InitHolds == Init => IInv
  <1> SUFFICES ASSUME Init PROVE IInv
    OBVIOUS
  <1> USE NamesOK DEF Init
  <1>1. TypeOK
    BY DEF TypeOK, None, Nobody
  <1>2. WorkInv
    BY DEF WorkInv, AtHand
  <1>3. PinInv
    BY DEF PinInv
  <1>4. LandInv
    BY DEF LandInv, Unfinished
  <1>5. NodeInv
    BY DEF NodeInv, Stamped, None
  <1>6. QED
    BY <1>1, <1>2, <1>3, <1>4, <1>5 DEF IInv

\* Every step keeps the values of the variables in their types.
LEMMA TypeStep == TypeOK /\ WorkInv /\ [Next]_vars => TypeOK'
  <1> SUFFICES ASSUME TypeOK, WorkInv, [Next]_vars PROVE TypeOK'
    OBVIOUS
  <1> USE NamesOK DEF TypeOK, nodeVars, rowVars, passVars, bounds
  <1>1. CASE UNCHANGED vars
    BY <1>1 DEF vars
  <1>2. ASSUME NEW S \in SUBSET Names, QueueRun(S) PROVE TypeOK'
    BY <1>2 DEF QueueRun
  <1>3. ASSUME NEW f \in [Names -> Nodes \cup {NoNode}], BeginStage(f) PROVE TypeOK'
    BY <1>3 DEF BeginStage, Exists
  <1>4. CASE ReadPending
    BY <1>4 DEF ReadPending, At
  <1>5. CASE WriteHand
    BY <1>5 DEF WriteHand, Write
  <1>6. CASE AskChain
    <2>1. shown' \in [Names -> SUBSET Nodes]
      BY <1>6 DEF AskChain, Live
    <2>2. QED
      BY <1>6, <2>1 DEF AskChain, At
  <1>7. CASE ReadUnresolved
    BY <1>7 DEF ReadUnresolved, At
  <1>8. CASE ReadPins
    BY <1>8 DEF ReadPins, At
  <1>9. CASE Record
    BY <1>9 DEF Record, EndPass, None, Nobody
  <1>10. ASSUME NEW n \in todo, Resolve(n) PROVE TypeOK'
    <2>1. Tier(n) \in Nodes \cup {NoNode}
      BY TierTyped
    <2>2. QED
      BY <1>10, <2>1 DEF Resolve
  <1>11. ASSUME NEW n \in todo, Mint(n) PROVE TypeOK'
    BY <1>11 DEF Mint, Exists
  <1>12. ASSUME NEW n \in todo, Abstain(n) PROVE TypeOK'
    BY <1>12 DEF Abstain, Write
  <1>13. ASSUME NEW n \in todo, ApplyPin(n) PROVE TypeOK'
    BY <1>13 DEF ApplyPin
  <1>14. ASSUME NEW n \in todo, NEW m \in Nodes \cup {NoNode}, ApplyAnswer(n, m) PROVE TypeOK'
    BY <1>14 DEF ApplyAnswer, Write
  <1>15. CASE StageFails
    BY <1>15 DEF StageFails, EndPass, None, Nobody
  <1>16. ASSUME NEW bumped \in BOOLEAN, Restart(bumped) PROVE TypeOK'
    BY <1>16 DEF Restart, EndPass, None, Nobody
  <1>17. ASSUME NEW n \in Names, NEW m \in Nodes, ResolveReview(n, m) PROVE TypeOK'
    BY <1>17 DEF ResolveReview, Curates
  <1>18. ASSUME NEW m \in Nodes, NEW k \in Nodes, Merge(m, k) PROVE TypeOK'
    <2>1. aliases' \in [Names -> SUBSET Nodes]
      BY <1>18 DEF Merge
    <2>2. slug' \in [Names -> Nodes \cup {NoNode}]
      BY <1>18 DEF Merge
    <2>3. QED
      BY <1>18, <2>1, <2>2 DEF Merge, Curates
  <1>19. ASSUME NEW m \in Nodes, DeleteNode(m) PROVE TypeOK'
    <2>1. aliases' \in [Names -> SUBSET Nodes]
      BY <1>19 DEF DeleteNode
    <2>2. QED
      BY <1>19, <2>1 DEF DeleteNode, Curates
  <1>20. ASSUME NEW m \in Nodes, Promote(m) PROVE TypeOK'
    BY <1>20 DEF Promote, Curates
  <1>21. ASSUME NEW m \in Nodes, NEW S \in SUBSET Names, CreateNode(m, S) PROVE TypeOK'
    <2>1. aliases' \in [Names -> SUBSET Nodes]
      BY <1>21 DEF CreateNode
    <2>2. QED
      BY <1>21, <2>1 DEF CreateNode, Curates
  <1>22. QED
    BY <1>1, <1>2, <1>3, <1>4, <1>5, <1>6, <1>7, <1>8, <1>9, <1>10, <1>11, <1>12, <1>13,
       <1>14, <1>15, <1>16, <1>17, <1>18, <1>19, <1>20, <1>21
       DEF Next, StageStep, CuratorStep

\* The names at hand are never settled ones, and each is at hand once.
LEMMA WorkStep ==
    TypeOK /\ WorkInv /\ [Next]_vars => WorkInv'
  <1> SUFFICES ASSUME TypeOK, WorkInv, [Next]_vars PROVE WorkInv'
    OBVIOUS
  <1> USE NamesOK DEF TypeOK, WorkInv, AtHand, Settled, nodeVars, rowVars, passVars, bounds
  <1>1. CASE UNCHANGED vars
    BY <1>1 DEF vars
  <1>2. ASSUME NEW S \in SUBSET Names, QueueRun(S) PROVE WorkInv'
    BY <1>2 DEF QueueRun
  <1>3. ASSUME NEW f \in [Names -> Nodes \cup {NoNode}], BeginStage(f) PROVE WorkInv'
    BY <1>3 DEF BeginStage
  <1>4. CASE ReadPending
    BY <1>4 DEF ReadPending, At
  <1>5. CASE WriteHand
    BY <1>5 DEF WriteHand, Write
  <1>6. CASE AskChain
    BY <1>6 DEF AskChain, At
  <1>7. CASE ReadUnresolved
    BY <1>7 DEF ReadUnresolved, At, Resolved
  <1>8. CASE ReadPins
    BY <1>8 DEF ReadPins, At
  <1>9. CASE Record
    BY <1>9 DEF Record, At, EndPass
  <1>10. ASSUME NEW n \in todo, Resolve(n) PROVE WorkInv'
    BY <1>10 DEF Resolve, At
  <1>11. ASSUME NEW n \in todo, Mint(n) PROVE WorkInv'
    BY <1>11 DEF Mint, At
  <1>12. ASSUME NEW n \in todo, Abstain(n) PROVE WorkInv'
    BY <1>12 DEF Abstain, At, Write
  <1>13. ASSUME NEW n \in todo, ApplyPin(n) PROVE WorkInv'
    BY <1>13 DEF ApplyPin, At
  <1>14. ASSUME NEW n \in todo, NEW m \in Nodes \cup {NoNode}, ApplyAnswer(n, m) PROVE WorkInv'
    BY <1>14 DEF ApplyAnswer, At, Write
  <1>15. CASE StageFails
    BY <1>15 DEF StageFails, EndPass
  <1>16. ASSUME NEW bumped \in BOOLEAN, Restart(bumped) PROVE WorkInv'
    BY <1>16 DEF Restart, EndPass
  <1>17. ASSUME NEW n \in Names, NEW m \in Nodes, ResolveReview(n, m) PROVE WorkInv'
    BY <1>17 DEF ResolveReview, Curates
  <1>18. ASSUME NEW m \in Nodes, NEW k \in Nodes, Merge(m, k) PROVE WorkInv'
    BY <1>18 DEF Merge, Curates
  <1>19. ASSUME NEW m \in Nodes, DeleteNode(m) PROVE WorkInv'
    BY <1>19 DEF DeleteNode, Curates
  <1>20. ASSUME NEW m \in Nodes, Promote(m) PROVE WorkInv'
    BY <1>20 DEF Promote, Curates
  <1>21. ASSUME NEW m \in Nodes, NEW S \in SUBSET Names, CreateNode(m, S) PROVE WorkInv'
    BY <1>21 DEF CreateNode, Curates
  <1>22. QED
    BY <1>1, <1>2, <1>3, <1>4, <1>5, <1>6, <1>7, <1>8, <1>9, <1>10, <1>11, <1>12,
       <1>13, <1>14, <1>15, <1>16, <1>17, <1>18, <1>19, <1>20, <1>21
       DEF Next, StageStep, CuratorStep

\* Behind the pin pass the fixes stand.
LEMMA PinStep ==
    TypeOK /\ WorkInv /\ PinInv /\ [Next]_vars => PinInv'
  <1> SUFFICES ASSUME TypeOK, WorkInv, PinInv, [Next]_vars PROVE PinInv'
    OBVIOUS
  <1> USE NamesOK DEF TypeOK, WorkInv, PinInv, nodeVars, rowVars, passVars, bounds
  <1>1. CASE UNCHANGED vars
    BY <1>1 DEF vars
  <1>2. ASSUME NEW S \in SUBSET Names, QueueRun(S) PROVE PinInv'
    BY <1>2 DEF QueueRun
  <1>3. ASSUME NEW f \in [Names -> Nodes \cup {NoNode}], BeginStage(f) PROVE PinInv'
    BY <1>3 DEF BeginStage
  <1>4. CASE ReadPending
    BY <1>4 DEF ReadPending, At
  <1>5. CASE WriteHand
    BY <1>5 DEF WriteHand, Write
  <1>6. CASE AskChain
    BY <1>6 DEF AskChain, At
  <1>7. CASE ReadUnresolved
    BY <1>7 DEF ReadUnresolved, At
  <1>8. CASE ReadPins
    BY <1>8 DEF ReadPins, At
  <1>9. CASE Record
    BY <1>9 DEF Record, At, EndPass
  <1>10. ASSUME NEW n \in todo, Resolve(n) PROVE PinInv'
    BY <1>10 DEF Resolve, At
  <1>11. ASSUME NEW n \in todo, Mint(n) PROVE PinInv'
    BY <1>11 DEF Mint, At
  <1>12. ASSUME NEW n \in todo, Abstain(n) PROVE PinInv'
    BY <1>12 DEF Abstain, At, Write
  <1>13. ASSUME NEW n \in todo, ApplyPin(n) PROVE PinInv'
    BY <1>13 DEF ApplyPin, At
  <1>14. ASSUME NEW n \in todo, NEW m \in Nodes \cup {NoNode}, ApplyAnswer(n, m) PROVE PinInv'
    BY <1>14 DEF ApplyAnswer, At, Write
  <1>15. CASE StageFails
    BY <1>15 DEF StageFails, EndPass
  <1>16. ASSUME NEW bumped \in BOOLEAN, Restart(bumped) PROVE PinInv'
    BY <1>16 DEF Restart, EndPass
  <1>17. ASSUME NEW n \in Names, NEW m \in Nodes, ResolveReview(n, m) PROVE PinInv'
    BY <1>17 DEF ResolveReview, Curates
  <1>18. ASSUME NEW m \in Nodes, NEW k \in Nodes, Merge(m, k) PROVE PinInv'
    BY <1>18 DEF Merge, Curates
  <1>19. ASSUME NEW m \in Nodes, DeleteNode(m) PROVE PinInv'
    BY <1>19 DEF DeleteNode, Curates
  <1>20. ASSUME NEW m \in Nodes, Promote(m) PROVE PinInv'
    BY <1>20 DEF Promote, Curates
  <1>21. ASSUME NEW m \in Nodes, NEW S \in SUBSET Names, CreateNode(m, S) PROVE PinInv'
    BY <1>21 DEF CreateNode, Curates
  <1>22. QED
    BY <1>1, <1>2, <1>3, <1>4, <1>5, <1>6, <1>7, <1>8, <1>9, <1>10, <1>11, <1>12,
       <1>13, <1>14, <1>15, <1>16, <1>17, <1>18, <1>19, <1>20, <1>21
       DEF Next, StageStep, CuratorStep

\* Without a cut, what has a current row lands or is still to be minted.
LEMMA LandStep ==
    TypeOK /\ WorkInv /\ LandInv /\ [Next]_vars => LandInv'
  <1> SUFFICES ASSUME TypeOK, WorkInv, LandInv, [Next]_vars PROVE LandInv'
    OBVIOUS
  <1> USE NamesOK DEF TypeOK, WorkInv, AtHand, LandInv, Unfinished, HasSlug,
                     nodeVars, rowVars, passVars, bounds
  <1>1. CASE UNCHANGED vars
    BY <1>1 DEF vars
  <1>2. ASSUME NEW S \in SUBSET Names, QueueRun(S) PROVE LandInv'
    BY <1>2 DEF QueueRun
  <1>3. ASSUME NEW f \in [Names -> Nodes \cup {NoNode}], BeginStage(f) PROVE LandInv'
    BY <1>3 DEF BeginStage
  <1>4. CASE ReadPending
    BY <1>4 DEF ReadPending, At
  <1>5. CASE WriteHand
    BY <1>5 DEF WriteHand, Write
  <1>6. CASE AskChain
    BY <1>6 DEF AskChain, At
  <1>7. CASE ReadUnresolved
    BY <1>7 DEF ReadUnresolved, At, Resolved
  <1>8. CASE ReadPins
    BY <1>8 DEF ReadPins, At
  <1>9. CASE Record
    BY <1>9 DEF Record, At, EndPass
  <1>10. ASSUME NEW n \in todo, Resolve(n) PROVE LandInv'
    BY <1>10 DEF Resolve, At
  <1>11. ASSUME NEW n \in todo, Mint(n) PROVE LandInv'
    BY <1>11 DEF Mint, At
  <1>12. ASSUME NEW n \in todo, Abstain(n) PROVE LandInv'
    BY <1>12 DEF Abstain, At, Write
  <1>13. ASSUME NEW n \in todo, ApplyPin(n) PROVE LandInv'
    BY <1>13 DEF ApplyPin, At
  <1>14. ASSUME NEW n \in todo, NEW m \in Nodes \cup {NoNode}, ApplyAnswer(n, m) PROVE LandInv'
    BY <1>14 DEF ApplyAnswer, At, Write
  <1>15. CASE StageFails
    BY <1>15 DEF StageFails, EndPass
  <1>16. ASSUME NEW bumped \in BOOLEAN, Restart(bumped) PROVE LandInv'
    BY <1>16 DEF Restart, EndPass
  <1>17. ASSUME NEW n \in Names, NEW m \in Nodes, ResolveReview(n, m) PROVE LandInv'
    BY <1>17 DEF ResolveReview, Curates
  <1>18. ASSUME NEW m \in Nodes, NEW k \in Nodes, Merge(m, k) PROVE LandInv'
    BY <1>18 DEF Merge, Curates
  <1>19. ASSUME NEW m \in Nodes, DeleteNode(m) PROVE LandInv'
    BY <1>19 DEF DeleteNode, Curates
  <1>20. ASSUME NEW m \in Nodes, Promote(m) PROVE LandInv'
    BY <1>20 DEF Promote, Curates
  <1>21. ASSUME NEW m \in Nodes, NEW S \in SUBSET Names, CreateNode(m, S) PROVE LandInv'
    BY <1>21 DEF CreateNode, Curates
  <1>22. QED
    BY <1>1, <1>2, <1>3, <1>4, <1>5, <1>6, <1>7, <1>8, <1>9, <1>10, <1>11, <1>12,
       <1>13, <1>14, <1>15, <1>16, <1>17, <1>18, <1>19, <1>20, <1>21
       DEF Next, StageStep, CuratorStep

\* Nodes go out of sight by a merge or a deletion only, and a run that is not under way
\* sees to it that no fix and no row names a deleted one.
LEMMA NodeStep ==
    TypeOK /\ WorkInv /\ PinInv /\ NodeInv /\ [Next]_vars => NodeInv'
  <1> SUFFICES ASSUME TypeOK, WorkInv, PinInv, NodeInv, [Next]_vars PROVE NodeInv'
    OBVIOUS
  <1> USE NamesOK DEF TypeOK, WorkInv, NodeInv, There, Exists, Stamped,
                     nodeVars, rowVars, passVars, bounds
  <1>1. CASE UNCHANGED vars
    BY <1>1 DEF vars
  <1>2. ASSUME NEW S \in SUBSET Names, QueueRun(S) PROVE NodeInv'
    BY <1>2 DEF QueueRun
  <1>3. ASSUME NEW f \in [Names -> Nodes \cup {NoNode}], BeginStage(f) PROVE NodeInv'
    BY <1>3 DEF BeginStage
  <1>4. CASE ReadPending
    BY <1>4 DEF ReadPending, At
  <1>5. CASE WriteHand
    <2>1. UNCHANGED <<nodeVars, pin, run, chunk, failures, restarts>> /\ run = "running"
      BY <1>5 DEF WriteHand, At
    <2>2. failures + restarts = 0 => \A i \in Names : slug'[i] \in There \cup {NoNode}
      <3>1. PICK h \in hand : Write(h.name, h.slug)
        BY <1>5 DEF WriteHand
      <3>2. \A i \in Names : slug'[i] = slug[i] \/ slug'[i] = h.slug
        BY <3>1 DEF Write
      <3>3. QED
        BY <3>1, <3>2
    <2>3. failures + restarts = 0 => \A i \in Names : run # "running" \/ i \notin chunk => slug'[i] = slug[i]
      <3>1. PICK h \in hand : Write(h.name, h.slug)
        BY <1>5 DEF WriteHand
      <3>2. h.name \in chunk
        BY <3>1 DEF AtHand
      <3>3. QED
        BY <2>1, <3>1, <3>2 DEF Write
    <2>4. (hand' = {} \/ hand' = hand) /\ UNCHANGED <<pc, shown>>
      BY <1>5 DEF WriteHand, At
    <2>5. QED
      BY <2>1, <2>2, <2>3, <2>4
  <1>6. CASE AskChain
    BY <1>6 DEF AskChain, At, Live
  <1>7. CASE ReadUnresolved
    BY <1>7 DEF ReadUnresolved, At
  <1>8. CASE ReadPins
    BY <1>8 DEF ReadPins, At
  <1>9. CASE Record
    BY <1>9 DEF Record, At, EndPass, PinInv
  <1>10. ASSUME NEW n \in todo, Resolve(n) PROVE NodeInv'
    BY <1>10 DEF Resolve, At
  <1>11. ASSUME NEW n \in todo, Mint(n) PROVE NodeInv'
    BY <1>11 DEF Mint, At
  <1>12. ASSUME NEW n \in todo, Abstain(n) PROVE NodeInv'
    <2>1. UNCHANGED <<nodeVars, pin, run, chunk, failures, restarts>> /\ run = "running"
      BY <1>12 DEF Abstain, At
    <2>2. failures + restarts = 0 => \A i \in Names : slug'[i] \in There \cup {NoNode}
      <3>1. \A i \in Names : slug'[i] = slug[i] \/ slug'[i] = NoNode
        BY <1>12 DEF Abstain, Write
      <3>2. QED
        BY <3>1
    <2>3. failures + restarts = 0 => \A i \in Names : run # "running" \/ i \notin chunk => slug'[i] = slug[i]
      BY <1>12 DEF Abstain, Write, At
    <2>4. (hand' = {} \/ hand' = hand) /\ UNCHANGED <<pc, shown>>
      BY <1>12 DEF Abstain, At
    <2>5. QED
      BY <2>1, <2>2, <2>3, <2>4
  <1>13. ASSUME NEW n \in todo, ApplyPin(n) PROVE NodeInv'
    BY <1>13 DEF ApplyPin, At
  <1>14. ASSUME NEW n \in todo, NEW m \in Nodes \cup {NoNode}, ApplyAnswer(n, m) PROVE NodeInv'
    <2>1. UNCHANGED <<nodeVars, pin, run, chunk, failures, restarts>> /\ run = "running"
      BY <1>14 DEF ApplyAnswer, At
    <2>2. failures + restarts = 0 => \A i \in Names : slug'[i] \in There \cup {NoNode}
      <3>1. \A i \in Names : slug'[i] = slug[i] \/ slug'[i] = m
        BY <1>14 DEF ApplyAnswer, Write
      <3>2. failures + restarts = 0 => m \in There \cup {NoNode}
        BY <1>14 DEF ApplyAnswer, At
      <3>3. QED
        BY <3>1, <3>2
    <2>3. failures + restarts = 0 => \A i \in Names : run # "running" \/ i \notin chunk => slug'[i] = slug[i]
      BY <1>14 DEF ApplyAnswer, Write, At
    <2>4. (hand' = {} \/ hand' = hand) /\ UNCHANGED <<pc, shown>>
      BY <1>14 DEF ApplyAnswer, At
    <2>5. QED
      BY <2>1, <2>2, <2>3, <2>4
  <1>15. CASE StageFails
    BY <1>15 DEF StageFails, EndPass
  <1>16. ASSUME NEW bumped \in BOOLEAN, Restart(bumped) PROVE NodeInv'
    BY <1>16 DEF Restart, EndPass
  <1>17. ASSUME NEW n \in Names, NEW m \in Nodes, ResolveReview(n, m) PROVE NodeInv'
    BY <1>17 DEF ResolveReview, Curates
  <1>18. ASSUME NEW m \in Nodes, NEW k \in Nodes, Merge(m, k) PROVE NodeInv'
    BY <1>18 DEF Merge, Curates
  <1>19. ASSUME NEW m \in Nodes, DeleteNode(m) PROVE NodeInv'
    BY <1>19 DEF DeleteNode, Curates
  <1>20. ASSUME NEW m \in Nodes, Promote(m) PROVE NodeInv'
    BY <1>20 DEF Promote, Curates
  <1>21. ASSUME NEW m \in Nodes, NEW S \in SUBSET Names, CreateNode(m, S) PROVE NodeInv'
    BY <1>21 DEF CreateNode, Curates
  <1>22. QED
    BY <1>1, <1>2, <1>3, <1>4, <1>5, <1>6, <1>7, <1>8, <1>9, <1>10, <1>11, <1>12,
       <1>13, <1>14, <1>15, <1>16, <1>17, <1>18, <1>19, <1>20, <1>21
       DEF Next, StageStep, CuratorStep

\* Every step preserves the invariant.
LEMMA IInvStep == IInv /\ [Next]_vars => IInv'
  BY TypeStep, WorkStep, PinStep, LandStep, NodeStep DEF IInv

\* The inductive invariant holds in every reachable state.
THEOREM Invariance == Spec => []IInv
  BY InitHolds, IInvStep, PTL DEF Spec

\* The tables and the stage's memory keep their types, whatever curators, crashes and
\* failures do.
THEOREM TypeCorrect == Spec => []TypeOK
  <1>1. IInv => TypeOK
    BY DEF IInv
  <1>2. QED
    BY Invariance, <1>1, PTL

\* A curator's fix stands when the chunk is recorded (finalize_run, reapply_overrides).
THEOREM FixStands == Spec => []FixStandsWhenRecorded
  <1>1. IInv => FixStandsWhenRecorded
    BY DEF IInv, PinInv, FixStandsWhenRecorded, Recording
  <1>2. QED
    BY Invariance, <1>1, PTL

\* Without a crash or a failure every name of a recorded chunk that can be a slug has a
\* node, or one that curators took away meanwhile (_mint_unresolved, delete_node).
THEOREM Lands == Spec => []UninterruptedNamesLand
  <1>1. ASSUME IInv, failures + restarts = 0, Recording, NEW n \in chunk PROVE Landed(n)
    <2>1. n \in Names /\ n \in current \ Unfinished
      BY <1>1 DEF IInv, TypeOK, LandInv, Unfinished, Recording
    <2>2. HasSlug(n) /\ slug[n] \in There \cup {NoNode}
      BY <1>1, <2>1 DEF IInv, LandInv, NodeInv
    <2>3. QED
      BY <2>2, NamesOK DEF HasSlug, Landed
  <1>2. IInv => UninterruptedNamesLand
    BY <1>1 DEF UninterruptedNamesLand, NamesLand
  <1>3. QED
    BY Invariance, <1>2, PTL

\* A settled name that nobody fixes and whose node nobody merges keeps its node.
LEMMA SettledStep ==
    ASSUME TypeOK, WorkInv, [Next]_vars, NEW i \in Names, Settled(i),
           pin'[i] = NoNode, slug[i] \notin absorbed'
    PROVE  slug'[i] = slug[i]
  <1> USE NamesOK DEF TypeOK, WorkInv, AtHand, Settled, nodeVars, rowVars, passVars, bounds
  <1>1. CASE UNCHANGED vars
    BY <1>1 DEF vars
  <1>2. ASSUME NEW S \in SUBSET Names, QueueRun(S) PROVE slug'[i] = slug[i]
    BY <1>2 DEF QueueRun
  <1>3. ASSUME NEW f \in [Names -> Nodes \cup {NoNode}], BeginStage(f) PROVE slug'[i] = slug[i]
    BY <1>3 DEF BeginStage
  <1>4. CASE ReadPending
    BY <1>4 DEF ReadPending, At
  <1>5. CASE WriteHand
    BY <1>5 DEF WriteHand, Write
  <1>6. CASE AskChain
    BY <1>6 DEF AskChain, At
  <1>7. CASE ReadUnresolved
    BY <1>7 DEF ReadUnresolved, At
  <1>8. CASE ReadPins
    BY <1>8 DEF ReadPins, At
  <1>9. CASE Record
    BY <1>9 DEF Record, At, EndPass
  <1>10. ASSUME NEW n \in todo, Resolve(n) PROVE slug'[i] = slug[i]
    BY <1>10 DEF Resolve, At
  <1>11. ASSUME NEW n \in todo, Mint(n) PROVE slug'[i] = slug[i]
    BY <1>11 DEF Mint, At
  <1>12. ASSUME NEW n \in todo, Abstain(n) PROVE slug'[i] = slug[i]
    BY <1>12 DEF Abstain, At, Write
  <1>13. ASSUME NEW n \in todo, ApplyPin(n) PROVE slug'[i] = slug[i]
    BY <1>13 DEF ApplyPin, At
  <1>14. ASSUME NEW n \in todo, NEW m \in Nodes \cup {NoNode}, ApplyAnswer(n, m) PROVE slug'[i] = slug[i]
    BY <1>14 DEF ApplyAnswer, At, Write
  <1>15. CASE StageFails
    BY <1>15 DEF StageFails, EndPass
  <1>16. ASSUME NEW bumped \in BOOLEAN, Restart(bumped) PROVE slug'[i] = slug[i]
    BY <1>16 DEF Restart, EndPass
  <1>17. ASSUME NEW n \in Names, NEW m \in Nodes, ResolveReview(n, m) PROVE slug'[i] = slug[i]
    BY <1>17 DEF ResolveReview, Curates
  <1>18. ASSUME NEW m \in Nodes, NEW k \in Nodes, Merge(m, k) PROVE slug'[i] = slug[i]
    BY <1>18 DEF Merge, Curates
  <1>19. ASSUME NEW m \in Nodes, DeleteNode(m) PROVE slug'[i] = slug[i]
    BY <1>19 DEF DeleteNode, Curates
  <1>20. ASSUME NEW m \in Nodes, Promote(m) PROVE slug'[i] = slug[i]
    BY <1>20 DEF Promote, Curates
  <1>21. ASSUME NEW m \in Nodes, NEW S \in SUBSET Names, CreateNode(m, S) PROVE slug'[i] = slug[i]
    BY <1>21 DEF CreateNode, Curates
  <1>22. QED
    BY <1>1, <1>2, <1>3, <1>4, <1>5, <1>6, <1>7, <1>8, <1>9, <1>10, <1>11, <1>12,
       <1>13, <1>14, <1>15, <1>16, <1>17, <1>18, <1>19, <1>20, <1>21
       DEF Next, StageStep, CuratorStep

\* A name resolved at the current version is not resolved again (_already_resolved).
THEOREM Once == Spec => ResolvedOnce
  <1>1. IInv /\ [Next]_vars =>
          [\A n \in Names : Settled(n) /\ pin'[n] = NoNode /\ slug[n] \notin absorbed'
                            => slug'[n] = slug[n]]_vars
    BY SettledStep DEF IInv
  <1>2. QED
    BY Invariance, <1>1, PTL DEF Spec, ResolvedOnce

\* Only the mint writes a node on its own account, and only a new one.
LEMMA StatusStep ==
    ASSUME TypeOK, [Next]_vars, curations' = curations, NEW i \in Nodes,
           status'[i] # status[i]
    PROVE  status[i] = "absent" /\ status'[i] = "provisional"
  <1> USE NamesOK DEF TypeOK, nodeVars, rowVars, passVars, bounds
  <1>1. CASE UNCHANGED vars
    BY <1>1 DEF vars
  <1>2. ASSUME NEW S \in SUBSET Names, QueueRun(S) PROVE status[i] = "absent" /\ status'[i] = "provisional"
    BY <1>2 DEF QueueRun
  <1>3. ASSUME NEW f \in [Names -> Nodes \cup {NoNode}], BeginStage(f) PROVE status[i] = "absent" /\ status'[i] = "provisional"
    BY <1>3 DEF BeginStage
  <1>4. CASE ReadPending
    BY <1>4 DEF ReadPending, At
  <1>5. CASE WriteHand
    BY <1>5 DEF WriteHand, Write
  <1>6. CASE AskChain
    BY <1>6 DEF AskChain, At
  <1>7. CASE ReadUnresolved
    BY <1>7 DEF ReadUnresolved, At
  <1>8. CASE ReadPins
    BY <1>8 DEF ReadPins, At
  <1>9. CASE Record
    BY <1>9 DEF Record, At, EndPass
  <1>10. ASSUME NEW n \in todo, Resolve(n) PROVE status[i] = "absent" /\ status'[i] = "provisional"
    BY <1>10 DEF Resolve, At
  <1>11. ASSUME NEW n \in todo, Mint(n) PROVE status[i] = "absent" /\ status'[i] = "provisional"
    BY <1>11 DEF Mint, At, Exists
  <1>12. ASSUME NEW n \in todo, Abstain(n) PROVE status[i] = "absent" /\ status'[i] = "provisional"
    BY <1>12 DEF Abstain, At, Write
  <1>13. ASSUME NEW n \in todo, ApplyPin(n) PROVE status[i] = "absent" /\ status'[i] = "provisional"
    BY <1>13 DEF ApplyPin, At
  <1>14. ASSUME NEW n \in todo, NEW m \in Nodes \cup {NoNode}, ApplyAnswer(n, m) PROVE status[i] = "absent" /\ status'[i] = "provisional"
    BY <1>14 DEF ApplyAnswer, At, Write
  <1>15. CASE StageFails
    BY <1>15 DEF StageFails, EndPass
  <1>16. ASSUME NEW bumped \in BOOLEAN, Restart(bumped) PROVE status[i] = "absent" /\ status'[i] = "provisional"
    BY <1>16 DEF Restart, EndPass
  <1>17. ASSUME NEW n \in Names, NEW m \in Nodes, ResolveReview(n, m) PROVE status[i] = "absent" /\ status'[i] = "provisional"
    BY <1>17 DEF ResolveReview, Curates
  <1>18. ASSUME NEW m \in Nodes, NEW k \in Nodes, Merge(m, k) PROVE status[i] = "absent" /\ status'[i] = "provisional"
    BY <1>18 DEF Merge, Curates
  <1>19. ASSUME NEW m \in Nodes, DeleteNode(m) PROVE status[i] = "absent" /\ status'[i] = "provisional"
    BY <1>19 DEF DeleteNode, Curates
  <1>20. ASSUME NEW m \in Nodes, Promote(m) PROVE status[i] = "absent" /\ status'[i] = "provisional"
    BY <1>20 DEF Promote, Curates
  <1>21. ASSUME NEW m \in Nodes, NEW S \in SUBSET Names, CreateNode(m, S) PROVE status[i] = "absent" /\ status'[i] = "provisional"
    BY <1>21 DEF CreateNode, Curates
  <1>22. QED
    BY <1>1, <1>2, <1>3, <1>4, <1>5, <1>6, <1>7, <1>8, <1>9, <1>10, <1>11, <1>12,
       <1>13, <1>14, <1>15, <1>16, <1>17, <1>18, <1>19, <1>20, <1>21
       DEF Next, StageStep, CuratorStep

\* The stage only ever adds provisional nodes (mint_provisional_node).
THEOREM OnlyMints == Spec => MapOnlyMints
  <1>1. IInv /\ [Next]_vars =>
          [curations' = curations =>
             \A m \in Nodes : status'[m] # status[m] =>
                 status[m] = "absent" /\ status'[m] = "provisional"]_vars
    BY StatusStep DEF IInv
  <1>2. QED
    BY Invariance, <1>1, PTL DEF Spec, MapOnlyMints
===============================================================================
