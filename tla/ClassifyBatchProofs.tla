-------------------------- MODULE ClassifyBatchProofs --------------------------
(******************************************************************************)
(* Theorems about ClassifyBatch, for every number of pages and batches, every *)
(* chunk and every limit, any labels, prompts and resets. The invariant says  *)
(* where a job can be with a batch: a row of a completed batch that a job has *)
(* not in hand was tried, a sidecar names a failed state only if the batch    *)
(* failed and is marked ingested only if every row was tried, and a drain has *)
(* submitted no more rows than its limit. A batch that exists keeps its rows  *)
(* and, once completed, its answers, so a step of one job leaves the other's  *)
(* place as it was.                                                           *)
(******************************************************************************)
EXTENDS ClassifyBatch, FiniteSetTheorems, SequenceTheorems, TLAPS

(* The elements of a set of numbers below one of them: how many they are is   *)
(* its place.                                                                 *)
Before(S, p) == {q \in S : q < p}

(* A greater element has more of them before it.                              *)
LEMMA RankOrder ==
    ASSUME NEW S \in SUBSET Nat, IsFiniteSet(S), NEW p \in S, NEW r \in S, p < r
    PROVE  Cardinality(Before(S, p)) < Cardinality(Before(S, r))
<1>0. p \in Nat /\ r \in Nat
    OBVIOUS
<1>1. Before(S, p) \subseteq Before(S, r) /\ p \in Before(S, r) /\ p \notin Before(S, p)
    <2>1. ASSUME NEW q \in S, q < p PROVE q < r
        <3>1. q \in Nat
            OBVIOUS
        <3> QED BY <1>0, <2>1, <3>1
    <2>2. ~ p < p
        BY <1>0
    <2> QED BY <2>1, <2>2 DEF Before
<1>2. Before(S, r) \subseteq S
    BY DEF Before
<1>3. IsFiniteSet(Before(S, r))
    BY <1>2, FS_Subset
<1>4. Cardinality(Before(S, p)) <= Cardinality(Before(S, r)) /\ IsFiniteSet(Before(S, p))
    BY <1>1, <1>3, FS_Subset
<1>5. Cardinality(Before(S, p)) # Cardinality(Before(S, r))
    BY <1>1, <1>3, FS_Subset
<1>6. Cardinality(Before(S, p)) \in Nat /\ Cardinality(Before(S, r)) \in Nat
    BY <1>3, <1>4, FS_CardinalityType
<1> QED BY <1>4, <1>5, <1>6

(* A place is a number less than the size of the set.                         *)
LEMMA RankRange ==
    ASSUME NEW S \in SUBSET Nat, IsFiniteSet(S), NEW p \in S
    PROVE  /\ Cardinality(Before(S, p)) \in Nat
           /\ Cardinality(S) \in Nat
           /\ Cardinality(Before(S, p)) < Cardinality(S)
<1>1. Before(S, p) \subseteq S /\ p \notin Before(S, p)
    BY DEF Before
<1>2. IsFiniteSet(Before(S, p)) /\ Cardinality(Before(S, p)) <= Cardinality(S)
      /\ Cardinality(Before(S, p)) # Cardinality(S)
    BY <1>1, FS_Subset
<1> QED BY <1>2, FS_CardinalityType

(* The elements with a place less than n map to the numbers up to n, none to  *)
(* the same.                                                                  *)
LEMMA RankInjective ==
    ASSUME NEW S \in SUBSET Nat, IsFiniteSet(S), NEW T \in SUBSET S, NEW n \in Nat,
           \A p \in T : Cardinality(Before(S, p)) < n
    PROVE  [p \in T |-> Cardinality(Before(S, p)) + 1] \in Injection(T, 1 .. n)
<1> DEFINE f == [p \in T |-> Cardinality(Before(S, p)) + 1]
<1>1. f \in [T -> 1 .. n]
    BY RankRange
<1>2. ASSUME NEW p \in T, NEW r \in T, p # r PROVE f[p] # f[r]
    <2>1. CASE p < r
        <3>1. Cardinality(Before(S, p)) < Cardinality(Before(S, r))
            BY <2>1, RankOrder
        <3> QED BY <3>1, RankRange
    <2>2. CASE r < p
        <3>1. Cardinality(Before(S, r)) < Cardinality(Before(S, p))
            BY <2>2, RankOrder
        <3> QED BY <3>1, RankRange
    <2> QED BY <1>2, <2>1, <2>2
<1> QED BY <1>1, <1>2 DEF Injection, IsInjective

(* The first n of a set are no more than n.                                   *)
LEMMA FirstOfBound ==
    ASSUME NEW S \in SUBSET Nat, IsFiniteSet(S), NEW n \in Nat
    PROVE  /\ FirstOf(S, n) \in SUBSET S /\ IsFiniteSet(FirstOf(S, n))
           /\ Cardinality(FirstOf(S, n)) \in Nat /\ Cardinality(FirstOf(S, n)) <= n
<1> DEFINE T == FirstOf(S, n)
           f == [p \in T |-> Cardinality(Before(S, p)) + 1]
<1>1. T \in SUBSET S /\ \A p \in T : Cardinality(Before(S, p)) < n
    BY DEF FirstOf, Before
<1>2. f \in Injection(T, 1 .. n)
    <2> HIDE DEF T
    <2> QED BY <1>1, RankInjective
<1>3. IsFiniteSet(1 .. n) /\ Cardinality(1 .. n) = n
    BY FS_Interval
<1>4. IsFiniteSet(T) /\ Cardinality(T) <= n
    <2> HIDE DEF f, T
    <2> QED BY <1>2, <1>3, FS_Injection
<1>5. Cardinality(T) \in Nat
    BY <1>4, FS_CardinalityType
<1> QED BY <1>1, <1>4, <1>5

(* A set in id order is a list of its elements, as long as the set is large,  *)
(* going up.                                                                  *)
LEMMA InIdOrderLists ==
    ASSUME NEW S \in SUBSET Nat, IsFiniteSet(S)
    PROVE  /\ InIdOrder(S) \in Seq(S)
           /\ Len(InIdOrder(S)) = Cardinality(S)
           /\ \A i, k \in DOMAIN InIdOrder(S) : i < k => InIdOrder(S)[i] < InIdOrder(S)[k]
<1> DEFINE n == Cardinality(S)
           f == [p \in S |-> Cardinality(Before(S, p)) + 1]
           g == [i \in 1 .. n |-> CHOOSE p \in S : Cardinality(Before(S, p)) = i - 1]
<1>1. n \in Nat
    BY FS_CardinalityType
<1>2. f \in Injection(S, 1 .. n)
    <2>1. \A p \in S : Cardinality(Before(S, p)) < n
        BY RankRange
    <2> HIDE DEF n
    <2> QED BY <1>1, <2>1, RankInjective
<1>3. f \in Surjection(S, 1 .. n)
    <2>1. IsFiniteSet(1 .. n) /\ Cardinality(1 .. n) = n
        <3> HIDE DEF n
        <3> QED BY <1>1, FS_Interval
    <2> HIDE DEF f
    <2> QED BY <1>2, <2>1, FS_Injection
<1>4. \A i \in 1 .. n : g[i] \in S /\ Cardinality(Before(S, g[i])) = i - 1
    <2> SUFFICES ASSUME NEW i \in 1 .. n PROVE g[i] \in S /\ Cardinality(Before(S, g[i])) = i - 1
        OBVIOUS
    <2>1. PICK p \in S : f[p] = i
        BY <1>3 DEF Surjection
    <2>2. Cardinality(Before(S, p)) = i - 1
        BY <1>1, <2>1, RankRange
    <2>3. g[i] = CHOOSE q \in S : Cardinality(Before(S, q)) = i - 1
        OBVIOUS
    <2> HIDE DEF g
    <2> QED BY <2>2, <2>3
<1>5. InIdOrder(S) = g
    BY DEF InIdOrder, Before
<1>6. g \in Seq(S) /\ Len(g) = n /\ DOMAIN g = 1 .. n
    <2>1. \A i \in 1 .. n : (CHOOSE p \in S : Cardinality(Before(S, p)) = i - 1) \in S
        BY <1>4
    <2>2. [i \in 1 .. n |-> CHOOSE p \in S : Cardinality(Before(S, p)) = i - 1] \in [1 .. n -> S]
        BY <2>1
    <2>3. g \in Seq(S)
        BY <1>1, <2>2, SeqDef
    <2> HIDE DEF n
    <2> QED BY <1>1, <2>3, LenProperties
<1>7. ASSUME NEW i \in 1 .. n, NEW k \in 1 .. n, i < k PROVE g[i] < g[k]
    <2> HIDE DEF g
    <2>1. g[i] \in S /\ g[k] \in S /\ Cardinality(Before(S, g[i])) = i - 1 /\ Cardinality(Before(S, g[k])) = k - 1
        BY <1>4
    <2>2. g[i] # g[k]
        BY <1>1, <1>7, <2>1
    <2>3. ~ g[k] < g[i]
        <3> SUFFICES ASSUME g[k] < g[i] PROVE FALSE
            OBVIOUS
        <3>1. Cardinality(Before(S, g[k])) < Cardinality(Before(S, g[i]))
            BY <2>1, RankOrder
        <3> QED BY <1>1, <1>7, <2>1, <3>1
    <2>4. g[i] \in Nat /\ g[k] \in Nat
        BY <2>1
    <2> QED BY <2>2, <2>3, <2>4
<1> HIDE DEF g
<1> QED BY <1>5, <1>6, <1>7

-------------------------------------------------------------------------------
(* A job in one of these steps has a batch in hand.                           *)
Steps == {"write", "poll", "unmark", "load", "rows"}

(* The rows a drain has in hand and does not count as drained yet.            *)
Submitting(d) == IF d.pc \in {"write", "poll", "load", "rows"} THEN Len(batch[d.b].rows) ELSE 0

(* Where a job stands: its batch exists, its rows were tried but for those it *)
(* has left, its list holds batches that exist, and a drain stays within its  *)
(* limit.                                                                     *)
Place(j, r) ==
    /\ r.pc \in Steps => r.b \in Batches /\ batch[r.b].state # "none"
    /\ r.pc = "rows" => /\ batch[r.b].state = "completed"
                        /\ r.left \subseteq DOMAIN batch[r.b].rows
                        /\ DOMAIN batch[r.b].rows \ r.left \subseteq tried[r.b]
    /\ \A c \in r.todo : batch[c].state # "none"
    /\ j = "drain" =>
         /\ r.pc = "poll" => sidecar[r.b].name # "none"
         /\ Limit # None => /\ r.pc = "submit" => r.drained < Limit
                            /\ r.drained + Submitting(r) <= Limit

(* An answer in a batch is one that was given for the page of its row.        *)
AnswersOK == \A b \in Batches : \A i \in DOMAIN batch[b].rows :
    batch[b].answer[i] # None => batch[b].answer[i] \in answered[batch[b].rows[i]]
(* What was tried are rows of a batch that exists.                            *)
TriedOK == \A b \in Batches :
    /\ tried[b] \subseteq DOMAIN batch[b].rows
    /\ batch[b].state = "none" => tried[b] = {}
(* Every job stands where it can.                                             *)
PlacesOK == \A j \in Jobs : Place(j, job[j])
(* Every job has its type.                                                    *)
JobsTyped == job \in [Jobs -> JobRecord]

(* The inductive invariant.                                                   *)
IInv == TablesOK /\ SidecarsOK /\ JobsTyped /\ PlacesOK /\ AnswersOK /\ TriedOK
        /\ LabelsAreOwnAnswers /\ IngestedIsComplete

-------------------------------------------------------------------------------
(* No job and no batch are typed.                                             *)
LEMMA RecordsTyped == NoJob \in JobRecord /\ NoBatch \in BatchRecord
<1>1. <<>> \in Seq(Pages) /\ <<>> \in Seq(Labels \cup {None})
    BY EmptySeq
<1>2. NoBatch \in BatchRecord
    BY <1>1 DEF NoBatch, BatchRecord
<1>3. NoJob \in JobRecord
    BY DEF NoJob, JobRecord
<1> QED BY <1>2, <1>3

(* A job that is not there stands anywhere.                                   *)
LEMMA NoJobPlaced == \A j \in Jobs : Place(j, NoJob)
BY BatchConstants DEF Place, NoJob, Submitting, Steps

(* What a step of one job keeps for the other: batches that exist, their rows,*)
(* the end of a completed one, sidecars, and what was tried.                  *)
Persist ==
    /\ \A b \in Batches : batch[b].state # "none" =>
         /\ batch'[b].state # "none" /\ batch'[b].rows = batch[b].rows
         /\ batch[b].state = "completed" => batch'[b].state = "completed"
    /\ \A b \in Batches : sidecar[b].name # "none" => sidecar'[b].name # "none"
    /\ \A b \in Batches : tried[b] \subseteq tried'[b]

(* A job that does not move stays in place under such a step.                 *)
LEMMA PlacePersists ==
    ASSUME NEW j \in Jobs, NEW r \in JobRecord, Place(j, r), Persist,
           r.todo \subseteq Batches
    PROVE  Place(j, r)'
<1>1. (r.pc \in Steps => r.b \in Batches /\ batch[r.b].state # "none")'
    BY DEF Place, Persist
<1>2. (r.pc = "rows" => /\ batch[r.b].state = "completed"
                        /\ r.left \subseteq DOMAIN batch[r.b].rows
                        /\ DOMAIN batch[r.b].rows \ r.left \subseteq tried[r.b])'
    BY DEF Place, Persist, Steps
<1>3. (\A c \in r.todo : batch[c].state # "none")'
    BY DEF Place, Persist
<1>4. (j = "drain" => (r.pc = "poll" => sidecar[r.b].name # "none"))'
    BY DEF Place, Persist, Steps
<1>5. Submitting(r)' = Submitting(r)
    BY DEF Place, Persist, Steps, Submitting
<1>6. (j = "drain" /\ Limit # None => /\ r.pc = "submit" => r.drained < Limit
                                      /\ r.drained + Submitting(r) <= Limit)'
    BY <1>5 DEF Place
<1> QED BY <1>1, <1>2, <1>3, <1>4, <1>6 DEF Place

(* The same of the record a job has.                                          *)
LEMMA JobsStay ==
    ASSUME IInv, Persist, NEW j \in Jobs, job'[j] = job[j]
    PROVE  Place(j, job[j])'
<1>1. PICK r \in JobRecord : r = job[j]
    BY DEF IInv, JobsTyped
<1>2. Place(j, r) /\ r.todo \subseteq Batches
    BY <1>1 DEF IInv, PlacesOK, JobRecord
<1>3. Place(j, r)'
    BY <1>2, PlacePersists
<1> QED BY <1>1, <1>3

(* Where one job moves to a place of its own, all jobs are in place.          *)
LEMMA OneJobMoves ==
    ASSUME IInv, Persist, NEW j \in Jobs, NEW r \in JobRecord, Place(j, r)',
           job' = [job EXCEPT ![j] = r]
    PROVE  JobsTyped' /\ PlacesOK'
<1>1. JobsTyped'
    BY DEF IInv, JobsTyped
<1>2. ASSUME NEW k \in Jobs PROVE Place(k, job[k])'
    <2>1. CASE k = j
        BY <2>1 DEF IInv, JobsTyped
    <2>2. CASE k # j
        BY <2>2, JobsStay DEF IInv, JobsTyped
    <2> QED BY <2>1, <2>2
<1> QED BY <1>1, <1>2 DEF PlacesOK

(* A step that moves one job and writes nothing keeps the invariant.          *)
LEMMA OnlyJobMoves ==
    ASSUME IInv, UNCHANGED <<label, batch, sidecar, answered, tried>>,
           {version', starts', resets', kills'} \subseteq Nat,
           NEW j \in Jobs, NEW r \in JobRecord, Place(j, r), job' = [job EXCEPT ![j] = r]
    PROVE  IInv'
<1>1. Persist
    BY DEF Persist
<1>2. Place(j, r)'
    BY DEF Place, Submitting
<1>3. JobsTyped' /\ PlacesOK'
    BY <1>1, <1>2, OneJobMoves
<1>4. (TablesOK /\ SidecarsOK /\ AnswersOK /\ TriedOK /\ LabelsAreOwnAnswers /\ IngestedIsComplete)'
    BY DEF IInv, TablesOK, SidecarsOK, AnswersOK, TriedOK, LabelsAreOwnAnswers, IngestedIsComplete, InState
<1> QED BY <1>3, <1>4 DEF IInv

(* The counters are numbers.                                                  *)
LEMMA Numbers == IInv => version \in Nat /\ starts \in Nat /\ resets \in Nat /\ kills \in Nat
BY DEF IInv, TablesOK

(* There are two jobs, each typed and in place.                               *)
LEMMA JobsAre == Jobs = {"drain", "ingest"} /\ (IInv => \A j \in Jobs : job[j] \in JobRecord /\ Place(j, job[j]))
BY DEF Jobs, IInv, JobsTyped, PlacesOK

(* Going to a step changes the step of the job alone.                         *)
LEMMA GotoIsAMove ==
    ASSUME IInv, NEW j \in Jobs, NEW pc \in {"idle", "top", "submit", "write", "poll", "next", "unmark", "load", "rows"}
    PROVE  /\ [job[j] EXCEPT !.pc = pc] \in JobRecord
           /\ Goto(j, pc) => job' = [job EXCEPT ![j] = [job[j] EXCEPT !.pc = pc]]
<1>1. job[j] \in JobRecord
    BY JobsAre
<1>2. [job[j] EXCEPT !.pc = pc] \in JobRecord
    BY <1>1 DEF JobRecord
<1>3. Goto(j, pc) => job' = [job EXCEPT ![j] = [job[j] EXCEPT !.pc = pc]]
    BY DEF Goto
<1> QED BY <1>2, <1>3

(* The top of the drain loop keeps the invariant.                             *)
LEMMA TopKeepsIInv == ASSUME IInv, Top PROVE IInv'
<1> DEFINE d == job["drain"]
           r == [d EXCEPT !.pc = "submit"]
<1>0. d \in JobRecord /\ Place("drain", d) /\ "drain" \in Jobs
    BY JobsAre
<1>1. UNCHANGED <<label, batch, sidecar, answered, tried>> /\ {version', starts', resets', kills'} \subseteq Nat
    BY Numbers DEF Top, History
<1>2. CASE End("drain")
    BY <1>0, <1>1, <1>2, RecordsTyped, NoJobPlaced, OnlyJobMoves DEF End
<1>3. CASE Goto("drain", "submit") /\ ~ (Limit # None /\ d.drained >= Limit)
    <2>1. r \in JobRecord /\ job' = [job EXCEPT !["drain"] = r]
        BY <1>0, <1>3, GotoIsAMove
    <2>2. r.pc = "submit" /\ r.todo = d.todo /\ r.drained = d.drained /\ d.drained \in Nat
        BY <1>0 DEF JobRecord
    <2>3. Limit # None => d.drained < Limit
        BY <1>3, <2>2, BatchConstants
    <2>4. Place("drain", r)
        <3> HIDE DEF r
        <3> QED BY <1>0, <2>2, <2>3, BatchConstants DEF Place, Submitting, Steps
    <2> HIDE DEF r
    <2> QED BY <1>0, <1>1, <2>1, <2>4, OnlyJobMoves
<1> QED BY <1>2, <1>3 DEF Top

(* The start of a drain keeps the invariant.                                  *)
LEMMA StartDrainKeepsIInv == ASSUME IInv, StartDrain PROVE IInv'
<1> DEFINE r == [NoJob EXCEPT !.pc = "top", !.version = version]
<1>1. r \in JobRecord /\ r.pc = "top" /\ r.todo = {} /\ r.drained = 0
    BY RecordsTyped, Numbers DEF JobRecord, NoJob
<1>2. Place("drain", r)
    <2> HIDE DEF r
    <2> QED BY <1>1, BatchConstants DEF Place, Submitting, Steps
<1>3. UNCHANGED <<label, batch, sidecar, answered, tried>> /\ {version', starts', resets', kills'} \subseteq Nat
    BY Numbers DEF StartDrain, Begin
<1>4. job' = [job EXCEPT !["drain"] = r]
    BY DEF StartDrain, Begin
<1> HIDE DEF r
<1> QED BY <1>1, <1>2, <1>3, <1>4, JobsAre, OnlyJobMoves

(* The start of an ingest keeps the invariant: it lists batches with a        *)
(* sidecar, which exist.                                                      *)
LEMMA StartIngestKeepsIInv == ASSUME IInv, NEW force \in BOOLEAN, StartIngest(force) PROVE IInv'
<1>1. PICK ids \in {InState(IF force THEN {"live", "ingested"} ELSE {"live"})}
               \cup {{b} : b \in {c \in Batches : sidecar[c].name # "none"}} :
        Begin("ingest", [NoJob EXCEPT !.pc = "next", !.todo = ids, !.force = force, !.version = version])
    BY DEF StartIngest
<1> DEFINE r == [NoJob EXCEPT !.pc = "next", !.todo = ids, !.force = force, !.version = version]
<1>2. ids \in SUBSET Batches /\ \A b \in ids : batch[b].state # "none"
    BY DEF InState, IInv, SidecarsOK
<1>3. r \in JobRecord /\ r.pc = "next" /\ r.todo = ids
    BY <1>2, RecordsTyped, Numbers DEF JobRecord, NoJob
<1>4. Place("ingest", r)
    <2> HIDE DEF r
    <2> QED BY <1>2, <1>3 DEF Place, Steps
<1>5. UNCHANGED <<label, batch, sidecar, answered, tried>> /\ {version', starts', resets', kills'} \subseteq Nat
    BY <1>1, Numbers DEF Begin
<1>6. job' = [job EXCEPT !["ingest"] = r]
    BY <1>1 DEF Begin
<1> HIDE DEF r
<1> QED BY <1>3, <1>4, <1>5, <1>6, JobsAre, OnlyJobMoves

(* An ingest that takes its next batch keeps the invariant.                   *)
LEMMA NextBatchKeepsIInv == ASSUME IInv, NextBatch PROVE IInv'
<1> DEFINE g == job["ingest"]
<1>0. g \in JobRecord /\ Place("ingest", g) /\ "ingest" \in Jobs
    BY JobsAre
<1>1. UNCHANGED <<label, batch, sidecar, answered, tried>> /\ {version', starts', resets', kills'} \subseteq Nat
    BY Numbers DEF NextBatch, History
<1>2. CASE End("ingest")
    BY <1>0, <1>1, <1>2, RecordsTyped, NoJobPlaced, OnlyJobMoves DEF End
<1>3. ASSUME NEW b \in g.todo,
             job' = [job EXCEPT !["ingest"].b = b, !["ingest"].todo = @ \ {b},
                                !["ingest"].pc = IF g.force THEN "unmark" ELSE "load"]
      PROVE  IInv'
    <2> DEFINE r == [g EXCEPT !.b = b, !.todo = @ \ {b}, !.pc = IF g.force THEN "unmark" ELSE "load"]
    <2>1. b \in Batches /\ batch[b].state # "none"
        BY <1>0, <1>3 DEF JobRecord, Place
    <2>2. r \in JobRecord /\ r.b = b /\ r.todo = g.todo \ {b} /\ r.pc \in {"unmark", "load"}
        BY <1>0, <2>1 DEF JobRecord
    <2>3. Place("ingest", r)
        <3> HIDE DEF r
        <3> QED BY <1>0, <2>1, <2>2 DEF Place, Steps
    <2>4. job' = [job EXCEPT !["ingest"] = r]
        BY <1>3, <1>0 DEF IInv, JobsTyped
    <2> HIDE DEF r
    <2> QED BY <1>0, <1>1, <2>2, <2>3, <2>4, OnlyJobMoves
<1> QED BY <1>2, <1>3 DEF NextBatch

(* A submit that fails, a Ctrl-C and a kill keep the invariant.               *)
LEMMA OthersMoveAJob ==
    ASSUME IInv, SubmitFails \/ Interrupt \/ \E j \in Jobs : Kill(j)
    PROVE  IInv'
<1>1. CASE SubmitFails
    BY <1>1, RecordsTyped, NoJobPlaced, Numbers, JobsAre, OnlyJobMoves DEF SubmitFails, End, History
<1>2. CASE Interrupt
    <2> DEFINE d == job["drain"]
               r == [d EXCEPT !.interrupt = TRUE]
    <2>0. d \in JobRecord /\ Place("drain", d) /\ "drain" \in Jobs
        BY JobsAre
    <2>1. r \in JobRecord /\ r.pc = d.pc /\ r.todo = d.todo /\ r.b = d.b /\ r.left = d.left /\ r.drained = d.drained
        BY <2>0 DEF JobRecord
    <2>2. Place("drain", r)
        <3> HIDE DEF r
        <3> QED BY <2>0, <2>1 DEF Place, Submitting, Steps
    <2>3. job' = [job EXCEPT !["drain"] = r]
        BY <1>2 DEF Interrupt
    <2>4. UNCHANGED <<label, batch, sidecar, answered, tried>> /\ {version', starts', resets', kills'} \subseteq Nat
        BY <1>2, Numbers DEF Interrupt, History
    <2> HIDE DEF r
    <2> QED BY <2>0, <2>1, <2>2, <2>3, <2>4, OnlyJobMoves
<1>3. ASSUME NEW j \in Jobs, Kill(j) PROVE IInv'
    <2>1. UNCHANGED <<label, batch, sidecar, answered, tried>> /\ {version', starts', resets', kills'} \subseteq Nat
        BY <1>3, Numbers DEF Kill
    <2>2. job' = [job EXCEPT ![j] = NoJob]
        BY <1>3 DEF Kill, End
    <2> QED BY <1>3, <2>1, <2>2, RecordsTyped, NoJobPlaced, OnlyJobMoves
<1> QED BY <1>1, <1>2, <1>3

-------------------------------------------------------------------------------
(* A sidecar: the suffix of its name, and the prompt version in it.           *)
SidecarRecord == [name : {"none", "live", "ingested"} \cup FailedStates, version : Nat]

(* A sidecar that is written or renamed keeps the invariant, if its name is   *)
(* true of its batch.                                                         *)
LEMMA SidecarMoves ==
    ASSUME IInv, UNCHANGED <<label, batch, History>>,
           NEW b \in Batches, NEW s \in SidecarRecord, sidecar' = [sidecar EXCEPT ![b] = s],
           s.name # "none", batch[b].state # "none",
           s.name \in FailedStates => batch[b].state = s.name,
           s.name = "ingested" => batch[b].state = "completed" /\ tried[b] = DOMAIN batch[b].rows,
           NEW j \in Jobs, NEW r \in JobRecord, Place(j, r)', job' = [job EXCEPT ![j] = r]
    PROVE  IInv'
<1>1. sidecar \in [Batches -> SidecarRecord]
    BY DEF IInv, TablesOK, SidecarRecord
<1>2. sidecar' \in [Batches -> SidecarRecord] /\ sidecar'[b] = s
      /\ \A c \in Batches : c # b => sidecar'[c] = sidecar[c]
    BY <1>1
<1>3. Persist
    BY <1>2 DEF Persist, History
<1>4. JobsTyped' /\ PlacesOK'
    BY <1>3, OneJobMoves
<1>5. SidecarsOK'
    BY <1>2 DEF IInv, SidecarsOK
<1>6. IngestedIsComplete'
    BY <1>2 DEF IInv, IngestedIsComplete, InState, History
<1>7. TablesOK'
    BY <1>2 DEF IInv, TablesOK, SidecarRecord, History
<1>8. (AnswersOK /\ TriedOK /\ LabelsAreOwnAnswers)'
    BY DEF IInv, AnswersOK, TriedOK, LabelsAreOwnAnswers, History
<1> QED BY <1>4, <1>5, <1>6, <1>7, <1>8 DEF IInv

(* A sidecar that gets another name is a sidecar.                             *)
LEMMA Named ==
    ASSUME IInv, NEW b \in Batches, NEW n \in {"live", "ingested"} \cup FailedStates
    PROVE  /\ [sidecar[b] EXCEPT !.name = n] \in SidecarRecord
           /\ [sidecar[b] EXCEPT !.name = n].name = n
           /\ [sidecar EXCEPT ![b].name = n] = [sidecar EXCEPT ![b] = [sidecar[b] EXCEPT !.name = n]]
           /\ n # "none"
<1>1. sidecar[b] \in SidecarRecord
    BY DEF IInv, TablesOK, SidecarRecord
<1>2. [sidecar[b] EXCEPT !.name = n] \in SidecarRecord /\ [sidecar[b] EXCEPT !.name = n].name = n
    BY <1>1 DEF SidecarRecord
<1>3. n # "none"
    BY BatchConstants
<1> QED BY <1>2, <1>3

(* Writing the sidecar of a new batch keeps the invariant.                    *)
LEMMA WriteSidecarKeepsIInv == ASSUME IInv, WriteSidecar PROVE IInv'
<1>0. PICK d \in JobRecord : d = job["drain"] /\ Place("drain", d)
    BY JobsAre
<1> DEFINE r == [d EXCEPT !.pc = "poll"]
           s == [name |-> "live", version |-> d.version]
<1>1. "drain" \in Jobs /\ d.pc = "write"
    BY <1>0, JobsAre DEF WriteSidecar
<1>2. r \in JobRecord /\ job' = [job EXCEPT !["drain"] = r]
    BY <1>0, <1>1, GotoIsAMove DEF WriteSidecar
<1>3. d.b \in Batches /\ batch[d.b].state # "none"
    BY <1>0, <1>1 DEF Place, Steps
<1>4. s \in SidecarRecord /\ s.name = "live" /\ "live" \notin FailedStates
    BY <1>0, BatchConstants DEF SidecarRecord, JobRecord
<1>5. sidecar' = [sidecar EXCEPT ![d.b] = s] /\ UNCHANGED <<label, batch, History>>
    BY <1>0 DEF WriteSidecar
<1>6. sidecar'[d.b].name = "live"
    BY <1>3, <1>4, <1>5 DEF IInv, TablesOK
<1>7. r.pc = "poll" /\ r.todo = d.todo /\ r.b = d.b /\ r.drained = d.drained
    BY <1>0 DEF JobRecord
<1>8. Place("drain", r)'
    <2> HIDE DEF r, s
    <2>1. (r.pc \in Steps => r.b \in Batches /\ batch[r.b].state # "none")'
        BY <1>3, <1>5, <1>7
    <2>2. (\A c \in r.todo : batch[c].state # "none")'
        BY <1>0, <1>5, <1>7 DEF Place
    <2>3. (r.pc = "poll" => sidecar[r.b].name # "none")'
        BY <1>6, <1>7
    <2>4. Submitting(r)' = Submitting(d)
        BY <1>1, <1>5, <1>7 DEF Submitting
    <2>5. (Limit # None => r.drained + Submitting(r) <= Limit)'
        BY <1>0, <1>7, <2>4 DEF Place
    <2> QED BY <1>7, <2>1, <2>2, <2>3, <2>5 DEF Place
<1> HIDE DEF r, s
<1> QED BY <1>1, <1>2, <1>3, <1>4, <1>5, <1>8, SidecarMoves

(* A job that is not there stands anywhere, also after a step.                *)
LEMMA NoJobPlacedNext == ASSUME NEW j \in Jobs PROVE Place(j, NoJob)'
BY BatchConstants DEF Place, NoJob, Submitting, Steps

(* A job between two batches is in place.                                     *)
LEMMA BetweenBatches ==
    ASSUME IInv, UNCHANGED batch, NEW j \in Jobs, NEW d \in JobRecord, d = job[j],
           NEW pc \in {"top", "next", "idle"}
    PROVE  /\ [d EXCEPT !.pc = pc] \in JobRecord
           /\ Place(j, [d EXCEPT !.pc = pc]) /\ Place(j, [d EXCEPT !.pc = pc])'
           /\ Goto(j, pc) => job' = [job EXCEPT ![j] = [d EXCEPT !.pc = pc]]
<1> DEFINE r == [d EXCEPT !.pc = pc]
<1>0. Place(j, d)
    BY JobsAre
<1>1. r.pc = pc /\ r.todo = d.todo /\ r.drained = d.drained /\ r.drained \in Nat
    BY DEF JobRecord
<1>2. Submitting(d) \in Nat
    <2>1. d.pc \in Steps => Len(batch[d.b].rows) \in Nat
        BY <1>0, LenProperties DEF Place, IInv, TablesOK, BatchRecord
    <2> QED BY <2>1 DEF Submitting, Steps
<1>3. r \in JobRecord /\ (Goto(j, pc) => job' = [job EXCEPT ![j] = r])
    BY GotoIsAMove
<1> HIDE DEF r
<1>4. Place(j, r)
    BY <1>0, <1>1, <1>2, BatchConstants DEF Place, Submitting, Steps
<1>5. Place(j, r)'
    BY <1>1, <1>4 DEF Place, Submitting, Steps
<1> QED BY <1>3, <1>4, <1>5 DEF r

(* A job that passes over its batch, or ends, keeps the invariant.            *)
LEMMA Stays ==
    ASSUME IInv, UNCHANGED <<label, batch, sidecar, History>>, NEW j \in Jobs,
           PassOver(j) \/ End(j) \/ Goto(j, "next") \/ Goto(j, "top")
    PROVE  IInv'
<1>0. PICK d \in JobRecord : d = job[j]
    BY JobsAre
<1>1. {version', starts', resets', kills'} \subseteq Nat /\ UNCHANGED <<answered, tried>>
    BY Numbers DEF History
<1>2. CASE End(j)
    BY <1>1, <1>2, RecordsTyped, NoJobPlaced, OnlyJobMoves DEF End
<1>3. ASSUME NEW pc \in {"top", "next"}, Goto(j, pc) PROVE IInv'
    <2>1. /\ [d EXCEPT !.pc = pc] \in JobRecord
          /\ Place(j, [d EXCEPT !.pc = pc]) /\ Place(j, [d EXCEPT !.pc = pc])'
          /\ job' = [job EXCEPT ![j] = [d EXCEPT !.pc = pc]]
        <3>1. UNCHANGED batch /\ pc \in {"top", "next", "idle"}
            OBVIOUS
        <3>2. [d EXCEPT !.pc = pc] \in JobRecord
            BY <1>0, <3>1, BetweenBatches
        <3>3. Place(j, [d EXCEPT !.pc = pc])
            BY <1>0, <3>1, BetweenBatches
        <3>4. Place(j, [d EXCEPT !.pc = pc])'
            BY <1>0, <3>1, BetweenBatches
        <3>5. job' = [job EXCEPT ![j] = [d EXCEPT !.pc = pc]]
            BY <1>0, <1>3, <3>1, BetweenBatches
        <3> QED BY <3>2, <3>3, <3>4, <3>5
    <2> QED BY <1>1, <2>1, OnlyJobMoves
<1> QED BY <1>2, <1>3 DEF PassOver

(* The same with a sidecar renamed. *)
LEMMA StaysRenamed ==
    ASSUME IInv, UNCHANGED <<label, batch, History>>, NEW j \in Jobs,
           PassOver(j) \/ End(j) \/ Goto(j, "next") \/ Goto(j, "top"),
           NEW b \in Batches, NEW n \in {"live", "ingested"} \cup FailedStates,
           sidecar' = [sidecar EXCEPT ![b].name = n],
           batch[b].state # "none",
           n \in FailedStates => batch[b].state = n,
           n = "ingested" => batch[b].state = "completed" /\ tried[b] = DOMAIN batch[b].rows
    PROVE  IInv'
<1>0. PICK d \in JobRecord : d = job[j]
    BY JobsAre
<1>1. PICK s \in SidecarRecord : s.name = n /\ s.name # "none" /\ sidecar' = [sidecar EXCEPT ![b] = s]
    BY Named
<1>2. CASE End(j)
    BY <1>1, <1>2, RecordsTyped, NoJobPlacedNext, SidecarMoves DEF End
<1>3. ASSUME NEW pc \in {"top", "next"}, Goto(j, pc) PROVE IInv'
    <2>1. /\ [d EXCEPT !.pc = pc] \in JobRecord
          /\ Place(j, [d EXCEPT !.pc = pc]) /\ Place(j, [d EXCEPT !.pc = pc])'
          /\ job' = [job EXCEPT ![j] = [d EXCEPT !.pc = pc]]
        <3>1. UNCHANGED batch /\ pc \in {"top", "next", "idle"}
            OBVIOUS
        <3>2. [d EXCEPT !.pc = pc] \in JobRecord
            BY <1>0, <3>1, BetweenBatches
        <3>3. Place(j, [d EXCEPT !.pc = pc])
            BY <1>0, <3>1, BetweenBatches
        <3>4. Place(j, [d EXCEPT !.pc = pc])'
            BY <1>0, <3>1, BetweenBatches
        <3>5. job' = [job EXCEPT ![j] = [d EXCEPT !.pc = pc]]
            BY <1>0, <1>3, <3>1, BetweenBatches
        <3> QED BY <3>2, <3>3, <3>4, <3>5
    <2> QED BY <1>1, <2>1, SidecarMoves
<1> QED BY <1>2, <1>3 DEF PassOver

(* A job that is to load its batch is in place.                               *)
LEMMA ToLoad ==
    ASSUME IInv, UNCHANGED batch, NEW j \in Jobs, NEW d \in JobRecord, d = job[j],
           <<j, d.pc>> \in {<<"drain", "poll">>, <<"ingest", "unmark">>}
    PROVE  /\ [d EXCEPT !.pc = "load"] \in JobRecord
           /\ Place(j, [d EXCEPT !.pc = "load"]) /\ Place(j, [d EXCEPT !.pc = "load"])'
           /\ Goto(j, "load") => job' = [job EXCEPT ![j] = [d EXCEPT !.pc = "load"]]
<1> DEFINE r == [d EXCEPT !.pc = "load"]
<1>0. Place(j, d)
    BY JobsAre
<1>1. r.pc = "load" /\ r.todo = d.todo /\ r.drained = d.drained /\ r.b = d.b
    BY DEF JobRecord
<1>2. r \in JobRecord /\ (Goto(j, "load") => job' = [job EXCEPT ![j] = r])
    BY GotoIsAMove
<1> HIDE DEF r
<1>3. Place(j, r)
    BY <1>0, <1>1 DEF Place, Submitting, Steps
<1>4. Place(j, r)'
    BY <1>1, <1>3 DEF Place, Submitting, Steps
<1> QED BY <1>2, <1>3, <1>4 DEF r

(* A poll keeps the invariant: a sidecar is renamed to the state the batch    *)
(* failed in.                                                                 *)
LEMMA PollKeepsIInv == ASSUME IInv, Poll PROVE IInv'
<1>0. PICK d \in JobRecord : d = job["drain"] /\ Place("drain", d)
    BY JobsAre
<1>1. /\ d.pc = "poll" /\ d.b \in Batches /\ batch[d.b].state # "none"
      /\ "drain" \in Jobs /\ UNCHANGED <<label, batch, History>>
    BY <1>0, JobsAre DEF Poll, Place, Steps
<1> DEFINE state == batch[d.b].state
<1>2. CASE ~ d.interrupt /\ state = "completed"
    <2>1. Goto("drain", "load") /\ UNCHANGED sidecar
        BY <1>0, <1>2, BatchConstants DEF Poll
    <2>2. /\ [d EXCEPT !.pc = "load"] \in JobRecord
          /\ job' = [job EXCEPT !["drain"] = [d EXCEPT !.pc = "load"]]
        BY <1>0, <1>1, <2>1, ToLoad
    <2>4. Place("drain", [d EXCEPT !.pc = "load"])
        BY <1>0, <1>1, ToLoad
    <2>3. {version', starts', resets', kills'} \subseteq Nat /\ UNCHANGED <<answered, tried>>
        BY <1>1, Numbers DEF History
    <2> QED BY <1>1, <2>1, <2>2, <2>3, <2>4, OnlyJobMoves
<1>3. CASE ~ (~ d.interrupt /\ state = "completed")
    <2>1. End("drain")
        BY <1>0, <1>3 DEF Poll
    <2>2. CASE UNCHANGED sidecar
        BY <1>1, <2>1, <2>2, Stays
    <2>3. CASE state \in FailedStates /\ sidecar' = [sidecar EXCEPT ![d.b].name = state]
        <3>1. state # "ingested"
            BY <2>3, BatchConstants
        <3> QED BY <1>1, <2>1, <2>3, <3>1, StaysRenamed
    <2> QED BY <1>0, <2>2, <2>3 DEF Poll
<1> QED BY <1>2, <1>3

(* An ingest that takes a mark off keeps the invariant.                       *)
LEMMA UnmarkKeepsIInv == ASSUME IInv, Unmark PROVE IInv'
<1>0. PICK d \in JobRecord : d = job["ingest"] /\ Place("ingest", d)
    BY JobsAre
<1>1. /\ d.pc = "unmark" /\ d.b \in Batches /\ batch[d.b].state # "none"
      /\ "ingest" \in Jobs /\ UNCHANGED <<label, batch, History>>
    BY <1>0, JobsAre DEF Unmark, Place, Steps
<1>2. {version', starts', resets', kills'} \subseteq Nat /\ UNCHANGED <<answered, tried>>
    BY <1>1, Numbers DEF History
<1>3. CASE sidecar[d.b].name \in FailedStates
    <2>1. sidecar[d.b].name # "ingested"
        BY <1>3, BatchConstants
    <2>2. Goto("ingest", "next") /\ UNCHANGED sidecar
        BY <1>0, <1>3, <2>1 DEF Unmark
    <2> QED BY <1>1, <2>2, Stays
<1>4. CASE sidecar[d.b].name \notin FailedStates
    <2>1. Goto("ingest", "load")
        BY <1>0, <1>4 DEF Unmark
    <2>2. /\ [d EXCEPT !.pc = "load"] \in JobRecord
          /\ Place("ingest", [d EXCEPT !.pc = "load"]) /\ Place("ingest", [d EXCEPT !.pc = "load"])'
          /\ job' = [job EXCEPT !["ingest"] = [d EXCEPT !.pc = "load"]]
        BY <1>0, <1>1, <2>1, ToLoad
    <2>3. CASE UNCHANGED sidecar
        BY <1>1, <1>2, <2>2, <2>3, OnlyJobMoves
    <2>4. CASE sidecar' = [sidecar EXCEPT ![d.b].name = "live"]
        <3>1. PICK s \in SidecarRecord : s.name = "live" /\ sidecar' = [sidecar EXCEPT ![d.b] = s]
            BY <1>1, <2>4, Named
        <3>2. "live" \notin FailedStates
            BY BatchConstants
        <3> QED BY <1>1, <2>2, <3>1, <3>2, SidecarMoves
    <2> QED BY <1>0, <2>3, <2>4 DEF Unmark
<1> QED BY <1>3, <1>4

(* Loading the results keeps the invariant: all rows are left to be tried.    *)
LEMMA LoadKeepsIInv == ASSUME IInv, NEW j \in Jobs, Load(j) PROVE IInv'
<1>0. PICK d \in JobRecord : d = job[j] /\ Place(j, d)
    BY JobsAre
<1>1. /\ d.pc = "load" /\ d.b \in Batches /\ batch[d.b].state # "none"
      /\ UNCHANGED <<label, batch, History>>
    BY <1>0 DEF Load, Place, Steps
<1> DEFINE b == d.b
<1>2. CASE sidecar[b].name # "live" \/ sidecar[b].version # d.version
    <2>1. PassOver(j) /\ UNCHANGED sidecar
        BY <1>0, <1>2 DEF Load
    <2> QED BY <1>1, <2>1, Stays
<1>3. CASE ~ (sidecar[b].name # "live" \/ sidecar[b].version # d.version)
    <2>1. CASE batch[b].state = "completed"
        <3> DEFINE r == [d EXCEPT !.pc = "rows", !.left = DOMAIN batch[b].rows]
        <3>1. job' = [job EXCEPT ![j].pc = "rows", ![j].left = DOMAIN batch[b].rows] /\ UNCHANGED sidecar
            BY <1>0, <1>3, <2>1 DEF Load
        <3>2. job' = [job EXCEPT ![j] = r]
            BY <1>0, <3>1 DEF IInv, JobsTyped
        <3>3. batch[b].rows \in Seq(Pages)
            BY <1>1 DEF IInv, TablesOK, BatchRecord
        <3>4. DOMAIN batch[b].rows \subseteq Nat
            BY <3>3
        <3>5. r \in JobRecord /\ r.pc = "rows" /\ r.left = DOMAIN batch[b].rows
              /\ r.b = b /\ r.todo = d.todo /\ r.drained = d.drained
            BY <3>4 DEF JobRecord
        <3>6. Place(j, r)
            <4> HIDE DEF r
            <4> QED BY <1>0, <1>1, <2>1, <3>5 DEF Place, Submitting, Steps
        <3>7. {version', starts', resets', kills'} \subseteq Nat /\ UNCHANGED <<answered, tried>>
            BY <1>1, Numbers DEF History
        <3> HIDE DEF r
        <3> QED BY <1>1, <3>1, <3>2, <3>5, <3>6, <3>7, OnlyJobMoves
    <2>2. CASE batch[b].state = "running"
        <3>1. End(j) /\ UNCHANGED sidecar
            BY <1>0, <1>3, <2>2 DEF Load
        <3> QED BY <1>1, <3>1, Stays
    <2>3. CASE batch[b].state # "completed" /\ batch[b].state # "running"
        <3>1. batch[b].state \in FailedStates /\ batch[b].state # "ingested"
            BY <1>1, <2>3, BatchConstants DEF IInv, TablesOK, BatchRecord, States
        <3>2. sidecar' = [sidecar EXCEPT ![b].name = batch[b].state] /\ (Goto(j, "top") \/ Goto(j, "next"))
            BY <1>0, <1>3, <2>3 DEF Load
        <3> QED BY <1>1, <3>1, <3>2, StaysRenamed
    <2> QED BY <2>1, <2>2, <2>3
<1> QED BY <1>2, <1>3

(* Marking a batch ingested keeps the invariant: no row is left.              *)
LEMMA MarkIngestedKeepsIInv == ASSUME IInv, NEW j \in Jobs, MarkIngested(j) PROVE IInv'
<1>0. PICK d \in JobRecord : d = job[j] /\ Place(j, d)
    BY JobsAre
<1> DEFINE b == d.b
<1>1. /\ d.pc = "rows" /\ d.left = {} /\ b \in Batches /\ batch[b].state = "completed"
      /\ UNCHANGED <<label, batch, History>>
    BY <1>0 DEF MarkIngested, Place, Steps
<1>2. tried[b] = DOMAIN batch[b].rows
    BY <1>0, <1>1 DEF Place, IInv, TriedOK
<1>3. CASE sidecar[b].name # "live"
    <2>1. PassOver(j) /\ UNCHANGED sidecar
        BY <1>0, <1>3 DEF MarkIngested
    <2> QED BY <1>1, <2>1, Stays
<1>4. CASE sidecar[b].name = "live"
    <2>1. sidecar' = [sidecar EXCEPT ![b].name = "ingested"]
        BY <1>0, <1>4 DEF MarkIngested
    <2>2. "ingested" \notin FailedStates
        BY BatchConstants
    <2>3. CASE j = "ingest"
        <3>1. Goto(j, "next")
            BY <1>0, <1>4, <2>3 DEF MarkIngested
        <3> QED BY <1>1, <1>2, <2>1, <2>2, <3>1, StaysRenamed
    <2>4. CASE j = "drain"
        <3> DEFINE n == IF Limit = None THEN 0 ELSE d.drained + Len(batch[b].rows)
                   r == [NoJob EXCEPT !.pc = "top", !.interrupt = d.interrupt,
                                      !.version = d.version, !.drained = n]
        <3>1. job' = [job EXCEPT ![j] = r]
            BY <1>0, <1>4, <2>4 DEF MarkIngested
        <3>2. n \in Nat /\ (Limit # None => n <= Limit)
            <4>1. Len(batch[b].rows) \in Nat /\ d.drained \in Nat
                BY <1>1, LenProperties DEF IInv, TablesOK, BatchRecord, JobRecord
            <4>2. Limit # None => d.drained + Len(batch[b].rows) <= Limit
                BY <1>0, <1>1, <2>4 DEF Place, Submitting
            <4> QED BY <4>1, <4>2
        <3> HIDE DEF n
        <3>3. r \in JobRecord /\ r.pc = "top" /\ r.todo = {} /\ r.drained = n
            BY <3>2, RecordsTyped DEF JobRecord, NoJob
        <3> HIDE DEF r
        <3>4. PICK q \in JobRecord : q = r
            BY <3>3
        <3>5. Place(j, q)'
            BY <3>2, <3>3, <3>4, BatchConstants DEF Place, Submitting, Steps
        <3>6. PICK s \in SidecarRecord : s.name = "ingested" /\ sidecar' = [sidecar EXCEPT ![b] = s]
            BY <1>1, <2>1, Named
        <3> QED BY <1>1, <1>2, <2>2, <3>1, <3>4, <3>5, <3>6, SidecarMoves
    <2> QED BY <2>3, <2>4, JobsAre
<1> QED BY <1>3, <1>4

-------------------------------------------------------------------------------
(* A row that is handed to the writer keeps the invariant, written or not: it *)
(* is tried, and its label is the answer to its page.                         *)
LEMMA HandedKeepsIInv ==
    ASSUME IInv, NEW j \in Jobs, NEW i, WriteResult(j, i) \/ WriterError(j, i)
    PROVE  IInv'
<1>0. PICK d \in JobRecord : d = job[j] /\ Place(j, d)
    BY JobsAre
<1> DEFINE b == d.b
           r == [d EXCEPT !.left = @ \ {i}]
<1>1. Handed(j, i)
    BY DEF WriteResult, WriterError
<1>2. /\ d.pc = "rows" /\ i \in d.left /\ b \in Batches /\ batch[b].state = "completed"
      /\ i \in DOMAIN batch[b].rows
    BY <1>0, <1>1 DEF Handed, Place, Steps
<1>3. /\ UNCHANGED <<batch, sidecar, version, answered, starts, resets, kills>>
      /\ tried' = [tried EXCEPT ![b] = @ \cup {i}]
    BY <1>0, <1>1 DEF Handed
<1>4. batch[b].rows \in Seq(Pages) /\ batch[b].answer \in Seq(Labels \cup {None})
      /\ Len(batch[b].answer) = Len(batch[b].rows) /\ i \in Nat
    BY <1>2 DEF IInv, TablesOK, BatchRecord
<1>5. batch[b].rows[i] \in Pages /\ batch[b].answer[i] \in Labels \cup {None}
    BY <1>2, <1>4, ElementOfSeq, LenProperties
<1>6. job' = [job EXCEPT ![j] = r]
    BY <1>0, <1>1 DEF Handed
<1>7. r \in JobRecord /\ r.pc = d.pc /\ r.b = b /\ r.todo = d.todo /\ r.drained = d.drained
      /\ r.left = d.left \ {i}
    BY DEF JobRecord
<1>8. tried' \in [Batches -> SUBSET Nat] /\ tried'[b] = tried[b] \cup {i}
      /\ \A c \in Batches : c # b => tried'[c] = tried[c]
    BY <1>2, <1>3, <1>4 DEF IInv, TablesOK
<1>9. Persist
    BY <1>2, <1>3, <1>8 DEF Persist
<1>10. Place(j, r)'
    <2> HIDE DEF r
    <2>1. DOMAIN batch[b].rows \ r.left \subseteq tried'[b]
        BY <1>0, <1>2, <1>7, <1>8 DEF Place
    <2>2. (r.pc \in Steps => r.b \in Batches /\ batch[r.b].state # "none")'
        BY <1>2, <1>3, <1>7
    <2>3. (r.pc = "rows" => /\ batch[r.b].state = "completed"
                            /\ r.left \subseteq DOMAIN batch[r.b].rows
                            /\ DOMAIN batch[r.b].rows \ r.left \subseteq tried[r.b])'
        BY <1>0, <1>2, <1>3, <1>7, <2>1 DEF Place
    <2>4. (\A c \in r.todo : batch[c].state # "none")'
        BY <1>0, <1>3, <1>7 DEF Place
    <2>5. (Limit # None /\ j = "drain" => r.drained + Submitting(r) <= Limit)'
        BY <1>0, <1>3, <1>7 DEF Place, Submitting
    <2> QED BY <1>2, <1>7, <2>2, <2>3, <2>4, <2>5 DEF Place
<1>11. JobsTyped' /\ PlacesOK'
    <2> HIDE DEF r
    <2> QED BY <1>6, <1>7, <1>9, <1>10, OneJobMoves
<1>12. /\ label' \in [Pages -> Labels \cup {None}]
       /\ \A p \in Pages : label'[p] = label[p]
            \/ (p = batch[b].rows[i] /\ label'[p] = batch[b].answer[i])
    BY <1>0, <1>5 DEF WriteResult, WriterError, IInv, TablesOK
<1>13. LabelsAreOwnAnswers'
    <2> SUFFICES ASSUME NEW p \in Pages, label'[p] # None PROVE label'[p] \in answered'[p]
        BY DEF LabelsAreOwnAnswers
    <2>1. CASE label'[p] = label[p]
        BY <1>3, <2>1 DEF IInv, LabelsAreOwnAnswers
    <2>2. CASE p = batch[b].rows[i] /\ label'[p] = batch[b].answer[i]
        BY <1>2, <1>3, <2>2 DEF IInv, AnswersOK
    <2> QED BY <1>12, <2>1, <2>2
<1>14. TablesOK'
    BY <1>3, <1>8, <1>12 DEF IInv, TablesOK
<1>15. (SidecarsOK /\ AnswersOK)'
    BY <1>3 DEF IInv, SidecarsOK, AnswersOK
<1>16. TriedOK'
    BY <1>2, <1>3, <1>8 DEF IInv, TriedOK
<1>17. IngestedIsComplete'
    <2> SUFFICES ASSUME NEW c \in Batches, sidecar'[c].name = "ingested"
                 PROVE  tried'[c] = DOMAIN batch'[c].rows
        BY DEF IngestedIsComplete, InState
    <2>1. tried[c] = DOMAIN batch[c].rows
        BY <1>3 DEF IInv, IngestedIsComplete, InState
    <2> QED BY <1>2, <1>3, <1>8, <2>1
<1> QED BY <1>11, <1>13, <1>14, <1>15, <1>16, <1>17 DEF IInv

(* The rows of a chunk: pages, no more of them than the chunk allows. *)
LEMMA ChunkRows ==
    ASSUME IInv, job["drain"].pc = "submit"
    PROVE  LET rows == InIdOrder(FirstOf(Unclassified, ThisChunk))
           IN  /\ rows \in Seq(Pages)
               /\ Limit # None => job["drain"].drained + Len(rows) <= Limit
<1> DEFINE d == job["drain"]
           S == Unclassified
           F == FirstOf(S, ThisChunk)
<1>1. d \in JobRecord /\ Place("drain", d)
    BY JobsAre
<1>2. d.drained \in Nat /\ (Limit # None => d.drained < Limit)
    BY <1>1 DEF JobRecord, Place
<1>3. ThisChunk \in Nat /\ (Limit # None => d.drained + ThisChunk <= Limit)
    BY <1>2, BatchConstants DEF ThisChunk
<1>4. IsFiniteSet(Pages) /\ Pages \in SUBSET Nat
    BY FS_Interval, BatchConstants DEF Pages
<1>5. S \in SUBSET Pages
    BY DEF Unclassified
<1>6. IsFiniteSet(S) /\ S \in SUBSET Nat
    BY <1>4, <1>5, FS_Subset
<1>7. F \in SUBSET S /\ IsFiniteSet(F) /\ Cardinality(F) \in Nat /\ Cardinality(F) <= ThisChunk
    <2> HIDE DEF S
    <2> QED BY <1>3, <1>6, FirstOfBound
<1>8. InIdOrder(F) \in Seq(F) /\ Len(InIdOrder(F)) = Cardinality(F)
    <2> HIDE DEF F
    <2>1. F \in SUBSET Nat
        BY <1>6, <1>7
    <2> QED BY <1>7, <2>1, InIdOrderLists
<1>9. InIdOrder(F) \in Seq(Pages)
    <2> HIDE DEF F, S
    <2> QED BY <1>5, <1>7, <1>8, SeqDef
<1>10. Limit # None => d.drained + Len(InIdOrder(F)) <= Limit
    <2> HIDE DEF F
    <2> QED BY <1>2, <1>3, <1>7, <1>8, BatchConstants
<1> QED BY <1>9, <1>10

(* A submit keeps the invariant: the chunk is cut to what the limit leaves.   *)
LEMMA SubmitKeepsIInv == ASSUME IInv, Submit PROVE IInv'
<1>0. PICK d \in JobRecord : d = job["drain"] /\ Place("drain", d)
    BY JobsAre
<1>1. d.pc = "submit" /\ "drain" \in Jobs /\ UNCHANGED <<label, sidecar, History>>
    BY <1>0, JobsAre DEF Submit
<1>2. PICK rows : rows = InIdOrder(FirstOf(Unclassified, ThisChunk))
    OBVIOUS
<1>3. rows \in Seq(Pages) /\ (Limit # None => d.drained + Len(rows) <= Limit)
    BY <1>0, <1>1, <1>2, ChunkRows
<1> DEFINE none == [i \in DOMAIN rows |-> None]
           new  == [rows |-> rows, state |-> "running", answer |-> none]
<1>4. PICK b \in Batches :
        /\ batch[b].state = "none" /\ batch' = [batch EXCEPT ![b] = new]
        /\ job' = [job EXCEPT !["drain"].pc = "write", !["drain"].b = b]
    BY <1>2 DEF Submit
<1>5. none \in Seq(Labels \cup {None}) /\ Len(none) = Len(rows)
    <2>1. DOMAIN rows = 1 .. Len(rows) /\ Len(rows) \in Nat
        BY <1>3, LenProperties
    <2>2. none \in [1 .. Len(rows) -> Labels \cup {None}]
        BY <2>1
    <2> HIDE DEF none
    <2>3. none \in Seq(Labels \cup {None})
        BY <2>1, <2>2, SeqDef
    <2> QED BY <2>1, <2>2, <2>3, LenProperties
<1>6. new \in BatchRecord /\ new.rows = rows /\ new.state = "running" /\ new.answer = none
    <2> HIDE DEF none
    <2> QED BY <1>3, <1>5 DEF BatchRecord, States
<1>7. batch' \in [Batches -> BatchRecord] /\ batch'[b] = new
      /\ \A c \in Batches : c # b => batch'[c] = batch[c]
    <2> HIDE DEF new
    <2> QED BY <1>4, <1>6 DEF IInv, TablesOK
<1>8. sidecar[b].name = "none" /\ tried[b] = {}
    BY <1>4 DEF IInv, SidecarsOK, TriedOK
<1>9. Persist
    BY <1>1, <1>4, <1>7 DEF Persist, History
<1> DEFINE r == [d EXCEPT !.pc = "write", !.b = b]
<1>10. r \in JobRecord /\ r.pc = "write" /\ r.b = b /\ r.todo = d.todo /\ r.drained = d.drained
    BY DEF JobRecord
<1>11. job' = [job EXCEPT !["drain"] = r]
    BY <1>0, <1>1, <1>4 DEF IInv, JobsTyped
<1> HIDE DEF r
<1>12. Place("drain", r)'
    <2> HIDE DEF new
    <2>1. (r.pc \in Steps => r.b \in Batches /\ batch[r.b].state # "none")'
        BY <1>6, <1>7, <1>10
    <2>2. d.todo \subseteq Batches
        BY DEF JobRecord
    <2>3. (\A c \in r.todo : batch[c].state # "none")'
        BY <1>0, <1>9, <1>10, <2>2 DEF Place, Persist
    <2>4. Submitting(r)' = Len(rows)
        BY <1>6, <1>7, <1>10 DEF Submitting
    <2>5. (Limit # None => r.drained + Submitting(r) <= Limit)'
        BY <1>3, <1>10, <2>4
    <2> QED BY <1>10, <2>1, <2>3, <2>5 DEF Place
<1>13. JobsTyped' /\ PlacesOK'
    BY <1>1, <1>9, <1>10, <1>11, <1>12, OneJobMoves
<1> HIDE DEF new
<1>14. TablesOK'
    <2>1. \A c \in Batches : Len(batch'[c].answer) = Len(batch'[c].rows)
        BY <1>5, <1>6, <1>7 DEF IInv, TablesOK
    <2> QED BY <1>1, <1>7, <2>1 DEF IInv, TablesOK, History
<1>15. SidecarsOK'
    <2>1. "none" \notin FailedStates
        BY BatchConstants
    <2> QED BY <1>1, <1>7, <1>8, <2>1 DEF IInv, SidecarsOK
<1>16. AnswersOK'
    BY <1>1, <1>6, <1>7 DEF IInv, AnswersOK, History
<1>17. TriedOK'
    BY <1>1, <1>6, <1>7, <1>8 DEF IInv, TriedOK, History
<1>18. LabelsAreOwnAnswers'
    BY <1>1 DEF IInv, LabelsAreOwnAnswers, History
<1>19. IngestedIsComplete'
    BY <1>1, <1>7, <1>8 DEF IInv, IngestedIsComplete, InState, History
<1> QED BY <1>13, <1>14, <1>15, <1>16, <1>17, <1>18, <1>19 DEF IInv

(* A batch that ends at the provider keeps the invariant: its answers are the *)
(* ones given for its rows.                                                   *)
LEMMA BatchEndsKeepsIInv == ASSUME IInv, NEW b \in Batches, BatchEnds(b) PROVE IInv'
<1>1. batch[b].state = "running" /\ UNCHANGED <<label, sidecar, job, version, tried, starts, resets, kills>>
    BY DEF BatchEnds
<1>2. PICK new \in BatchRecord :
        /\ batch' = [batch EXCEPT ![b] = new]
        /\ new.rows = batch[b].rows /\ new.state \in {"completed"} \cup FailedStates
        /\ Len(new.answer) = Len(new.rows)
        /\ answered' \in [Pages -> SUBSET Labels]
        /\ \A p \in Pages : answered[p] \subseteq answered'[p]
        /\ \A i \in DOMAIN new.rows : new.answer[i] # None => new.answer[i] \in answered'[new.rows[i]]
    <2> DEFINE old == batch[b]
    <2>0. /\ old \in BatchRecord /\ old.rows \in Seq(Pages) /\ Len(old.answer) = Len(old.rows)
          /\ answered \in [Pages -> SUBSET Labels]
        BY DEF IInv, TablesOK, BatchRecord
    <2>1. ASSUME NEW s \in FailedStates, batch' = [batch EXCEPT ![b].state = s], UNCHANGED answered
          PROVE  \E new \in BatchRecord :
            /\ batch' = [batch EXCEPT ![b] = new]
            /\ new.rows = batch[b].rows /\ new.state \in {"completed"} \cup FailedStates
            /\ Len(new.answer) = Len(new.rows)
            /\ answered' \in [Pages -> SUBSET Labels]
            /\ \A p \in Pages : answered[p] \subseteq answered'[p]
            /\ \A i \in DOMAIN new.rows : new.answer[i] # None => new.answer[i] \in answered'[new.rows[i]]
        <3> DEFINE new == [old EXCEPT !.state = s]
        <3>1. new \in BatchRecord /\ new.rows = old.rows /\ new.state = s /\ new.answer = old.answer
            BY <2>0 DEF BatchRecord, States
        <3>2. batch' = [batch EXCEPT ![b] = new]
            BY <2>1
        <3>3. \A i \in DOMAIN old.rows : old.answer[i] # None => old.answer[i] \in answered[old.rows[i]]
            BY DEF IInv, AnswersOK
        <3> HIDE DEF new
        <3> QED BY <2>0, <2>1, <3>1, <3>2, <3>3
    <2>2. ASSUME NEW answer \in [DOMAIN batch[b].rows -> Labels \cup {None}],
                 batch' = [batch EXCEPT ![b].state = "completed", ![b].answer = answer],
                 answered' = [p \in Pages |-> answered[p] \cup
                   {answer[i] : i \in {k \in DOMAIN answer : batch[b].rows[k] = p /\ answer[k] # None}}]
          PROVE  \E new \in BatchRecord :
            /\ batch' = [batch EXCEPT ![b] = new]
            /\ new.rows = batch[b].rows /\ new.state \in {"completed"} \cup FailedStates
            /\ Len(new.answer) = Len(new.rows)
            /\ answered' \in [Pages -> SUBSET Labels]
            /\ \A p \in Pages : answered[p] \subseteq answered'[p]
            /\ \A i \in DOMAIN new.rows : new.answer[i] # None => new.answer[i] \in answered'[new.rows[i]]
        <3> DEFINE new == [old EXCEPT !.state = "completed", !.answer = answer]
        <3>1. DOMAIN old.rows = 1 .. Len(old.rows) /\ Len(old.rows) \in Nat
            BY <2>0, LenProperties
        <3>2. answer \in Seq(Labels \cup {None}) /\ Len(answer) = Len(old.rows) /\ DOMAIN answer = DOMAIN old.rows
            <4>1. answer \in Seq(Labels \cup {None})
                BY <2>2, <3>1, SeqDef
            <4> QED BY <2>2, <3>1, <4>1, LenProperties
        <3>3. new \in BatchRecord /\ new.rows = old.rows /\ new.state = "completed" /\ new.answer = answer
            BY <2>0, <3>2 DEF BatchRecord, States
        <3>4. batch' = [batch EXCEPT ![b] = new]
            BY <2>2
        <3>5. answered' \in [Pages -> SUBSET Labels] /\ \A p \in Pages : answered[p] \subseteq answered'[p]
            BY <2>0, <2>2
        <3>6. \A i \in DOMAIN old.rows : old.rows[i] \in Pages
            BY <2>0, <3>1, ElementOfSeq
        <3>7. \A i \in DOMAIN old.rows : answer[i] # None => answer[i] \in answered'[old.rows[i]]
            BY <2>2, <3>2, <3>6
        <3> HIDE DEF new
        <3> QED BY <3>2, <3>3, <3>4, <3>5, <3>7
    <2> QED BY <2>1, <2>2 DEF BatchEnds
<1>3. batch' \in [Batches -> BatchRecord] /\ batch'[b] = new
      /\ \A c \in Batches : c # b => batch'[c] = batch[c]
    BY <1>2 DEF IInv, TablesOK
<1>4. new.state # "none"
    BY <1>2, BatchConstants
<1>5. Persist
    BY <1>1, <1>2, <1>3, <1>4 DEF Persist
<1>6. JobsTyped' /\ PlacesOK'
    BY <1>1, <1>5, JobsStay DEF IInv, JobsTyped, PlacesOK
<1>7. TablesOK'
    <2>1. \A c \in Batches : Len(batch'[c].answer) = Len(batch'[c].rows)
        BY <1>2, <1>3 DEF IInv, TablesOK
    <2> QED BY <1>1, <1>2, <1>3, <2>1 DEF IInv, TablesOK
<1>8. SidecarsOK'
    <2>1. sidecar[b].name \notin {"ingested"} \cup FailedStates
        BY <1>1, BatchConstants DEF IInv, SidecarsOK
    <2> QED BY <1>1, <1>3, <1>4, <2>1 DEF IInv, SidecarsOK
<1>9. AnswersOK'
    <2> SUFFICES ASSUME NEW c \in Batches, NEW i \in DOMAIN batch'[c].rows, batch'[c].answer[i] # None
                 PROVE  batch'[c].answer[i] \in answered'[batch'[c].rows[i]]
        BY DEF AnswersOK
    <2>1. CASE c = b
        BY <1>2, <1>3, <2>1
    <2>2. CASE c # b
        <3>1. batch[c].rows \in Seq(Pages)
            BY DEF IInv, TablesOK, BatchRecord
        <3>2. batch[c].rows[i] \in Pages
            BY <1>3, <2>2, <3>1, ElementOfSeq, LenProperties
        <3>3. batch[c].answer[i] \in answered[batch[c].rows[i]]
            BY <1>3, <2>2 DEF IInv, AnswersOK
        <3> QED BY <1>2, <1>3, <2>2, <3>2, <3>3
    <2> QED BY <2>1, <2>2
<1>10. TriedOK'
    BY <1>1, <1>2, <1>3, <1>4 DEF IInv, TriedOK
<1>11. LabelsAreOwnAnswers'
    BY <1>1, <1>2 DEF IInv, LabelsAreOwnAnswers
<1>12. IngestedIsComplete'
    BY <1>1, <1>2, <1>3 DEF IInv, IngestedIsComplete, InState
<1> QED BY <1>6, <1>7, <1>8, <1>9, <1>10, <1>11, <1>12 DEF IInv

(* A new prompt, and a reset of labels, keep the invariant.                   *)
LEMMA PromptAndResetKeepIInv == ASSUME IInv, NewPrompt \/ Reset PROVE IInv'
<1>1. UNCHANGED <<batch, sidecar, job, answered, tried, starts, kills>>
    BY DEF NewPrompt, Reset
<1>2. Persist
    BY <1>1 DEF Persist
<1>3. JobsTyped' /\ PlacesOK'
    BY <1>1, <1>2, JobsStay DEF IInv, JobsTyped, PlacesOK
<1>4. version' \in Nat /\ resets' \in Nat
    BY Numbers DEF NewPrompt, Reset
<1>5. label' \in [Pages -> Labels \cup {None}] /\ \A p \in Pages : label'[p] = label[p] \/ label'[p] = None
    BY DEF NewPrompt, Reset, IInv, TablesOK
<1>6. TablesOK' /\ LabelsAreOwnAnswers'
    BY <1>1, <1>4, <1>5 DEF IInv, TablesOK, LabelsAreOwnAnswers
<1>7. (SidecarsOK /\ AnswersOK /\ TriedOK /\ IngestedIsComplete)'
    BY <1>1 DEF IInv, SidecarsOK, AnswersOK, TriedOK, IngestedIsComplete, InState
<1> QED BY <1>3, <1>6, <1>7 DEF IInv

-------------------------------------------------------------------------------
(* The invariant holds at the start.                                          *)
LEMMA InitIInv == Init => IInv
<1> SUFFICES ASSUME Init PROVE IInv
    OBVIOUS
<1>1. "ingested" \notin FailedStates /\ "none" \notin FailedStates
    BY BatchConstants
<1>2. NoBatch.rows = <<>> /\ NoBatch.answer = <<>> /\ NoBatch.state = "none" /\ NoSidecar.name = "none"
      /\ NoSidecar.version = 0
    BY DEF NoBatch, NoSidecar
<1>3. DOMAIN <<>> = {}
    OBVIOUS
<1>4. TablesOK
    <2>1. batch \in [Batches -> BatchRecord] /\ \A b \in Batches : Len(batch[b].answer) = Len(batch[b].rows)
        BY <1>2, RecordsTyped DEF Init
    <2>2. NoSidecar \in [name : {"none", "live", "ingested"} \cup FailedStates, version : Nat]
        BY DEF NoSidecar
    <2> QED BY <2>1, <2>2 DEF Init, TablesOK
<1>5. SidecarsOK /\ IngestedIsComplete
    BY <1>1, <1>2 DEF Init, SidecarsOK, IngestedIsComplete, InState
<1>6. JobsTyped /\ PlacesOK
    BY RecordsTyped, NoJobPlaced DEF Init, JobsTyped, PlacesOK
<1>7. AnswersOK /\ TriedOK /\ LabelsAreOwnAnswers
    BY <1>2, <1>3 DEF Init, AnswersOK, TriedOK, LabelsAreOwnAnswers
<1> QED BY <1>4, <1>5, <1>6, <1>7 DEF IInv

(* Every step keeps the invariant.                                            *)
LEMMA NextIInv == IInv /\ [Next]_vars => IInv'
<1> SUFFICES ASSUME IInv, [Next]_vars PROVE IInv'
    OBVIOUS
<1>1. ASSUME NEW j \in Jobs, Ingest(j) PROVE IInv'
    BY <1>1, LoadKeepsIInv, MarkIngestedKeepsIInv, HandedKeepsIInv DEF Ingest
<1>2. CASE Drain
    BY <1>1, <1>2, JobsAre, TopKeepsIInv, SubmitKeepsIInv, OthersMoveAJob, WriteSidecarKeepsIInv, PollKeepsIInv
    DEF Drain
<1>3. CASE IngestAll
    BY <1>1, <1>3, JobsAre, NextBatchKeepsIInv, UnmarkKeepsIInv DEF IngestAll
<1>4. CASE StartDrain \/ \E force \in BOOLEAN : StartIngest(force)
    BY <1>4, StartDrainKeepsIInv, StartIngestKeepsIInv
<1>5. CASE \E b \in Batches : BatchEnds(b)
    BY <1>5, BatchEndsKeepsIInv
<1>6. CASE Interrupt \/ \E j \in Jobs : Kill(j)
    BY <1>6, OthersMoveAJob
<1>7. CASE NewPrompt \/ Reset
    BY <1>7, PromptAndResetKeepIInv
<1>8. CASE UNCHANGED vars
    <2>1. Persist
        BY <1>8 DEF vars, Persist
    <2>2. JobsTyped' /\ PlacesOK'
        BY <1>8, <2>1, JobsStay DEF vars, IInv, JobsTyped, PlacesOK
    <2> QED BY <1>8, <2>2 DEF vars, IInv, TablesOK, SidecarsOK, AnswersOK, TriedOK, LabelsAreOwnAnswers, IngestedIsComplete, InState
<1> QED BY <1>2, <1>3, <1>4, <1>5, <1>6, <1>7, <1>8 DEF Next

(* Every reachable state of the batches satisfies the invariant.              *)
THEOREM Invariant == Spec => []IInv
BY InitIInv, NextIInv, PTL DEF Spec

(* The invariant has the types.                                               *)
LEMMA IInvGivesTypeOK == IInv => TypeOK
<1> SUFFICES ASSUME IInv PROVE TypeOK
    OBVIOUS
<1>1. \A j \in Jobs : job[j] \in JobRecord /\ Place(j, job[j])
    BY JobsAre
<1>2. "drain" \in Jobs
    BY JobsAre
<1>3. JobsOK
    BY <1>1, <1>2 DEF JobsOK, IInv, JobsTyped, Place, Steps
<1> QED BY <1>3 DEF TypeOK, IInv

(* Labels, batches, sidecars and jobs keep their ranges.                      *)
THEOREM TypeCorrect == Spec => []TypeOK
BY Invariant, IInvGivesTypeOK, PTL

(* The label of a page is one the model gave for that page, whatever jobs     *)
(* raced, were killed or repeated, and however the prompt changed.            *)
THEOREM LabelsAnswered == Spec => []LabelsAreOwnAnswers
<1>1. IInv => LabelsAreOwnAnswers
    BY DEF IInv
<1> QED BY <1>1, Invariant, PTL

(* A sidecar is marked ingested only if the batch completed and every row of  *)
(* it was tried.                                                              *)
THEOREM IngestedWhole == Spec => []IngestedIsComplete
<1>1. IInv => IngestedIsComplete
    BY DEF IInv
<1> QED BY <1>1, Invariant, PTL

(* A drain never submits more rows than its limit, for every chunk and every  *)
(* limit.                                                                     *)
THEOREM LimitKept == Spec => []WithinLimit
<1>1. IInv => WithinLimit
    BY JobsAre DEF WithinLimit, Place, Submitting
<1> QED BY <1>1, Invariant, PTL
================================================================================
