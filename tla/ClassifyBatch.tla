----------------------------- MODULE ClassifyBatch ------------------------------
(***************************************************************************)
(* classify --batch: URL labels by the batch API of a provider.            *)
(*   drain    submit a chunk, poll, ingest the answers, again until the    *)
(*            queue or --limit is drained (run_batch)                      *)
(*   ingest   ingest one batch, or every live one of a directory, of an    *)
(*            earlier drain (_run_classify_ingest)                         *)
(* A sidecar file per batch remembers what each request id stands for; its *)
(* name says what became of the batch.  Both commands may run at once and  *)
(* be killed between any two steps: a call of the provider, a file written *)
(* or renamed, one row stored.                                             *)
(*                                                                         *)
(* The provider is external: a batch comes to one of its final states at   *)
(* any time, with an answer for each request or none.                      *)
(***************************************************************************)
EXTENDS Integers, Sequences, FiniteSets

CONSTANTS
    None,
    NumPages,     \* pages, numbered by id
    Labels,       \* the labels the prompt allows
    Batches,      \* batch ids
    ChunkSize,    \* --chunk-size
    Limit,        \* --limit, or None
    FailedStates, \* final states of a batch without results: failed, expired, cancelled
    MaxVersion,   \* bound: prompt versions
    MaxStarts,    \* bound: commands started
    MaxResets,    \* bound: classify --reset
    MaxKills      \* bound: processes killed

Pages == 1 .. NumPages
Jobs  == {"drain", "ingest"}

ASSUME BatchConstants ==
    /\ NumPages \in Nat /\ ChunkSize \in Nat \ {0}
    /\ Limit \in Nat \cup {None}
    /\ None \notin Labels
    /\ FailedStates \subseteq {"failed", "expired", "cancelled"}

VARIABLES
    label,      \* content_type of each page
    batch,      \* the provider's batches: request i is about page rows[i]
    sidecar,    \* the file of each batch: its suffix, and the version it was sent under
    job,        \* the two commands
    version,    \* PROMPT_VERSION
    answered,   \* history: the answers ever given for each page
    tried,      \* history: requests of each batch whose result was handed to the writer
    starts, resets, kills

vars == <<label, batch, sidecar, job, version, answered, tried, starts, resets, kills>>

NoBatch   == [rows |-> <<>>, state |-> "none", answer |-> <<>>]
NoSidecar == [name |-> "none", version |-> 0]
NoJob == [pc |-> "idle", b |-> None, todo |-> {}, left |-> {}, interrupt |-> FALSE,
          force |-> FALSE, drained |-> 0, version |-> 1]

Init ==
    /\ label = [p \in Pages |-> None]
    /\ batch = [b \in Batches |-> NoBatch]
    /\ sidecar = [b \in Batches |-> NoSidecar]
    /\ job = [j \in Jobs |-> NoJob]
    /\ version = 1
    /\ answered = [p \in Pages |-> {}]
    /\ tried = [b \in Batches |-> {}]
    /\ starts = 0 /\ resets = 0 /\ kills = 0

History == <<version, answered, tried, starts, resets, kills>>

End(j)       == job' = [job EXCEPT ![j] = NoJob]
Goto(j, pc)  == job' = [job EXCEPT ![j].pc = pc]
(* An exception ends the drain; ingest passes over the batch. *)
PassOver(j)  == IF j = "drain" THEN End(j) ELSE Goto(j, "next")

Begin(j, record) ==
    /\ job[j].pc = "idle"
    /\ starts < MaxStarts
    /\ starts' = starts + 1
    /\ job' = [job EXCEPT ![j] = record]
    /\ UNCHANGED <<label, batch, sidecar, version, answered, tried, resets, kills>>

(* get_unclassified: the first pages of the queue. *)
Unclassified == {p \in Pages : label[p] = None}
FirstOf(S, n) == {p \in S : Cardinality({q \in S : q < p}) < n}
InIdOrder(S) == [i \in 1 .. Cardinality(S) |->
                    CHOOSE p \in S : Cardinality({q \in S : q < p}) = i - 1]

(* Mutant: the last chunk is a whole one. *)
ThisChunkWhole == ChunkSize
ThisChunk ==
    IF Limit # None /\ Limit - job["drain"].drained < ChunkSize
    THEN Limit - job["drain"].drained ELSE ChunkSize

-------------------------------------------------------------------------------
(* run_batch. *)

StartDrain == Begin("drain", [NoJob EXCEPT !.pc = "top", !.version = version])

(* The loop is left when asked to, at the limit and when nothing is queued. *)
Top ==
    LET d == job["drain"]
    IN  /\ d.pc = "top"
        /\ IF \/ d.interrupt
              \/ Limit # None /\ d.drained >= Limit
              \/ Unclassified = {}
           THEN End("drain") ELSE Goto("drain", "submit")
        /\ UNCHANGED <<label, batch, sidecar, History>>

(* The provider takes the batch.  An empty queue, read again, is an error, as *)
(* is any refusal but the enqueue limit, which is waited out.                 *)
Submit ==
    LET rows == InIdOrder(FirstOf(Unclassified, ThisChunk))
    IN  /\ job["drain"].pc = "submit" /\ ~ job["drain"].interrupt
        /\ rows # <<>>
        /\ \E b \in Batches :
             /\ batch[b].state = "none"
             /\ batch' = [batch EXCEPT ![b] = [rows |-> rows, state |-> "running",
                                              answer |-> [i \in DOMAIN rows |-> None]]]
             /\ job' = [job EXCEPT !["drain"].pc = "write", !["drain"].b = b]
        /\ UNCHANGED <<label, sidecar, History>>

SubmitFails ==
    /\ job["drain"].pc = "submit"
    /\ End("drain")
    /\ UNCHANGED <<label, batch, sidecar, History>>

(* The sidecar is written after the provider has the batch. *)
WriteSidecar ==
    LET d == job["drain"]
    IN  /\ d.pc = "write"
        /\ sidecar' = [sidecar EXCEPT ![d.b] = [name |-> "live", version |-> d.version]]
        /\ Goto("drain", "poll")
        /\ UNCHANGED <<label, batch, History>>

(* A failed batch has its sidecar renamed, if it is still there, and ends the *)
(* command; a running one is polled again.                                    *)
Poll ==
    LET d == job["drain"]
        state == batch[d.b].state
    IN  /\ d.pc = "poll"
        /\ d.interrupt \/ state # "running"
        /\ IF ~ d.interrupt /\ state = "completed" THEN Goto("drain", "load") ELSE End("drain")
        /\ sidecar' = IF ~ d.interrupt /\ state \in FailedStates /\ sidecar[d.b].name = "live"
                      THEN [sidecar EXCEPT ![d.b].name = state] ELSE sidecar
        /\ UNCHANGED <<label, batch, History>>

-------------------------------------------------------------------------------
(* _run_classify_ingest. *)

InState(names) == {b \in Batches : sidecar[b].name \in names}

StartIngest(force) ==
    \E ids \in {InState(IF force THEN {"live", "ingested"} ELSE {"live"})}
               \cup {{b} : b \in {c \in Batches : sidecar[c].name # "none"}} :
        /\ ids # {}
        /\ Begin("ingest", [NoJob EXCEPT !.pc = "next", !.todo = ids, !.force = force,
                                         !.version = version])

NextBatch ==
    LET g == job["ingest"]
    IN  /\ g.pc = "next"
        /\ IF g.todo = {} THEN End("ingest")
           ELSE \E b \in g.todo :
                  job' = [job EXCEPT !["ingest"].b = b, !["ingest"].todo = @ \ {b},
                                     !["ingest"].pc = IF g.force THEN "unmark" ELSE "load"]
        /\ UNCHANGED <<label, batch, sidecar, History>>

(* --force takes the suffix ingested off, and no other. *)
Unmark ==
    LET b == job["ingest"].b
    IN  /\ job["ingest"].pc = "unmark"
        /\ Goto("ingest", IF sidecar[b].name \in FailedStates THEN "next" ELSE "load")
        /\ sidecar' = IF sidecar[b].name = "ingested" THEN [sidecar EXCEPT ![b].name = "live"]
                      ELSE sidecar
        /\ UNCHANGED <<label, batch, History>>

-------------------------------------------------------------------------------
(* ingest_batch, by either command. *)

(* load_sidecar refuses a sidecar with a suffix or of another version; the     *)
(* state of the batch is asked for, and one that failed has its sidecar        *)
(* renamed.  One that still runs is an error no one catches.                   *)
Load(j) ==
    LET b == job[j].b
    IN  /\ job[j].pc = "load"
        /\ IF sidecar[b].name # "live" \/ sidecar[b].version # job[j].version
           THEN PassOver(j) /\ UNCHANGED sidecar
           ELSE CASE batch[b].state = "completed" ->
                       /\ job' = [job EXCEPT ![j].pc = "rows", ![j].left = DOMAIN batch[b].rows]
                       /\ UNCHANGED sidecar
                  [] batch[b].state = "running" -> End(j) /\ UNCHANGED sidecar
                  [] OTHER -> /\ sidecar' = [sidecar EXCEPT ![b].name = batch[b].state]
                              /\ Goto(j, IF j = "drain" THEN "top" ELSE "next")
        /\ UNCHANGED <<label, batch, History>>

Handed(j, i) ==
    /\ job[j].pc = "rows" /\ i \in job[j].left
    /\ job' = [job EXCEPT ![j].left = @ \ {i}]
    /\ tried' = [tried EXCEPT ![job[j].b] = @ \cup {i}]
    /\ UNCHANGED <<batch, sidecar, version, answered, starts, resets, kills>>

(* Results come in any order and are told apart by their request id.  An       *)
(* answer is written with its audit row; an error, an empty text or a label     *)
(* that does not exist is logged.                                              *)
(* Mutant: results are taken to come in the order of the requests.             *)
WriteResultByOrder(j, i) ==
    LET b == batch[job[j].b]
        nth == Len(b.rows) - Cardinality(job[j].left) + 1
    IN  /\ Handed(j, i)
        /\ label' = IF b.answer[i] = None THEN label
                    ELSE [label EXCEPT ![b.rows[nth]] = b.answer[i]]
WriteResult(j, i) ==
    LET b == batch[job[j].b]
    IN  /\ Handed(j, i)
        /\ label' = IF b.answer[i] = None THEN label
                    ELSE [label EXCEPT ![b.rows[i]] = b.answer[i]]

(* A writer that raises does not end the loop. *)
WriterError(j, i) == Handed(j, i) /\ UNCHANGED label

(* mark_ingested; when the other command was first the file is not there.      *)
(* Mutant: any sidecar that was loaded is marked, whatever was left.           *)
MarkIngestedEarly(j) ==
    /\ job[j].pc = "rows"
    /\ sidecar' = [sidecar EXCEPT ![job[j].b].name = "ingested"]
    /\ PassOver(j)
    /\ UNCHANGED <<label, batch, History>>
MarkIngested(j) ==
    LET b == job[j].b
        drained == job[j].drained + Len(batch[b].rows)
    IN  /\ job[j].pc = "rows" /\ job[j].left = {}
        /\ IF sidecar[b].name # "live" THEN PassOver(j) /\ UNCHANGED sidecar
           ELSE /\ sidecar' = [sidecar EXCEPT ![b].name = "ingested"]
                /\ IF j = "ingest" THEN Goto(j, "next")
                   ELSE job' = [job EXCEPT ![j] = [NoJob EXCEPT !.pc = "top",
                                  !.interrupt = job[j].interrupt, !.version = job[j].version,
                                  !.drained = IF Limit = None THEN 0 ELSE drained]]
        /\ UNCHANGED <<label, batch, History>>

-------------------------------------------------------------------------------
(* The provider and the operator. *)

(* External: a batch ends.  Any of its requests may go without an answer. *)
BatchEnds(b) ==
    /\ batch[b].state = "running"
    /\ \/ /\ \E s \in FailedStates : batch' = [batch EXCEPT ![b].state = s]
          /\ UNCHANGED answered
       \/ \E answer \in [DOMAIN batch[b].rows -> Labels \cup {None}] :
            /\ batch' = [batch EXCEPT ![b].state = "completed", ![b].answer = answer]
            /\ answered' = [p \in Pages |-> answered[p] \cup
                 {answer[i] : i \in {k \in DOMAIN answer : batch[b].rows[k] = p /\ answer[k] # None}}]
    /\ UNCHANGED <<label, sidecar, job, version, tried, starts, resets, kills>>

Interrupt ==
    /\ job["drain"].pc # "idle" /\ ~ job["drain"].interrupt
    /\ job' = [job EXCEPT !["drain"].interrupt = TRUE]
    /\ UNCHANGED <<label, batch, sidecar, History>>

Kill(j) ==
    /\ job[j].pc # "idle" /\ kills < MaxKills
    /\ End(j)
    /\ kills' = kills + 1
    /\ UNCHANGED <<label, batch, sidecar, version, answered, tried, starts, resets>>

NewPrompt ==
    /\ version < MaxVersion
    /\ version' = version + 1
    /\ UNCHANGED <<label, batch, sidecar, job, answered, tried, starts, resets, kills>>

(* classify --reset *)
Reset ==
    /\ resets < MaxResets
    /\ \E p \in Pages : label[p] # None
    /\ label' = [p \in Pages |-> None]
    /\ resets' = resets + 1
    /\ UNCHANGED <<batch, sidecar, job, version, answered, tried, starts, kills>>

Ingest(j) == \/ Load(j) \/ MarkIngested(j)
             \/ \E i \in job[j].left : WriteResult(j, i) \/ WriterError(j, i)
Drain     == Top \/ Submit \/ SubmitFails \/ WriteSidecar \/ Poll \/ Ingest("drain")
IngestAll == NextBatch \/ Unmark \/ Ingest("ingest")

Next ==
    \/ Drain \/ IngestAll
    \/ StartDrain \/ \E force \in BOOLEAN : StartIngest(force)
    \/ \E b \in Batches : BatchEnds(b)
    \/ Interrupt \/ NewPrompt \/ Reset
    \/ \E j \in Jobs : Kill(j)

Spec == Init /\ [][Next]_vars

-------------------------------------------------------------------------------
(* Type invariant, with what the names of sidecars and the places of the        *)
(* commands say of the batches: a sidecar stands for a batch the provider has,  *)
(* and results are read of a completed one.                                     *)
States == {"running", "completed"} \cup FailedStates
BatchRecord == [rows : Seq(Pages), state : States \cup {"none"}, answer : Seq(Labels \cup {None})]
JobRecord ==
    [pc : {"idle", "top", "submit", "write", "poll", "next", "unmark", "load", "rows"},
     b : Batches \cup {None}, todo : SUBSET Batches, left : SUBSET Nat, interrupt : BOOLEAN,
     force : BOOLEAN, drained : Nat, version : Nat]

TablesOK ==
    /\ label \in [Pages -> Labels \cup {None}]
    /\ batch \in [Batches -> BatchRecord]
    /\ \A b \in Batches : Len(batch[b].answer) = Len(batch[b].rows)
    /\ sidecar \in [Batches -> [name : {"none", "live", "ingested"} \cup FailedStates, version : Nat]]
    /\ answered \in [Pages -> SUBSET Labels]
    /\ tried \in [Batches -> SUBSET Nat]
    /\ {version, starts, resets, kills} \subseteq Nat
SidecarsOK == \A b \in Batches :
    /\ sidecar[b].name # "none" => batch[b].state # "none"
    /\ sidecar[b].name \in FailedStates => batch[b].state = sidecar[b].name
    /\ sidecar[b].name = "ingested" => batch[b].state = "completed"
JobsOK ==
    /\ job \in [Jobs -> JobRecord]
    /\ \A j \in Jobs : LET b == job[j].b IN
         /\ job[j].pc \in {"write", "poll", "unmark", "load", "rows"}
                => b \in Batches /\ batch[b].state # "none"
         /\ job[j].pc = "rows" => batch[b].state = "completed" /\ job[j].left \subseteq DOMAIN batch[b].rows
         /\ \A c \in job[j].todo : batch[c].state # "none"
    /\ job["drain"].pc = "poll" => sidecar[job["drain"].b].name # "none"
TypeOK == TablesOK /\ SidecarsOK /\ JobsOK

(* A label the batches wrote was answered for that very page, whatever the     *)
(* order of the results, and whichever command or version ingested them.       *)
LabelsAreOwnAnswers == \A p \in Pages : label[p] # None => label[p] \in answered[p]

(* A sidecar is called ingested only when every result of its batch was        *)
(* handed to the writer: a kill, an error or the other command never makes a   *)
(* half-ingested batch look done.                                              *)
IngestedIsComplete ==
    \A b \in InState({"ingested"}) : tried[b] = DOMAIN batch[b].rows

(* --limit is the most one drain submits.                                      *)
WithinLimit ==
    LET d == job["drain"]
    IN  Limit # None => d.drained + (IF d.pc \in {"write", "poll", "load", "rows"}
                                     THEN Len(batch[d.b].rows) ELSE 0) <= Limit
================================================================================
