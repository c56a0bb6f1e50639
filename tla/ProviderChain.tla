----------------------------- MODULE ProviderChain -----------------------------
(***************************************************************************)
(* A pass of a run's stage over the items it hands to the LLM tier, and    *)
(* the chain that asks for them (worker/providers.py, worker/cost.py).     *)
(*                                                                         *)
(* The stage calls `resolve' once for each chunk of its queue.  A call     *)
(* splits its chunk into packs and sends one request for each, retried on  *)
(* transient errors; a pack that keeps failing is parked, three in a row   *)
(* or a fatal error abort the run.  Each pack of a metered tier is charged *)
(* to the run's meter before it is sent, and the cancel signal is read     *)
(* between packs.  The stages differ in what they do with a result:        *)
(*   map, connect   record every item of the chunk before the next chunk;  *)
(*   extract        the same, a chunk is one page, and the cancel signal   *)
(*                  is read before each page;                              *)
(*   combine        keep the answers of all chunks, then record all items. *)
(* An item without an answer is recorded too (minted, abstained or parked  *)
(* for review): its row is settled, "flagged".                             *)
(*                                                                         *)
(* Items are numbered in the order of the queue.  Token counts and price   *)
(* tables are the set Prices a pack may cost when it is sent.  A pass may  *)
(* stop anywhere with the process; the next pass takes what is pending,    *)
(* with a new chain and a new meter.                                       *)
(***************************************************************************)
EXTENDS Naturals

CONSTANTS
    NumItems,      \* items the run's stage hands to the chain
    RunStages,     \* the stages runs are created for
    ChunkSize,     \* base.CHUNK_SIZE
    PackSize,      \* DEFAULT_PACK_SIZE
    MaxTries,      \* _MAX_LLM_ATTEMPTS
    BreakerLimit,  \* _CONSECUTIVE_FAIL_ABORT
    Prices,        \* what a metered pack may cost
    Caps,          \* the values of jobs.max_cost_cents
    NoCap,         \* its value when the run has none
    MaxPasses      \* bound: passes (restarts and retries) of the run

ASSUME ConstantsOK ==
    /\ NumItems \in Nat
    /\ RunStages \subseteq {"map", "connect", "combine", "extract"}
    /\ ChunkSize \in Nat \ {0}
    /\ PackSize \in Nat \ {0}
    /\ MaxTries \in Nat \ {0}
    /\ BreakerLimit \in Nat \ {0}
    /\ Prices \subseteq Nat \ {0}
    /\ NoCap \notin Nat
    /\ Caps \subseteq Nat \cup {NoCap}
    /\ MaxPasses \in Nat

Items == 1 .. NumItems

VARIABLES
    stage,     \* jobs.stage
    metered,   \* the tier costs money
    cap,       \* jobs.max_cost_cents
    row,       \* what is recorded of each item
    outcome,   \* "running", or how the pass ended
    event,     \* JobControl.event: the pass was asked to stop
    pc,        \* program point of the thread
    from,      \* first item of the chunk at hand
    at,        \* first item of the pack at hand
    try,       \* number of the request for this pack
    failures,  \* consecutive_failures
    resolved,  \* answers of this call
    parked,    \* items this call gave up on
    answers,   \* answers the stage holds to record
    spent,     \* CostMeter.spent_cents
    passes,    \* passes begun
    sent,      \* history: items that were in a request of this pass
    paid,      \* history: items this pass got an answer for
    billed,    \* history: the prices of all packs this pass sent
    streak,    \* history: packs of this pass that failed in a row
    late       \* history: packs first sent after the pass was asked to stop

job      == <<stage, metered, cap>>
chain    == <<at, try, failures, resolved, parked>>
history  == <<sent, paid, billed, streak, late>>
vars     == <<job, row, outcome, event, pc, from, chain, answers, spent, passes, history>>

Pending == {i \in Items : row[i] = "pending"}

\* extract-recipe calls the chain for one page at a time, with packs of one.
ChunkOf == IF stage = "extract" THEN 1 ELSE ChunkSize
PackOf  == IF stage = "extract" THEN 1 ELSE PackSize

Chunk == {i \in Items : from <= i /\ i < from + ChunkOf}
\* Mutant: the slice takes one item too many.
PackOneMore == {i \in Chunk : at <= i /\ i <= at + PackOf}

Pack  == {i \in Chunk : at <= i /\ i < at + PackOf}

Unasked == {i \in Chunk : at <= i}   \* the packs the loop has not come to

\* What the provider is working on.
InFlight == IF pc = "call" THEN Pack ELSE {}

-----------------------------------------------------------------------------

Init ==
    /\ stage \in RunStages /\ metered \in BOOLEAN /\ cap \in Caps
    /\ row = [i \in Items |-> "pending"]
    /\ outcome = "running" /\ event = FALSE /\ pc = "stage" /\ passes = 1
    /\ from = 1 /\ at = 1 /\ try = 0 /\ failures = 0
    /\ resolved = {} /\ parked = {} /\ answers = {} /\ spent = 0
    /\ sent = {} /\ paid = {} /\ billed = 0 /\ streak = 0 /\ late = 0

Running == outcome = "running"

\* An operator cancels the run, or a poll of jobs.state finds it cancelling.
Cancel ==
    /\ Running /\ ~event
    /\ event' = TRUE
    /\ UNCHANGED <<job, row, outcome, pc, from, chain, answers, spent, passes, history>>

-----------------------------------------------------------------------------
(* The chain.                                                              *)

\* The stage hands the next chunk to resolve(); extract reads the cancel
\* signal first.
CallResolve ==
    /\ Running /\ pc = "stage" /\ Chunk # {}
    /\ ~(stage = "extract" /\ event)
    /\ pc' = "pack"
    /\ at' = from /\ failures' = 0 /\ resolved' = {} /\ parked' = {}
    /\ UNCHANGED <<job, row, outcome, event, from, try, answers, spent, passes, history>>

\* Mutant: the loop over the packs does not ask.
NextPackAnyway ==
    /\ Running /\ pc = "pack" /\ Unasked # {}
    /\ pc' = "charge"
    /\ UNCHANGED <<job, row, outcome, event, from, chain, answers, spent, passes, history>>

\* The head of the loop over the packs, not asked to stop.
NextPack ==
    /\ Running /\ pc = "pack" /\ Unasked # {} /\ ~event
    /\ pc' = "charge"
    /\ UNCHANGED <<job, row, outcome, event, from, chain, answers, spent, passes, history>>

\* The pack is sent for the first time.
Send(price) ==
    /\ pc' = "call" /\ try' = 1
    /\ sent' = sent \cup Pack
    /\ billed' = billed + price
    /\ late' = IF event THEN late + 1 ELSE late
    /\ UNCHANGED <<job, row, outcome, event, from, at, failures, resolved, parked, answers,
                   passes, paid, streak>>

\* Mutant: the meter looks at what is spent, not at what would be.
BreachesLate(price) == cap # NoCap /\ spent > cap

\* CostMeter.charge raises instead of recording.
Breaches(price) == cap # NoCap /\ spent + price > cap

SendFree ==
    /\ Running /\ pc = "charge" /\ ~metered
    /\ Send(0)
    /\ UNCHANGED spent

ChargeAndSend ==
    /\ Running /\ pc = "charge" /\ metered
    /\ \E price \in Prices :
          /\ ~Breaches(price)
          /\ spent' = spent + price
          /\ Send(price)

\* An exception that no stage catches ends the pass with the rows as they are.
Abort(code) ==
    /\ outcome' = code /\ pc' = "ended" /\ try' = 0
    /\ UNCHANGED <<job, row, event, from, at, resolved, answers, spent, passes,
                   sent, paid, billed, late>>

CapExceeded ==
    /\ Running /\ pc = "charge" /\ metered
    /\ \E price \in Prices : Breaches(price)
    /\ Abort("cost_cap_exceeded")
    /\ UNCHANGED <<failures, parked, streak>>

\* A reply.  It may lack items, and name others than the pack's: only the
\* pack's own are looked up.
Take(reply) ==
    /\ resolved' = resolved \cup (Pack \cap reply)
    /\ parked' = parked \cup (Pack \ reply)
    /\ paid' = paid \cup (Pack \cap reply)

Answer ==
    /\ Running /\ pc = "call"
    /\ \E reply \in SUBSET Items : Take(reply)
    /\ failures' = 0 /\ streak' = 0 /\ try' = 0
    /\ at' = at + PackOf /\ pc' = "pack"
    /\ UNCHANGED <<job, row, outcome, event, from, answers, spent, passes,
                   sent, billed, late>>

\* A transient error with tries left: sleep and send again, without a charge.
Retry ==
    /\ Running /\ pc = "call" /\ try < MaxTries
    /\ try' = try + 1
    /\ UNCHANGED <<job, row, outcome, event, pc, from, at, failures, resolved, parked,
                   answers, spent, passes, history>>

\* A transient error on the last try.
PackFails ==
    /\ Running /\ pc = "call" /\ try = MaxTries
    /\ failures' = failures + 1 /\ streak' = streak + 1
    /\ parked' = parked \cup Pack

ParkPack ==
    /\ PackFails
    /\ failures' < BreakerLimit
    /\ at' = at + PackOf /\ pc' = "pack" /\ try' = 0
    /\ UNCHANGED <<job, row, outcome, event, from, resolved, answers, spent, passes,
                   sent, paid, billed, late>>

BreakerTrips ==
    /\ PackFails
    /\ failures' >= BreakerLimit
    /\ Abort("provider_unavailable")

FatalError ==
    /\ Running /\ pc = "call"
    /\ Abort("provider_refused")
    /\ UNCHANGED <<failures, parked, streak>>

\* Mutant: the stage keeps the answers of the last call only.
ReturnLast ==
    /\ Running /\ pc = "pack"
    /\ Unasked = {} \/ event
    /\ parked' = parked \cup Unasked
    /\ answers' = resolved
    /\ IF stage = "combine" THEN pc' = "stage" /\ from' = from + ChunkOf
                            ELSE pc' = "record" /\ UNCHANGED from
    /\ UNCHANGED <<job, row, outcome, event, at, try, failures, resolved, spent, passes,
                   history>>

\* The end of the loop, or its break when asked to stop: what no pack covered
\* is parked, and the stage has the result.
Return ==
    /\ Running /\ pc = "pack"
    /\ Unasked = {} \/ event
    /\ parked' = parked \cup Unasked
    /\ answers' = answers \cup resolved
    /\ IF stage = "combine" THEN pc' = "stage" /\ from' = from + ChunkOf
                            ELSE pc' = "record" /\ UNCHANGED from
    /\ UNCHANGED <<job, row, outcome, event, at, try, failures, resolved, spent, passes,
                   history>>

-----------------------------------------------------------------------------
(* The stage.                                                              *)

\* combine has asked for all chunks.
StartRecording ==
    /\ Running /\ pc = "stage" /\ stage = "combine" /\ Chunk = {} /\ Pending # {}
    /\ pc' = "record"
    /\ UNCHANGED <<job, row, outcome, event, from, chain, answers, spent, passes, history>>

\* The items to record at this point: the chunk's, or all of them.
ToRecord == {i \in Pending : stage = "combine" \/ i \in Chunk}

\* The first of them is recorded.
Record ==
    /\ Running /\ pc = "record"
    /\ \E i \in ToRecord :
          /\ \A j \in ToRecord : i <= j
          /\ row' = [row EXCEPT ![i] = IF i \in answers THEN "answered" ELSE "flagged"]
    /\ UNCHANGED <<job, outcome, event, pc, from, chain, answers, spent, passes, history>>

NextChunk ==
    /\ Running /\ pc = "record" /\ ToRecord = {}
    /\ pc' = "stage"
    /\ from' = IF stage = "combine" THEN from ELSE from + ChunkOf
    /\ resolved' = {} /\ parked' = {}
    /\ UNCHANGED <<job, row, outcome, event, at, try, failures, answers, spent, passes, history>>

\* Mutant: the stage waits to be through when it was asked to stop.
FinalizeAtEnd ==
    /\ Running /\ pc = "stage"
    /\ Chunk = {} /\ (stage = "combine" => Pending = {})
    /\ outcome' = IF event THEN "cancelled" ELSE "done"
    /\ pc' = "ended"
    /\ UNCHANGED <<job, row, event, from, chain, answers, spent, passes, history>>

\* The stage returns: it is through, or extract was asked to stop.
Finalize ==
    /\ Running /\ pc = "stage"
    /\ \/ Chunk = {} /\ (stage = "combine" => Pending = {})
       \/ stage = "extract" /\ event
    /\ outcome' = IF event THEN "cancelled" ELSE "done"
    /\ pc' = "ended"
    /\ UNCHANGED <<job, row, event, from, chain, answers, spent, passes, history>>

\* The process stopped and requeued the run, or an operator retries it when it
\* has ended: a new chain over what is pending.
NewPass ==
    /\ passes < MaxPasses /\ passes' = passes + 1
    /\ from' \in 1 .. NumItems + 1
    /\ \A i \in Items : i < from' <=> i \notin Pending
    /\ outcome' = "running" /\ event' = FALSE /\ pc' = "stage"
    /\ at' = 1 /\ try' = 0 /\ failures' = 0
    /\ resolved' = {} /\ parked' = {} /\ answers' = {} /\ spent' = 0
    /\ sent' = {} /\ paid' = {} /\ billed' = 0 /\ streak' = 0 /\ late' = 0
    /\ UNCHANGED <<job, row>>

-----------------------------------------------------------------------------

Step ==
    \/ CallResolve \/ NextPack \/ SendFree \/ ChargeAndSend \/ CapExceeded
    \/ Answer \/ Retry \/ ParkPack \/ BreakerTrips \/ FatalError \/ Return
    \/ StartRecording \/ Record \/ NextChunk \/ Finalize

Next == Step \/ Cancel \/ NewPass

Spec == Init /\ [][Next]_vars

\* The executor thread goes on; a provider answers or fails, each of its
\* clients has a timeout.
FairSpec == Spec /\ WF_vars(Step)

-----------------------------------------------------------------------------
(* Properties.                                                             *)

Outcomes == {"running", "done", "cancelled", "cost_cap_exceeded",
             "provider_unavailable", "provider_refused"}

\* The job row, the chain's locals and the stage's memory are typed, the tries
\* of a pack stay within _MAX_LLM_ATTEMPTS and the pass has ended exactly when
\* the thread has.
TypeOK ==
    /\ stage \in RunStages /\ metered \in BOOLEAN /\ cap \in Caps
    /\ row \in [Items -> {"pending", "answered", "flagged"}]
    /\ outcome \in Outcomes /\ event \in BOOLEAN
    /\ pc \in {"stage", "pack", "charge", "call", "record", "ended"}
    /\ pc = "ended" <=> outcome # "running"
    /\ from \in Nat \ {0} /\ at \in Nat \ {0}
    /\ try \in 0 .. MaxTries /\ failures \in 0 .. BreakerLimit
    /\ resolved \subseteq Items /\ parked \subseteq Items /\ answers \subseteq Items
    /\ spent \in Nat /\ passes \in Nat
    /\ sent \subseteq Items /\ paid \subseteq Items
    /\ billed \in Nat /\ streak \in Nat /\ late \in Nat

\* The result of resolve() splits the chunk: each item is resolved, by an answer
\* to a request it was in, or parked, and none is both (ChainResult).
ResolvePartitions ==
    /\ resolved \subseteq paid /\ resolved \cap parked = {}
    /\ pc = "record" /\ stage # "combine" => resolved \cup parked = Chunk

\* No answer is lost: a pass that is done or cancelled has recorded all it got,
\* and one that was aborted (or stopped with the process) has failed to record
\* at most those of the chunk at hand.  Combine, which records after its last
\* chunk, is the exception of the second part.
AnswersSurvive ==
    /\ outcome \in {"done", "cancelled"} => \A i \in paid : row[i] = "answered"
    /\ stage # "combine" => paid \cap Pending \subseteq Chunk

\* The provider is not asked again for what it answered in this pass, nor for an
\* item that has been recorded in any.
NeverAskedAgain == InFlight \cap (paid \cup (Items \ Pending)) = {}

\* The packs that were sent cost no more than the cap, over all calls of the
\* pass; free work is never stopped by it.
BilledWithinCap ==
    /\ cap # NoCap => billed <= cap
    /\ outcome = "cost_cap_exceeded" => metered

\* A run is given up as unavailable only after BreakerLimit packs in a row
\* failed: a pack that was answered in between starts the count again.
AbortHasCause == outcome = "provider_unavailable" => streak >= BreakerLimit

\* After the signal at most one more pack is sent, the one whose look at the
\* signal came before it, in whatever stage and however many chunks are left.
StopsAfterCancel == late <= 1

\* As long as nobody asked the pass to stop, an item is flagged only after the
\* provider was asked for it.
FlaggedForCause ==
    [][\A i \in Items :
          ~event /\ row[i] = "pending" /\ row'[i] = "flagged" => i \in sent]_vars

\* Every pass ends: done, cancelled or aborted.
EveryPassEnds == Running ~> ~Running

\* What providers.py says of a cancel: "the parked items stay pending for a
\* later re-run".  The code does not keep this: the stages record them.
ParkedStaysPending ==
    [][\A i \in Items : row[i] = "pending" /\ row'[i] = "flagged" => i \in sent]_vars

\* What providers.py says of the breaker: "too many consecutive pack failures
\* [...] aborts the whole run fast".  The code does not keep this: the count starts
\* anew with each call, and extract makes one for each page.
BreakerStopsTheRun == streak <= BreakerLimit
===============================================================================
