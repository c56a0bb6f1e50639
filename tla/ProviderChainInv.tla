--------------------------- MODULE ProviderChainInv ---------------------------
(***************************************************************************)
(* The inductive invariant behind the safety properties of ProviderChain:  *)
(* how far the loop over the packs, the chunks and the recording have      *)
(* come, and what the meter and the breaker know at that point.            *)
(***************************************************************************)
EXTENDS ProviderChain

InLoop == pc \in {"pack", "charge", "call"}

\* The packs before `at' are behind the loop, each item of them with a result.
LoopInv ==
    /\ resolved \subseteq paid /\ resolved \cap parked = {}
    /\ InLoop =>
          /\ from <= at
          /\ resolved \cup parked = {i \in Chunk : i < at}
    /\ pc = "record" /\ stage # "combine" => resolved \cup parked = Chunk
    /\ pc = "record" /\ stage = "combine" => Chunk = {}

\* Nothing at or behind the position of the pass is answered or recorded.
OrderInv ==
    /\ pc = "stage" => \A i \in paid : i < from
    /\ InLoop => \A i \in paid : i < at /\ i < from + ChunkOf
    /\ pc = "record" /\ stage # "combine" => \A i \in paid : i < from + ChunkOf
    /\ pc = "stage" \/ InLoop => \A i \in Items \ Pending : i < from
    /\ pc = "record" /\ stage # "combine" => \A i \in Items \ Pending : i < from + ChunkOf

\* The answers of the pass are with the stage or in the call, until recorded.
AnswerInv ==
    /\ InLoop => paid \subseteq answers \cup resolved
    /\ pc \in {"stage", "record"} => paid \subseteq answers
    /\ \A i \in paid \ Pending : row[i] = "answered"
    /\ stage # "combine" => paid \cap Pending \subseteq Chunk
    /\ pc = "stage" /\ stage # "combine" => paid \cap Pending = {}

\* Without a signal the loop leaves no item out.
SentInv ==
    /\ pc = "call" => Pack \subseteq sent
    /\ ~event =>
          /\ InLoop => \A i \in Chunk : i < at => i \in sent
          /\ pc = "record" /\ stage # "combine" => Chunk \subseteq sent
          /\ stage = "combine" /\ (InLoop \/ pc \in {"stage", "record"}) =>
                \A i \in Pending : i < from => i \in sent

\* The meter has all that was sent; the breaker counts no more than has failed.
MeterInv ==
    /\ billed = spent
    /\ cap # NoCap => spent <= cap
    /\ InLoop => failures < BreakerLimit /\ failures <= streak
    /\ ~event \/ pc = "charge" => late = 0

IInv ==
    /\ TypeOK
    /\ LoopInv
    /\ OrderInv
    /\ AnswerInv
    /\ SentInv
    /\ MeterInv
    /\ AnswersSurvive
    /\ BilledWithinCap
    /\ AbortHasCause
    /\ StopsAfterCancel
===============================================================================
