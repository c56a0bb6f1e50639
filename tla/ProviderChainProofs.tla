-------------------------- MODULE ProviderChainProofs --------------------------
(***************************************************************************)
(* Theorems about ProviderChain, for every number of items, chunk, pack    *)
(* and breaker size, price and cap.  IInv (in ProviderChainInv) is         *)
(* inductive: one lemma per action, one step per part of it.               *)
(***************************************************************************)
EXTENDS ProviderChainInv, TLAPS

\* Chunks and packs have items, and items are numbers from 1 on.
LEMMA Sizes ==
    ASSUME TypeOK
    PROVE  /\ ChunkOf \in Nat /\ ChunkOf >= 1
           /\ PackOf \in Nat /\ PackOf >= 1
           /\ \A i \in Items : i \in Nat /\ i >= 1
  BY ConstantsOK DEF ChunkOf, PackOf, Items

\* When no chunk is left, the position is behind all items.
LEMMA NoChunkLeft ==
    ASSUME TypeOK, Chunk = {}
    PROVE  \A i \in Items : i < from
  <1> SUFFICES ASSUME NEW i \in Items, from <= i PROVE FALSE
    BY Sizes DEF TypeOK
  <1>1. from \in Items
    BY ConstantsOK DEF TypeOK, Items
  <1>2. from \in Chunk
    BY <1>1, Sizes DEF Chunk
  <1> QED
    BY <1>2

\* The initial state has the invariant.
LEMMA InitInv ==
    ASSUME Init
    PROVE  IInv
  <1>1. TypeOK
    <2>1. /\ 0 \in 0 .. MaxTries /\ 0 \in 0 .. BreakerLimit
          /\ 0 \in Nat /\ 1 \in Nat \ {0}
      BY ConstantsOK
    <2> QED
      BY <2>1 DEF Init, TypeOK, Outcomes
  <1>2. LoopInv /\ OrderInv /\ AnswerInv /\ SentInv
    BY <1>1, Sizes DEF Init, LoopInv, OrderInv, AnswerInv, SentInv, InLoop, Pending
  <1>3. MeterInv
    BY ConstantsOK DEF Init, MeterInv
  <1>4. AnswersSurvive /\ BilledWithinCap /\ AbortHasCause /\ StopsAfterCancel
    BY ConstantsOK DEF Init, AnswersSurvive, BilledWithinCap, AbortHasCause, StopsAfterCancel
  <1> QED
    BY <1>1, <1>2, <1>3, <1>4 DEF IInv

\* A call of resolve() starts at the first pack of its chunk with no result.
LEMMA CallResolveKeeps ==
    ASSUME IInv, CallResolve
    PROVE  IInv'
  <1>0. TypeOK /\ LoopInv /\ OrderInv /\ AnswerInv /\ SentInv /\ MeterInv
    BY DEF IInv
  <1>1. TypeOK'
    BY <1>0, ConstantsOK DEF TypeOK, CallResolve, job, history
  <1>2. LoopInv'
    BY <1>0, Sizes DEF TypeOK, LoopInv, Chunk, CallResolve
  <1>3. OrderInv'
    BY <1>0, Sizes DEF TypeOK, OrderInv, Pending, ChunkOf, CallResolve, job, history
  <1>4. AnswerInv'
    BY <1>0 DEF AnswerInv, Pending, CallResolve, job, history
  <1>5. SentInv'
    BY <1>0, Sizes DEF TypeOK, SentInv, Pending, Chunk, CallResolve, job, history
  <1>6. MeterInv'
    BY <1>0, ConstantsOK DEF TypeOK, MeterInv, CallResolve, job, history
  <1>7. AnswersSurvive'
    BY <1>4 DEF AnswersSurvive, AnswerInv, CallResolve, Running
  <1>8. BilledWithinCap' /\ AbortHasCause' /\ StopsAfterCancel'
    BY DEF IInv, BilledWithinCap, AbortHasCause, StopsAfterCancel, CallResolve, job, history
  <1> QED
    BY <1>1, <1>2, <1>3, <1>4, <1>5, <1>6, <1>7, <1>8 DEF IInv

\* A look at the cancel signal moves nothing.
LEMMA NextPackKeeps ==
    ASSUME IInv, NextPack
    PROVE  IInv'
  <1>0. TypeOK /\ LoopInv /\ OrderInv /\ AnswerInv /\ SentInv /\ MeterInv
    BY DEF IInv
  <1>1. TypeOK'
    BY <1>0 DEF TypeOK, NextPack, job, chain, history
  <1>2. LoopInv'
    BY <1>0 DEF LoopInv, InLoop, Chunk, ChunkOf, NextPack, job, chain, history
  <1>3. OrderInv'
    BY <1>0 DEF OrderInv, Pending, InLoop, ChunkOf, NextPack, job, chain, history
  <1>4. AnswerInv'
    BY <1>0 DEF AnswerInv, Pending, InLoop, Chunk, ChunkOf, NextPack, job, chain, history
  <1>5. SentInv'
    BY <1>0 DEF SentInv, Pending, InLoop, Chunk, ChunkOf, NextPack, job, chain, history
  <1>6. MeterInv'
    BY <1>0 DEF MeterInv, InLoop, NextPack, job, chain, history
  <1>7. AnswersSurvive'
    BY <1>4 DEF AnswersSurvive, AnswerInv, NextPack, Running
  <1>8. BilledWithinCap' /\ AbortHasCause' /\ StopsAfterCancel'
    BY <1>6 DEF BilledWithinCap, AbortHasCause, StopsAfterCancel, MeterInv, NextPack, Running
  <1> QED
    BY <1>1, <1>2, <1>3, <1>4, <1>5, <1>6, <1>7, <1>8 DEF IInv

\* A pack of a free tier is sent: it joins what was sent, the meter stays.
LEMMA SendFreeKeeps ==
    ASSUME IInv, SendFree
    PROVE  IInv'
  <1>0. TypeOK /\ LoopInv /\ OrderInv /\ AnswerInv /\ SentInv /\ MeterInv
    BY DEF IInv
  <1>1. TypeOK'
    BY <1>0, ConstantsOK DEF TypeOK, Pack, Chunk, SendFree, Send, job
  <1>2. LoopInv'
    BY <1>0 DEF LoopInv, InLoop, Chunk, ChunkOf, SendFree, Send, job
  <1>3. OrderInv'
    BY <1>0 DEF OrderInv, Pending, InLoop, ChunkOf, SendFree, Send, job
  <1>4. AnswerInv'
    BY <1>0 DEF AnswerInv, Pending, InLoop, Chunk, ChunkOf, SendFree, Send, job
  <1>5. SentInv'
    BY <1>0 DEF SentInv, Pending, InLoop, Chunk, ChunkOf, Pack, PackOf, SendFree, Send, job
  <1>6. MeterInv'
    BY <1>0 DEF TypeOK, MeterInv, InLoop, SendFree, Send, job
  <1>7. AnswersSurvive'
    BY <1>4 DEF AnswersSurvive, AnswerInv, SendFree, Send, Running
  <1>8. BilledWithinCap' /\ AbortHasCause' /\ StopsAfterCancel'
    BY <1>0, <1>6 DEF BilledWithinCap, AbortHasCause, StopsAfterCancel, MeterInv, SendFree,
       Send, Running
  <1> QED
    BY <1>1, <1>2, <1>3, <1>4, <1>5, <1>6, <1>7, <1>8 DEF IInv

\* A pack of a metered tier is charged and sent within the cap.
LEMMA ChargeAndSendKeeps ==
    ASSUME IInv, ChargeAndSend
    PROVE  IInv'
  <1>0. TypeOK /\ LoopInv /\ OrderInv /\ AnswerInv /\ SentInv /\ MeterInv
    BY DEF IInv
  <1>1. TypeOK'
    BY <1>0, ConstantsOK DEF TypeOK, Pack, Chunk, ChargeAndSend, Send, job
  <1>2. LoopInv'
    BY <1>0 DEF LoopInv, InLoop, Chunk, ChunkOf, ChargeAndSend, Send, job
  <1>3. OrderInv'
    BY <1>0 DEF OrderInv, Pending, InLoop, ChunkOf, ChargeAndSend, Send, job
  <1>4. AnswerInv'
    BY <1>0 DEF AnswerInv, Pending, InLoop, Chunk, ChunkOf, ChargeAndSend, Send, job
  <1>5. SentInv'
    BY <1>0 DEF SentInv, Pending, InLoop, Chunk, ChunkOf, Pack, PackOf, ChargeAndSend, Send,
       job
  <1>6. MeterInv'
    BY <1>0, ConstantsOK DEF TypeOK, MeterInv, InLoop, ChargeAndSend, Send, Breaches, job
  <1>7. AnswersSurvive'
    BY <1>4 DEF AnswersSurvive, AnswerInv, ChargeAndSend, Send, Running
  <1>8. BilledWithinCap' /\ AbortHasCause' /\ StopsAfterCancel'
    BY <1>0, <1>6 DEF BilledWithinCap, AbortHasCause, StopsAfterCancel, MeterInv,
       ChargeAndSend, Send, Running
  <1> QED
    BY <1>1, <1>2, <1>3, <1>4, <1>5, <1>6, <1>7, <1>8 DEF IInv

\* The abort before a charge that would breach the cap keeps the rows.
LEMMA CapExceededKeeps ==
    ASSUME IInv, CapExceeded
    PROVE  IInv'
  <1>0. TypeOK /\ LoopInv /\ OrderInv /\ AnswerInv /\ SentInv /\ MeterInv
    BY DEF IInv
  <1>1. TypeOK'
    BY <1>0, ConstantsOK DEF TypeOK, Outcomes, CapExceeded, Abort, job
  <1>2. LoopInv'
    BY <1>0 DEF LoopInv, InLoop, CapExceeded, Abort
  <1>3. OrderInv'
    BY DEF OrderInv, InLoop, CapExceeded, Abort
  <1>4. AnswerInv'
    BY <1>0 DEF AnswerInv, Pending, InLoop, Chunk, ChunkOf, CapExceeded, Abort, job
  <1>5. SentInv'
    BY DEF SentInv, InLoop, CapExceeded, Abort
  <1>6. MeterInv'
    BY <1>0 DEF MeterInv, InLoop, CapExceeded, Abort, job
  <1>7. AnswersSurvive'
    BY <1>4 DEF AnswersSurvive, AnswerInv, CapExceeded, Abort
  <1>8. BilledWithinCap' /\ AbortHasCause' /\ StopsAfterCancel'
    BY <1>0 DEF BilledWithinCap, AbortHasCause, StopsAfterCancel, MeterInv, CapExceeded,
       Abort, job
  <1> QED
    BY <1>1, <1>2, <1>3, <1>4, <1>5, <1>6, <1>7, <1>8 DEF IInv

\* A reply gives each item of the pack a result, and no other.
LEMMA AnswerKeeps ==
    ASSUME IInv, Answer
    PROVE  IInv'
  <1>0. TypeOK /\ LoopInv /\ OrderInv /\ AnswerInv /\ SentInv /\ MeterInv
    BY DEF IInv
  <1>1. TypeOK'
    BY <1>0, Sizes, ConstantsOK DEF TypeOK, Pack, Chunk, Answer, Take, job
  <1>2. LoopInv'
    BY <1>0, Sizes DEF TypeOK, LoopInv, InLoop, Chunk, ChunkOf, Pack, Answer, Take, job
  <1>3. OrderInv'
    BY <1>0, Sizes DEF TypeOK, OrderInv, Pending, InLoop, Chunk, ChunkOf, Pack, Answer, Take,
       job
  <1>4. AnswerInv'
    BY <1>0, Sizes DEF TypeOK, OrderInv, AnswerInv, Pending, InLoop, Chunk, ChunkOf, Pack,
       Answer, Take, job
  <1>5. SentInv'
    BY <1>0, Sizes DEF TypeOK, SentInv, Pending, InLoop, Chunk, ChunkOf, Pack, Answer, job
  <1>6. MeterInv'
    BY <1>0, ConstantsOK DEF MeterInv, Answer, job
  <1>7. AnswersSurvive'
    BY <1>4 DEF AnswersSurvive, AnswerInv, Answer, Running
  <1>8. BilledWithinCap' /\ AbortHasCause' /\ StopsAfterCancel'
    BY DEF IInv, BilledWithinCap, AbortHasCause, StopsAfterCancel, Answer, Running, job
  <1> QED
    BY <1>1, <1>2, <1>3, <1>4, <1>5, <1>6, <1>7, <1>8 DEF IInv

\* A further try of the pack changes its number only.
LEMMA RetryKeeps ==
    ASSUME IInv, Retry
    PROVE  IInv'
  <1>0. TypeOK /\ LoopInv /\ OrderInv /\ AnswerInv /\ SentInv /\ MeterInv
    BY DEF IInv
  <1>1. TypeOK'
    BY <1>0, ConstantsOK DEF TypeOK, Retry, job, history
  <1>2. LoopInv'
    BY <1>0 DEF LoopInv, InLoop, Chunk, ChunkOf, Retry, job, history
  <1>3. OrderInv'
    BY <1>0 DEF OrderInv, Pending, InLoop, ChunkOf, Retry, job, history
  <1>4. AnswerInv'
    BY <1>0 DEF AnswerInv, Pending, InLoop, Chunk, ChunkOf, Retry, job, history
  <1>5. SentInv'
    BY <1>0 DEF SentInv, Pending, InLoop, Chunk, ChunkOf, Pack, PackOf, Retry, job, history
  <1>6. MeterInv'
    BY <1>0 DEF MeterInv, InLoop, Retry, job, history
  <1>7. AnswersSurvive'
    BY <1>4 DEF AnswersSurvive, AnswerInv, Retry, Running
  <1>8. BilledWithinCap' /\ AbortHasCause' /\ StopsAfterCancel'
    BY DEF IInv, BilledWithinCap, AbortHasCause, StopsAfterCancel, Retry, job, history
  <1> QED
    BY <1>1, <1>2, <1>3, <1>4, <1>5, <1>6, <1>7, <1>8 DEF IInv

\* A failed pack is parked and counted by the breaker.
LEMMA ParkPackKeeps ==
    ASSUME IInv, ParkPack
    PROVE  IInv'
  <1>0. TypeOK /\ LoopInv /\ OrderInv /\ AnswerInv /\ SentInv /\ MeterInv
    BY DEF IInv
  <1>1. TypeOK'
    BY <1>0, Sizes, ConstantsOK DEF TypeOK, Pack, Chunk, ParkPack, PackFails, job
  <1>2. LoopInv'
    BY <1>0, Sizes DEF TypeOK, LoopInv, InLoop, Chunk, ChunkOf, Pack, ParkPack, PackFails, job
  <1>3. OrderInv'
    BY <1>0, Sizes DEF TypeOK, OrderInv, Pending, InLoop, ChunkOf, ParkPack, PackFails, job
  <1>4. AnswerInv'
    BY <1>0 DEF AnswerInv, Pending, InLoop, Chunk, ChunkOf, ParkPack, PackFails, job
  <1>5. SentInv'
    BY <1>0, Sizes DEF TypeOK, SentInv, Pending, InLoop, Chunk, ChunkOf, Pack, ParkPack,
       PackFails, job
  <1>6. MeterInv'
    BY <1>0 DEF TypeOK, MeterInv, InLoop, ParkPack, PackFails, job
  <1>7. AnswersSurvive'
    BY <1>4 DEF AnswersSurvive, AnswerInv, ParkPack, PackFails, Running
  <1>8. BilledWithinCap' /\ AbortHasCause' /\ StopsAfterCancel'
    BY DEF IInv, BilledWithinCap, AbortHasCause, StopsAfterCancel, ParkPack, PackFails,
       Running, job
  <1> QED
    BY <1>1, <1>2, <1>3, <1>4, <1>5, <1>6, <1>7, <1>8 DEF IInv

\* The breaker trips on no fewer failures than there were in a row.
LEMMA BreakerTripsKeeps ==
    ASSUME IInv, BreakerTrips
    PROVE  IInv'
  <1>0. TypeOK /\ LoopInv /\ OrderInv /\ AnswerInv /\ SentInv /\ MeterInv
    BY DEF IInv
  <1>1. TypeOK'
    BY <1>0, ConstantsOK DEF TypeOK, Outcomes, MeterInv, InLoop, Pack, Chunk, BreakerTrips,
       PackFails, Abort, job
  <1>2. LoopInv'
    BY <1>0, Sizes DEF TypeOK, LoopInv, InLoop, Pack, BreakerTrips, PackFails, Abort
  <1>3. OrderInv'
    BY DEF OrderInv, InLoop, BreakerTrips, Abort
  <1>4. AnswerInv'
    BY <1>0 DEF AnswerInv, Pending, InLoop, Chunk, ChunkOf, BreakerTrips, Abort, job
  <1>5. SentInv'
    BY DEF SentInv, InLoop, BreakerTrips, Abort
  <1>6. MeterInv'
    BY <1>0 DEF MeterInv, InLoop, BreakerTrips, Abort, job
  <1>7. AnswersSurvive'
    BY <1>4 DEF AnswersSurvive, AnswerInv, BreakerTrips, Abort
  <1>8. BilledWithinCap' /\ AbortHasCause' /\ StopsAfterCancel'
    BY <1>6, ConstantsOK DEF IInv, TypeOK, BilledWithinCap, AbortHasCause, StopsAfterCancel,
       MeterInv, InLoop, BreakerTrips, PackFails, Abort
  <1> QED
    BY <1>1, <1>2, <1>3, <1>4, <1>5, <1>6, <1>7, <1>8 DEF IInv

\* The abort on a fatal error keeps the rows.
LEMMA FatalErrorKeeps ==
    ASSUME IInv, FatalError
    PROVE  IInv'
  <1>0. TypeOK /\ LoopInv /\ OrderInv /\ AnswerInv /\ SentInv /\ MeterInv
    BY DEF IInv
  <1>1. TypeOK'
    BY <1>0, ConstantsOK DEF TypeOK, Outcomes, FatalError, Abort, job
  <1>2. LoopInv'
    BY <1>0 DEF LoopInv, InLoop, FatalError, Abort
  <1>3. OrderInv'
    BY DEF OrderInv, InLoop, FatalError, Abort
  <1>4. AnswerInv'
    BY <1>0 DEF AnswerInv, Pending, InLoop, Chunk, ChunkOf, FatalError, Abort, job
  <1>5. SentInv'
    BY DEF SentInv, InLoop, FatalError, Abort
  <1>6. MeterInv'
    BY <1>0 DEF MeterInv, InLoop, FatalError, Abort, job
  <1>7. AnswersSurvive'
    BY <1>4 DEF AnswersSurvive, AnswerInv, FatalError, Abort
  <1>8. BilledWithinCap' /\ AbortHasCause' /\ StopsAfterCancel'
    BY DEF IInv, BilledWithinCap, AbortHasCause, StopsAfterCancel, FatalError, Abort, job
  <1> QED
    BY <1>1, <1>2, <1>3, <1>4, <1>5, <1>6, <1>7, <1>8 DEF IInv

\* The result of a call covers its chunk and goes to the stage.
LEMMA ReturnKeeps ==
    ASSUME IInv, Return
    PROVE  IInv'
  <1>0. TypeOK /\ LoopInv /\ OrderInv /\ AnswerInv /\ SentInv /\ MeterInv
    BY DEF IInv
  <1>1. TypeOK'
    BY <1>0, Sizes DEF TypeOK, Chunk, Return, Unasked, job, history
  <1>2. LoopInv'
    BY <1>0, Sizes DEF TypeOK, LoopInv, InLoop, Chunk, ChunkOf, Return, Unasked, job, history
  <1>3. OrderInv'
    BY <1>0, Sizes DEF TypeOK, OrderInv, Pending, InLoop, ChunkOf, Return, job, history
  <1>4. AnswerInv'
    BY <1>0 DEF AnswerInv, Pending, InLoop, Chunk, ChunkOf, Return, job, history
  <1>5. SentInv'
    BY <1>0, Sizes DEF TypeOK, SentInv, Pending, InLoop, Chunk, ChunkOf, Return, Unasked, job,
       history
  <1>6. MeterInv'
    BY <1>0 DEF MeterInv, InLoop, Return, job, history
  <1>7. AnswersSurvive'
    BY <1>4 DEF AnswersSurvive, AnswerInv, Return, Running
  <1>8. BilledWithinCap' /\ AbortHasCause' /\ StopsAfterCancel'
    BY DEF IInv, BilledWithinCap, AbortHasCause, StopsAfterCancel, Return, job, history
  <1> QED
    BY <1>1, <1>2, <1>3, <1>4, <1>5, <1>6, <1>7, <1>8 DEF IInv

\* combine starts to record when no chunk is left.
LEMMA StartRecordingKeeps ==
    ASSUME IInv, StartRecording
    PROVE  IInv'
  <1>0. TypeOK /\ LoopInv /\ OrderInv /\ AnswerInv /\ SentInv /\ MeterInv
    BY DEF IInv
  <1>1. TypeOK'
    BY <1>0 DEF TypeOK, StartRecording, job, chain, history
  <1>2. LoopInv'
    BY <1>0 DEF LoopInv, InLoop, Chunk, ChunkOf, StartRecording, job, chain, history
  <1>3. OrderInv'
    BY DEF OrderInv, InLoop, StartRecording, job
  <1>4. AnswerInv'
    BY <1>0 DEF AnswerInv, Pending, StartRecording, job, history
  <1>5. SentInv'
    BY <1>0 DEF SentInv, Pending, Chunk, ChunkOf, StartRecording, job, history
  <1>6. MeterInv'
    BY <1>0 DEF MeterInv, InLoop, StartRecording, job, history
  <1>7. AnswersSurvive'
    BY DEF AnswersSurvive, StartRecording, Running, job
  <1>8. BilledWithinCap' /\ AbortHasCause' /\ StopsAfterCancel'
    BY DEF IInv, BilledWithinCap, AbortHasCause, StopsAfterCancel, StartRecording, job,
       history
  <1> QED
    BY <1>1, <1>2, <1>3, <1>4, <1>5, <1>6, <1>7, <1>8 DEF IInv

\* The first open item is recorded with its answer, if it has one.
LEMMA RecordKeeps ==
    ASSUME IInv, Record
    PROVE  IInv'
  <1>0. TypeOK /\ LoopInv /\ OrderInv /\ AnswerInv /\ SentInv /\ MeterInv
    BY DEF IInv
  <1>1. TypeOK'
    BY <1>0 DEF TypeOK, Record, job, chain, history
  <1>2. LoopInv'
    BY <1>0 DEF LoopInv, InLoop, Chunk, ChunkOf, Record, job, chain, history
  <1>3. OrderInv'
    BY <1>0 DEF OrderInv, Pending, InLoop, Chunk, ChunkOf, Record, ToRecord, job, history
  <1>4. AnswerInv'
    BY <1>0 DEF AnswerInv, Pending, Chunk, ChunkOf, Record, job, history
  <1>5. SentInv'
    BY <1>0 DEF SentInv, Pending, InLoop, Chunk, ChunkOf, Record, job, history
  <1>6. MeterInv'
    BY <1>0 DEF MeterInv, InLoop, Record, job, history
  <1>7. AnswersSurvive'
    BY <1>4 DEF AnswersSurvive, AnswerInv, Record, Running
  <1>8. BilledWithinCap' /\ AbortHasCause' /\ StopsAfterCancel'
    BY DEF IInv, BilledWithinCap, AbortHasCause, StopsAfterCancel, Record, job, history
  <1> QED
    BY <1>1, <1>2, <1>3, <1>4, <1>5, <1>6, <1>7, <1>8 DEF IInv

\* A recorded chunk is behind the stage.
LEMMA NextChunkKeeps ==
    ASSUME IInv, NextChunk
    PROVE  IInv'
  <1>0. TypeOK /\ LoopInv /\ OrderInv /\ AnswerInv /\ SentInv /\ MeterInv
    BY DEF IInv
  <1>1. TypeOK'
    BY <1>0, Sizes DEF TypeOK, NextChunk, job, history
  <1>2. LoopInv'
    BY DEF LoopInv, InLoop, NextChunk
  <1>3. OrderInv'
    BY <1>0, NoChunkLeft DEF TypeOK, LoopInv, OrderInv, Pending, InLoop, NextChunk, history
  <1>4. AnswerInv'
    BY <1>0 DEF AnswerInv, Pending, NextChunk, ToRecord, history
  <1>5. SentInv'
    BY <1>0 DEF SentInv, Pending, InLoop, NextChunk, job, history
  <1>6. MeterInv'
    BY <1>0 DEF MeterInv, InLoop, NextChunk, job, history
  <1>7. AnswersSurvive'
    BY <1>4 DEF AnswersSurvive, AnswerInv, NextChunk, Running
  <1>8. BilledWithinCap' /\ AbortHasCause' /\ StopsAfterCancel'
    BY DEF IInv, BilledWithinCap, AbortHasCause, StopsAfterCancel, NextChunk, job, history
  <1> QED
    BY <1>1, <1>2, <1>3, <1>4, <1>5, <1>6, <1>7, <1>8 DEF IInv

\* The stage returns with all it got recorded.
LEMMA FinalizeKeeps ==
    ASSUME IInv, Finalize
    PROVE  IInv'
  <1>0. TypeOK /\ LoopInv /\ OrderInv /\ AnswerInv /\ SentInv /\ MeterInv
    BY DEF IInv
  <1>1. TypeOK'
    BY <1>0 DEF TypeOK, Outcomes, Finalize, job, chain, history
  <1>2. LoopInv'
    BY <1>0 DEF LoopInv, InLoop, Finalize, chain, history
  <1>3. OrderInv'
    BY DEF OrderInv, InLoop, Finalize
  <1>4. AnswerInv'
    BY <1>0 DEF AnswerInv, Pending, Finalize, history
  <1>5. SentInv'
    BY DEF SentInv, InLoop, Finalize
  <1>6. MeterInv'
    BY <1>0 DEF MeterInv, InLoop, Finalize, job, history
  <1>7. AnswersSurvive'
    BY <1>0, <1>4 DEF AnswersSurvive, AnswerInv, Finalize, history
  <1>8. BilledWithinCap' /\ AbortHasCause' /\ StopsAfterCancel'
    BY DEF IInv, BilledWithinCap, AbortHasCause, StopsAfterCancel, Finalize, job, history
  <1> QED
    BY <1>1, <1>2, <1>3, <1>4, <1>5, <1>6, <1>7, <1>8 DEF IInv

\* The cancel signal moves nothing.
LEMMA CancelKeeps ==
    ASSUME IInv, Cancel
    PROVE  IInv'
  <1>0. TypeOK /\ LoopInv /\ OrderInv /\ AnswerInv /\ SentInv /\ MeterInv
    BY DEF IInv
  <1>1. TypeOK'
    BY <1>0 DEF TypeOK, Cancel, job, chain, history
  <1>2. LoopInv'
    BY <1>0 DEF LoopInv, InLoop, Chunk, ChunkOf, Cancel, job, chain, history
  <1>3. OrderInv'
    BY <1>0 DEF OrderInv, Pending, InLoop, ChunkOf, Cancel, job, chain, history
  <1>4. AnswerInv'
    BY <1>0 DEF AnswerInv, Pending, InLoop, Chunk, ChunkOf, Cancel, job, chain, history
  <1>5. SentInv'
    BY <1>0 DEF SentInv, Chunk, ChunkOf, Pack, PackOf, Cancel, job, chain, history
  <1>6. MeterInv'
    BY <1>0 DEF MeterInv, InLoop, Cancel, job, chain, history
  <1>7. AnswersSurvive'
    BY <1>4 DEF AnswersSurvive, AnswerInv, Cancel, Running
  <1>8. BilledWithinCap' /\ AbortHasCause' /\ StopsAfterCancel'
    BY <1>0, <1>6 DEF BilledWithinCap, AbortHasCause, StopsAfterCancel, MeterInv, Cancel,
       Running, history
  <1> QED
    BY <1>1, <1>2, <1>3, <1>4, <1>5, <1>6, <1>7, <1>8 DEF IInv

\* A new pass starts at the first pending item.
LEMMA NewPassKeeps ==
    ASSUME IInv, NewPass
    PROVE  IInv'
  <1>0. TypeOK /\ LoopInv /\ OrderInv /\ AnswerInv /\ SentInv /\ MeterInv
    BY DEF IInv
  <1>1. TypeOK'
    <2>1. /\ 0 \in 0 .. MaxTries /\ 0 \in 0 .. BreakerLimit
          /\ 0 \in Nat /\ 1 \in Nat \ {0}
      BY ConstantsOK
    <2>2. from' \in Nat \ {0} /\ passes' \in Nat
      BY <1>0 DEF TypeOK, NewPass
    <2> QED
      BY <1>0, <2>1, <2>2 DEF TypeOK, Outcomes, NewPass, job
  <1>2. LoopInv'
    BY DEF LoopInv, InLoop, NewPass
  <1>3. OrderInv'
    BY DEF OrderInv, Pending, NewPass
  <1>4. AnswerInv'
    BY DEF AnswerInv, NewPass
  <1>5. SentInv'
    BY <1>0, Sizes DEF SentInv, Pending, Chunk, NewPass
  <1>6. MeterInv'
    BY <1>0, ConstantsOK DEF TypeOK, MeterInv, NewPass, job
  <1>7. AnswersSurvive'
    BY DEF AnswersSurvive, NewPass
  <1>8. BilledWithinCap' /\ AbortHasCause' /\ StopsAfterCancel'
    BY <1>6 DEF BilledWithinCap, AbortHasCause, StopsAfterCancel, MeterInv, NewPass
  <1> QED
    BY <1>1, <1>2, <1>3, <1>4, <1>5, <1>6, <1>7, <1>8 DEF IInv

\* Every step keeps the invariant.
LEMMA NextKeeps ==
    ASSUME IInv, [Next]_vars
    PROVE  IInv'
  <1>1. CASE CallResolve
    BY <1>1, CallResolveKeeps
  <1>2. CASE NextPack
    BY <1>2, NextPackKeeps
  <1>3. CASE SendFree
    BY <1>3, SendFreeKeeps
  <1>4. CASE ChargeAndSend
    BY <1>4, ChargeAndSendKeeps
  <1>5. CASE CapExceeded
    BY <1>5, CapExceededKeeps
  <1>6. CASE Answer
    BY <1>6, AnswerKeeps
  <1>7. CASE Retry
    BY <1>7, RetryKeeps
  <1>8. CASE ParkPack
    BY <1>8, ParkPackKeeps
  <1>9. CASE BreakerTrips
    BY <1>9, BreakerTripsKeeps
  <1>10. CASE FatalError
    BY <1>10, FatalErrorKeeps
  <1>11. CASE Return
    BY <1>11, ReturnKeeps
  <1>12. CASE StartRecording
    BY <1>12, StartRecordingKeeps
  <1>13. CASE Record
    BY <1>13, RecordKeeps
  <1>14. CASE NextChunk
    BY <1>14, NextChunkKeeps
  <1>15. CASE Finalize
    BY <1>15, FinalizeKeeps
  <1>16. CASE Cancel
    BY <1>16, CancelKeeps
  <1>17. CASE NewPass
    BY <1>17, NewPassKeeps
  <1>18. CASE UNCHANGED vars
    <2>1. TypeOK' /\ LoopInv' /\ OrderInv'
      BY <1>18 DEF IInv, TypeOK, LoopInv, OrderInv, InLoop, Pending, Chunk, ChunkOf, vars,
         job, chain, history
    <2>2. AnswerInv' /\ SentInv' /\ MeterInv'
      BY <1>18 DEF IInv, AnswerInv, SentInv, MeterInv, InLoop, Pending, Chunk, ChunkOf, Pack,
         PackOf, vars, job, chain, history
    <2>3. AnswersSurvive' /\ BilledWithinCap' /\ AbortHasCause' /\ StopsAfterCancel'
      BY <1>18 DEF IInv, AnswersSurvive, BilledWithinCap, AbortHasCause, StopsAfterCancel,
         Pending, Chunk, ChunkOf, vars, job, history
    <2> QED
      BY <2>1, <2>2, <2>3 DEF IInv
  <1> QED
    BY <1>1, <1>2, <1>3, <1>4, <1>5, <1>6, <1>7, <1>8, <1>9, <1>10, <1>11, <1>12, <1>13,
       <1>14, <1>15, <1>16, <1>17, <1>18 DEF Next, Step

\* The invariant holds in every reachable state.
THEOREM Invariance == Spec => []IInv
  <1>1. Init => IInv
    BY InitInv
  <1>2. IInv /\ [Next]_vars => IInv'
    BY NextKeeps
  <1> QED
    BY <1>1, <1>2, PTL DEF Spec

\* The rows and the chain's memory stay typed, and no pack is tried too often.
THEOREM TypeCorrect == Spec => []TypeOK
  <1>1. IInv => TypeOK
    BY DEF IInv
  <1> QED
    BY <1>1, Invariance, PTL

\* What resolve() returns splits its chunk, and all of resolved was answered.
THEOREM ResultIsAPartition == Spec => []ResolvePartitions
  <1>1. IInv => ResolvePartitions
    BY DEF IInv, LoopInv, ResolvePartitions
  <1> QED
    BY <1>1, Invariance, PTL

\* No answer is lost by a pass that ends, and an aborted one loses those of one
\* chunk at most (combine aside).
THEOREM AnswersKept == Spec => []AnswersSurvive
  <1>1. IInv => AnswersSurvive
    BY DEF IInv
  <1> QED
    BY <1>1, Invariance, PTL

\* Nothing is asked for that was answered in the pass or recorded in any.
THEOREM AskedOnce == Spec => []NeverAskedAgain
  <1>1. IInv => NeverAskedAgain
    <2> SUFFICES ASSUME IInv, pc = "call", NEW i \in Pack
                 PROVE  i \notin paid /\ i \notin Items \ Pending
      BY DEF NeverAskedAgain, InFlight
    <2>1. i \in Items /\ from <= at /\ at <= i
      BY DEF IInv, LoopInv, InLoop, Pack, Chunk
    <2>2. i \in Nat /\ from \in Nat /\ at \in Nat
      BY <2>1, Sizes DEF IInv, TypeOK
    <2>3. ~(i < at) /\ ~(i < from)
      BY <2>1, <2>2
    <2> QED
      BY <2>3 DEF IInv, OrderInv, InLoop
  <1> QED
    BY <1>1, Invariance, PTL

\* All that a pass sends stays within the run's cap.
THEOREM SpendCapped == Spec => []BilledWithinCap
  <1>1. IInv => BilledWithinCap
    BY DEF IInv
  <1> QED
    BY <1>1, Invariance, PTL

\* The breaker trips only after BreakerLimit failed packs in a row.
THEOREM AbortCaused == Spec => []AbortHasCause
  <1>1. IInv => AbortHasCause
    BY DEF IInv
  <1> QED
    BY <1>1, Invariance, PTL

\* After a cancel at most one more pack is sent.
THEOREM CancelStops == Spec => []StopsAfterCancel
  <1>1. IInv => StopsAfterCancel
    BY DEF IInv
  <1> QED
    BY <1>1, Invariance, PTL

\* Without a cancel no item is flagged that the provider was not asked for.
THEOREM FlaggedCaused == Spec => FlaggedForCause
  <1> DEFINE Caused == \A i \in Items :
                 ~event /\ row[i] = "pending" /\ row'[i] = "flagged" => i \in sent
  <1>1. IInv /\ [Next]_vars => [Caused]_vars
    <2> SUFFICES ASSUME IInv, Next, NEW i \in Items,
                        ~event, row[i] = "pending", row'[i] = "flagged"
                 PROVE  i \in sent
      OBVIOUS
    <2>1. CASE Record
      <3>1. i \in ToRecord
        BY <2>1 DEF Record
      <3>2. CASE stage = "combine"
        <4>1. i < from
          BY <2>1, <3>2, NoChunkLeft DEF Record, IInv, LoopInv
        <4> QED
          BY <2>1, <3>2, <4>1 DEF Record, IInv, SentInv, Pending
      <3>3. CASE stage # "combine"
        BY <2>1, <3>3 DEF Record, ToRecord, IInv, SentInv
      <3> QED
        BY <3>2, <3>3
    <2>2. CASE ~Record
      <3>1. UNCHANGED row
        BY <2>2 DEF Next, Step, CallResolve, NextPack, SendFree, ChargeAndSend, Send,
           CapExceeded, Answer, Retry, ParkPack, BreakerTrips, FatalError, Abort, Return,
           StartRecording, NextChunk, Finalize, Cancel, NewPass
      <3> QED
        BY <3>1
    <2> QED
      BY <2>1, <2>2
  <1>2. FlaggedForCause <=> [][Caused]_vars
    BY DEF FlaggedForCause
  <1> QED
    BY <1>1, <1>2, Invariance, PTL DEF Spec
================================================================================
