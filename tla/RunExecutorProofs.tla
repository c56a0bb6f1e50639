-------------------------- MODULE RunExecutorProofs --------------------------
(***************************************************************************)
(* Proofs about RunExecutor for every value of its constants: type         *)
(* correctness, the invariants the runs check, and that it implements      *)
(* MemberLedger.  IInv (RunExecutorInv) is inductive; each of its          *)
(* conjuncts has a lemma with one step per action it can be disturbed by   *)
(* and one for all the actions that leave its variables alone.             *)
(***************************************************************************)
EXTENDS RunExecutorInv, TLAPS

\* The reads that open a handler.
Opens(c, j) == RemoveRead(c, j) \/ StartRead(c, j) \/ DeleteRead(c, j)
                  \/ RetryRead(c, j) \/ CancelRead(c, j)

--------------------------------------------------------------------------------
(* Type correctness.                                                        *)

\* A request that opens, goes on or is answered stays at a point of a handler.
LEMMA RequestMoves ==
    ASSUME ReqTyped, NEW c \in Clients,
           \/ \E point \in Points, j \in Jobs : Enter(c, point, j)
           \/ \E point \in Points : Goto(c, point)
           \/ Respond(c)
    PROVE  ReqTyped'
<1> DEFINE R == [at : Points, job : Jobs \cup {NoJob}]
<1>1. Idle \in R
    BY DEF Idle, Points
<1>2. ASSUME NEW point \in Points, NEW j \in Jobs, Enter(c, point, j) PROVE ReqTyped'
    BY <1>2 DEF Enter, ReqTyped
<1>3. ASSUME NEW point \in Points, Goto(c, point) PROVE ReqTyped'
    BY <1>3 DEF Goto, ReqTyped
<1>4. CASE Respond(c)
    BY <1>1, <1>4 DEF Respond, ReqTyped
<1> QED
    BY <1>2, <1>3, <1>4

\* The rows keep to the values of their columns.
LEMMA DbStep ==
    TypeOK /\ [Next]_vars => DbTyped'
<1> SUFFICES ASSUME TypeOK, [Next]_vars PROVE DbTyped'
    OBVIOUS
<1> USE DEF TypeOK, DbTyped, ExecTyped, Decided, MemberState, Finished, RunState,
   dbVars, execVars, reqVars, procVars
<1>1. ASSUME NEW c \in Clients, NEW j \in Jobs, NEW s \in Stages, CreateRun(c, j, s)
   PROVE DbTyped'
    BY <1>1 DEF CreateRun, Serving, NextId, Touch
<1>2. ASSUME NEW c \in Clients, NEW j \in Jobs, NEW S \in SUBSET Entities, AddItems(c,
   j, S) PROVE DbTyped'
    BY <1>2 DEF AddItems, Serving, Touch
<1>3. ASSUME NEW c \in Clients, NEW S \in SUBSET Entities, RemoveItems(c, S) PROVE
   DbTyped'
    BY <1>3 DEF RemoveItems, Touch, Respond
<1>4. ASSUME NEW c \in Clients, StartRun(c) PROVE DbTyped'
    BY <1>4 DEF StartRun, WithState, Touch, Respond
<1>5. ASSUME NEW c \in Clients, CancelRun(c) PROVE DbTyped'
    BY <1>5 DEF CancelRun, WithState, Touch, Goto
<1>6. ASSUME NEW c \in Clients, RetryItems(c) PROVE DbTyped'
    BY <1>6 DEF RetryItems, Touch, Goto
<1>7. ASSUME NEW c \in Clients, RetryRun(c) PROVE DbTyped'
    BY <1>7 DEF RetryRun, WithState, Touch, Respond
<1>8. ASSUME NEW c \in Clients, DeleteItems(c) PROVE DbTyped'
    BY <1>8 DEF DeleteItems, Touch, Goto
<1>9. ASSUME NEW c \in Clients, DeleteRun(c) PROVE DbTyped'
    BY <1>9 DEF DeleteRun, Touch, Respond
<1>10. ASSUME NEW j \in Jobs, Claim(j) PROVE DbTyped'
    BY <1>10 DEF Claim, Moves
<1>11. ASSUME NEW S \in SUBSET todo, NEW outcome \in [Entities -> Decided],
   CommitChunk(S, outcome) PROVE DbTyped'
    BY <1>11, ConstantsOK DEF CommitChunk, Moves, Recorded, Rows
<1>12. ASSUME NEW i \in todo, RecordTrivial(i) PROVE DbTyped'
    BY <1>12, ConstantsOK DEF RecordTrivial, Moves, Recorded, Rows, Vanished
<1>13. ASSUME NEW i \in todo, WriteContent(i) PROVE DbTyped'
    BY <1>13 DEF WriteContent, Moves
<1>14. ASSUME NEW i \in todo, NEW o \in Decided, RecordOnly(i, o) PROVE DbTyped'
    BY <1>14 DEF RecordOnly, Moves, Recorded, Rows, AfterItem
<1>15. ASSUME RecordContent PROVE DbTyped'
    BY <1>15 DEF RecordContent, Moves, Recorded, Rows, AfterItem
<1>16. ASSUME Finalize PROVE DbTyped'
    BY <1>16 DEF Finalize, Moves, WithState
<1>17. ASSUME Boot PROVE DbTyped'
    BY <1>17 DEF Boot
<1>18. CASE
      \/ \E c \in Clients, j \in Jobs : Opens(c, j)
      \/ \E c \in Clients : CancelSignal(c)
      \/ Tick \/ Sleep \/ Register \/ ReadQueue \/ CheckStop \/ AskChain \/
         PollInChain \/ StageReturns \/ StageFails \/ Release \/ Crash \/ Stop \/ Exit
    BY <1>18 DEF Opens, RemoveRead, StartRead, DeleteRead, RetryRead, CancelRead,
       Reads, Serving, Enter, CancelSignal, Respond, Registered, Tick, Moves, Sleep,
       Register, ReadQueue, Pending, Rows, CheckStop, AskChain, Vanished, PollInChain,
       StageReturns, StageFails, Release, Crash, Down, Stop, Exit
<1>19. CASE UNCHANGED vars
    BY <1>19 DEF vars
<1> QED
    BY <1>1, <1>2, <1>3, <1>4, <1>5, <1>6, <1>7, <1>8, <1>9, <1>10, <1>11, <1>12,
       <1>13, <1>14, <1>15, <1>16, <1>17, <1>18, <1>19 DEF Next, Request,
       ExecutorStep, Opens

\* The executor's memory keeps to its types.
LEMMA ExecStep ==
    TypeOK /\ [Next]_vars => ExecTyped'
<1> SUFFICES ASSUME TypeOK, [Next]_vars PROVE ExecTyped'
    OBVIOUS
<1> USE DEF TypeOK, DbTyped, ExecTyped, Decided, Finished, RunState, dbVars, execVars,
   reqVars, procVars
<1>1. ASSUME NEW c \in Clients, NEW j \in Jobs, Opens(c, j) PROVE ExecTyped'
    BY <1>1 DEF Opens, RemoveRead, StartRead, DeleteRead, RetryRead, CancelRead,
       Reads, Serving, Enter
<1>2. ASSUME NEW c \in Clients, CancelRun(c) PROVE ExecTyped'
    BY <1>2 DEF CancelRun, WithState, Touch, Goto
<1>3. ASSUME NEW c \in Clients, CancelSignal(c) PROVE ExecTyped'
    BY <1>3 DEF CancelSignal, Respond, Registered
<1>4. ASSUME Tick PROVE ExecTyped'
    BY <1>4 DEF Tick, Moves
<1>5. ASSUME Sleep PROVE ExecTyped'
    BY <1>5 DEF Sleep, Moves
<1>6. ASSUME NEW j \in Jobs, Claim(j) PROVE ExecTyped'
    BY <1>6 DEF Claim, Moves, NoStage
<1>7. ASSUME Register PROVE ExecTyped'
    BY <1>7 DEF Register, Moves
<1>8. ASSUME ReadQueue PROVE ExecTyped'
    BY <1>8 DEF ReadQueue, Moves, Pending, Rows
<1>9. ASSUME NEW S \in SUBSET todo, NEW outcome \in [Entities -> Decided],
   CommitChunk(S, outcome) PROVE ExecTyped'
    BY <1>9 DEF CommitChunk, Moves, Recorded, Rows
<1>10. ASSUME CheckStop PROVE ExecTyped'
    BY <1>10 DEF CheckStop
<1>11. ASSUME AskChain PROVE ExecTyped'
    BY <1>11 DEF AskChain, Moves, Vanished
<1>12. ASSUME PollInChain PROVE ExecTyped'
    BY <1>12 DEF PollInChain
<1>13. ASSUME NEW i \in todo, RecordTrivial(i) PROVE ExecTyped'
    BY <1>13 DEF RecordTrivial, Moves, Recorded, Rows, Vanished
<1>14. ASSUME NEW i \in todo, WriteContent(i) PROVE ExecTyped'
    BY <1>14 DEF WriteContent, Moves
<1>15. ASSUME NEW i \in todo, NEW o \in Decided, RecordOnly(i, o) PROVE ExecTyped'
    BY <1>15 DEF RecordOnly, Moves, Recorded, Rows, AfterItem
<1>16. ASSUME RecordContent PROVE ExecTyped'
    BY <1>16 DEF RecordContent, Moves, Recorded, Rows, AfterItem
<1>17. ASSUME StageReturns PROVE ExecTyped'
    BY <1>17 DEF StageReturns, Moves
<1>18. ASSUME StageFails PROVE ExecTyped'
    BY <1>18 DEF StageFails, Moves
<1>19. ASSUME Finalize PROVE ExecTyped'
    BY <1>19 DEF Finalize, Moves, WithState
<1>20. ASSUME Release PROVE ExecTyped'
    BY <1>20 DEF Release, Moves, NoStage
<1>21. ASSUME Crash PROVE ExecTyped'
    BY <1>21 DEF Crash, Down, NoStage
<1>22. ASSUME Stop PROVE ExecTyped'
    BY <1>22 DEF Stop, Registered
<1>23. ASSUME Exit PROVE ExecTyped'
    BY <1>23 DEF Exit, Down, NoStage
<1>24. CASE
      \/ \E c \in Clients, j \in Jobs, s \in Stages : CreateRun(c, j, s)
      \/ \E c \in Clients, j \in Jobs, S \in SUBSET Entities : AddItems(c, j, S)
    BY <1>24 DEF CreateRun, Serving, NextId, Touch, AddItems
<1>25. CASE
      \/ \E c \in Clients, S \in SUBSET Entities : RemoveItems(c, S)
      \/ \E c \in Clients : RetryItems(c)
    BY <1>25 DEF RemoveItems, Touch, Respond, RetryItems, Goto
<1>26. CASE \E c \in Clients : StartRun(c) \/ RetryRun(c)
    BY <1>26 DEF StartRun, WithState, Touch, Respond, RetryRun
<1>27. CASE
      \/ \E c \in Clients : DeleteItems(c) \/ DeleteRun(c)
      \/ Boot
    BY <1>27 DEF DeleteItems, Touch, Goto, DeleteRun, Respond, Boot
<1>28. CASE UNCHANGED vars
    BY <1>28 DEF vars
<1> QED
    BY <1>1, <1>2, <1>3, <1>4, <1>5, <1>6, <1>7, <1>8, <1>9, <1>10, <1>11, <1>12,
       <1>13, <1>14, <1>15, <1>16, <1>17, <1>18, <1>19, <1>20, <1>21, <1>22, <1>23,
       <1>24, <1>25, <1>26, <1>27, <1>28 DEF Next, Request, ExecutorStep, Opens

\* The requests keep to the points of their handlers.
LEMMA ReqStep ==
    TypeOK /\ [Next]_vars => ReqTyped'
<1> SUFFICES ASSUME TypeOK, [Next]_vars PROVE ReqTyped'
    OBVIOUS
<1> USE DEF TypeOK, dbVars, execVars, reqVars, procVars
<1>1. ASSUME NEW c \in Clients, NEW j \in Jobs, Opens(c, j) PROVE ReqTyped'
    BY <1>1, RequestMoves DEF Opens, RemoveRead, StartRead, DeleteRead, RetryRead,
       CancelRead, Reads, Serving, Enter, Points
<1>2. CASE
      \/ \E c \in Clients, S \in SUBSET Entities : RemoveItems(c, S)
      \/ \E c \in Clients : StartRun(c) \/ CancelRun(c) \/ CancelSignal(c) \/
         RetryItems(c) \/ RetryRun(c) \/ DeleteItems(c) \/ DeleteRun(c)
    BY <1>2, RequestMoves DEF StartRun, WithState, Touch, Respond, CancelRun, Goto,
       CancelSignal, Registered, RetryItems, RetryRun, DeleteItems, DeleteRun,
       RemoveItems, Points
<1>3. CASE Crash \/ Exit
    BY <1>3 DEF Crash, Down, Exit, ReqTyped, Points, Idle
<1>4. CASE
      \/ \E c \in Clients, j \in Jobs, s \in Stages : CreateRun(c, j, s)
      \/ \E c \in Clients, j \in Jobs, S \in SUBSET Entities : AddItems(c, j, S)
      \/ Tick \/ Sleep \/ Register \/ ReadQueue \/ CheckStop \/ AskChain \/
         PollInChain \/ RecordContent \/ StageReturns \/ StageFails \/ Finalize \/
         Release \/ Stop \/ Boot
      \/ \E j \in Jobs : Claim(j)
      \/ \E S \in SUBSET todo, outcome \in [Entities -> Decided] : CommitChunk(S,
         outcome)
      \/ \E i \in todo : RecordTrivial(i) \/ WriteContent(i)
      \/ \E i \in todo, o \in Decided : RecordOnly(i, o)
    BY <1>4 DEF CreateRun, Serving, NextId, Touch, AddItems, Tick, Moves, Sleep,
       Claim, Register, ReadQueue, Pending, Rows, CommitChunk, Recorded, CheckStop,
       AskChain, Vanished, PollInChain, RecordTrivial, WriteContent, RecordOnly,
       AfterItem, RecordContent, StageReturns, StageFails, Finalize, WithState,
       Release, Stop, Registered, Boot, ReqTyped
<1>5. CASE UNCHANGED vars
    BY <1>5 DEF vars, ReqTyped
<1> QED
    BY <1>1, <1>2, <1>3, <1>4, <1>5 DEF Next, Request, ExecutorStep, Opens

\* The flags and counters of the process keep to their types.
LEMMA ProcStep ==
    TypeOK /\ [Next]_vars => ProcTyped'
<1> SUFFICES ASSUME TypeOK, [Next]_vars PROVE ProcTyped'
    OBVIOUS
<1> USE ConstantsOK
<1> USE DEF TypeOK, ProcTyped, dbVars, execVars, reqVars, procVars
<1>1. CASE Crash \/ Stop \/ Exit \/ Boot
    <2>1. up' \in BOOLEAN /\ stopping' \in BOOLEAN /\ requests' = requests
        BY <1>1 DEF Crash, Stop, Exit, Boot, Down
    <2>2. restarts' \in {restarts, restarts + 1}
        BY <1>1 DEF Crash, Stop, Exit, Boot
    <2> QED
        BY <2>1, <2>2
<1>2. CASE
      \/ \E c \in Clients, j \in Jobs, s \in Stages : CreateRun(c, j, s)
      \/ \E c \in Clients, j \in Jobs, S \in SUBSET Entities : AddItems(c, j, S)
      \/ \E c \in Clients, j \in Jobs : Opens(c, j)
    BY <1>2 DEF CreateRun, Serving, NextId, Touch, AddItems, Opens, RemoveRead,
       StartRead, DeleteRead, RetryRead, CancelRead, Reads, Enter
<1>3. CASE
      \/ \E c \in Clients, S \in SUBSET Entities : RemoveItems(c, S)
      \/ \E c \in Clients : StartRun(c) \/ CancelRun(c) \/ CancelSignal(c) \/
         RetryItems(c) \/ RetryRun(c) \/ DeleteItems(c) \/ DeleteRun(c)
      \/ Tick \/ Sleep \/ Register \/ ReadQueue \/ CheckStop \/ AskChain \/
         PollInChain \/ RecordContent \/ StageReturns \/ StageFails \/ Finalize \/
         Release
      \/ \E j \in Jobs : Claim(j)
      \/ \E S \in SUBSET todo, outcome \in [Entities -> Decided] : CommitChunk(S,
         outcome)
      \/ \E i \in todo : RecordTrivial(i) \/ WriteContent(i)
      \/ \E i \in todo, o \in Decided : RecordOnly(i, o)
    BY <1>3 DEF RemoveItems, Touch, Respond, StartRun, WithState, CancelRun, Goto,
       CancelSignal, Registered, RetryItems, RetryRun, DeleteItems, DeleteRun, Tick,
       Moves, Sleep, Claim, Register, ReadQueue, Pending, Rows, CommitChunk, Recorded,
       CheckStop, AskChain, Vanished, PollInChain, RecordTrivial, WriteContent,
       RecordOnly, AfterItem, RecordContent, StageReturns, StageFails, Finalize,
       Release
<1>4. CASE UNCHANGED vars
    BY <1>4 DEF vars
<1> QED
    BY <1>1, <1>2, <1>3, <1>4 DEF Next, Request, ExecutorStep, Opens
\* Type correctness is inductive by itself.
LEMMA TypeStep ==
    TypeOK /\ [Next]_vars => TypeOK'
BY DbStep, ExecStep, ReqStep, ProcStep DEF TypeOK

--------------------------------------------------------------------------------
(* The inductive invariant.                                                 *)

\* What the executor holds at each of its program points, after every step.
LEMMA ControlStep ==
    TypeOK /\ ControlInv /\ [Next]_vars => ControlInv'
<1> SUFFICES ASSUME TypeOK /\ ControlInv, [Next]_vars PROVE ControlInv'
    OBVIOUS
<1> USE DEF TypeOK, DbTyped, ExecTyped, ReqTyped, ProcTyped, dbVars, execVars,
   reqVars, procVars, ControlInv, Jobs, NoJob
<1>1. ASSUME NEW c \in Clients, NEW S \in SUBSET Entities, RemoveItems(c, S) PROVE
   ControlInv'
    BY <1>1 DEF RemoveItems, Touch, Respond, Idle, Points
<1>2. ASSUME NEW c \in Clients, NEW j \in Jobs, Opens(c, j) PROVE ControlInv'
    <2>1. up /\ up' = up /\ UNCHANGED execVars
        BY <1>2 DEF Opens, RemoveRead, StartRead, DeleteRead, RetryRead, CancelRead,
                 Reads, Serving
    <2>2. \E point \in Points : req' = [req EXCEPT ![c] = [at |-> point, job |-> j]]
        BY <1>2 DEF Opens, RemoveRead, StartRead, DeleteRead, RetryRead, CancelRead,
                 Reads, Enter, Points
    <2> QED
        BY <2>1, <2>2
<1>3. ASSUME NEW c \in Clients, StartRun(c) PROVE ControlInv'
    BY <1>3 DEF StartRun, WithState, Touch, Respond, Idle, Points
<1>4. ASSUME NEW c \in Clients, CancelRun(c) PROVE ControlInv'
    BY <1>4 DEF CancelRun, WithState, Touch, Goto, Idle, Points
<1>5. ASSUME NEW c \in Clients, CancelSignal(c) PROVE ControlInv'
    BY <1>5 DEF CancelSignal, Respond, Registered, Idle, Points
<1>6. ASSUME NEW c \in Clients, RetryItems(c) PROVE ControlInv'
    BY <1>6 DEF RetryItems, Touch, Goto, Idle, Points
<1>7. ASSUME NEW c \in Clients, RetryRun(c) PROVE ControlInv'
    BY <1>7 DEF RetryRun, WithState, Touch, Respond, Idle, Points
<1>8. ASSUME NEW c \in Clients, DeleteItems(c) PROVE ControlInv'
    BY <1>8 DEF DeleteItems, Touch, Goto, Idle, Points
<1>9. ASSUME NEW c \in Clients, DeleteRun(c) PROVE ControlInv'
    BY <1>9 DEF DeleteRun, Touch, Respond, Idle, Points
<1>10. ASSUME Tick PROVE ControlInv'
    BY <1>10 DEF Tick, Moves
<1>11. ASSUME Sleep PROVE ControlInv'
    BY <1>11 DEF Sleep, Moves
<1>12. ASSUME NEW j \in Jobs, Claim(j) PROVE ControlInv'
    BY <1>12 DEF Claim, Moves, NoStage
<1>13. ASSUME Register PROVE ControlInv'
    BY <1>13 DEF Register, Moves
<1>14. ASSUME ReadQueue PROVE ControlInv'
    BY <1>14 DEF ReadQueue, Moves, Pending, Rows
<1>15. ASSUME NEW S \in SUBSET todo, NEW outcome \in [Entities -> Decided],
   CommitChunk(S, outcome) PROVE ControlInv'
    BY <1>15 DEF CommitChunk, Moves, Recorded, Rows
<1>16. ASSUME CheckStop PROVE ControlInv'
    BY <1>16 DEF CheckStop
<1>17. ASSUME AskChain PROVE ControlInv'
    BY <1>17 DEF AskChain, Moves, Vanished
<1>18. ASSUME PollInChain PROVE ControlInv'
    BY <1>18 DEF PollInChain
<1>19. ASSUME NEW i \in todo, RecordTrivial(i) PROVE ControlInv'
    BY <1>19 DEF RecordTrivial, Moves, Recorded, Rows, Vanished
<1>20. ASSUME NEW i \in todo, WriteContent(i) PROVE ControlInv'
    BY <1>20 DEF WriteContent, Moves
<1>21. ASSUME NEW i \in todo, NEW o \in Decided, RecordOnly(i, o) PROVE ControlInv'
    BY <1>21 DEF RecordOnly, Moves, Recorded, Rows, AfterItem
<1>22. ASSUME RecordContent PROVE ControlInv'
    BY <1>22 DEF RecordContent, Moves, Recorded, Rows, AfterItem
<1>23. ASSUME StageReturns PROVE ControlInv'
    BY <1>23 DEF StageReturns, Moves
<1>24. ASSUME StageFails PROVE ControlInv'
    BY <1>24 DEF StageFails, Moves
<1>25. ASSUME Finalize PROVE ControlInv'
    BY <1>25 DEF Finalize, Moves, WithState
<1>26. ASSUME Release PROVE ControlInv'
    BY <1>26 DEF Release, Moves, NoStage
<1>27. ASSUME Crash PROVE ControlInv'
    BY <1>27 DEF Crash, Down, Idle
<1>28. ASSUME Stop PROVE ControlInv'
    BY <1>28 DEF Stop, Registered
<1>29. ASSUME Exit PROVE ControlInv'
    BY <1>29 DEF Exit, Down, Idle
<1>30. ASSUME Boot PROVE ControlInv'
    BY <1>30 DEF Boot
<1>31. CASE
      \/ \E c \in Clients, j \in Jobs, s \in Stages : CreateRun(c, j, s)
      \/ \E c \in Clients, j \in Jobs, S \in SUBSET Entities : AddItems(c, j, S)
    BY <1>31 DEF CreateRun, Serving, NextId, Touch, AddItems
<1>32. CASE UNCHANGED vars
    BY <1>32 DEF vars
<1> QED
    BY <1>1, <1>2, <1>3, <1>4, <1>5, <1>6, <1>7, <1>8, <1>9, <1>10, <1>11, <1>12,
       <1>13, <1>14, <1>15, <1>16, <1>17, <1>18, <1>19, <1>20, <1>21, <1>22, <1>23,
       <1>24, <1>25, <1>26, <1>27, <1>28, <1>29, <1>30, <1>31, <1>32 DEF Next,
       Request, ExecutorStep, Opens

\* The members the executor has not come to stay undecided: a handler may remove one
\* or reopen a failed one, and the executor takes out of `todo' what it decides.
LEMMA NeverStep ==
    TypeOK /\ ControlInv /\ NeverRedecides /\ [Next]_vars => NeverRedecides'
<1> SUFFICES ASSUME TypeOK /\ ControlInv /\ NeverRedecides, [Next]_vars
   PROVE NeverRedecides'
    OBVIOUS
<1> USE DEF TypeOK, DbTyped, ExecTyped, ControlInv, NeverRedecides, dbVars, execVars,
   reqVars, procVars
<1>1. ASSUME NEW c \in Clients, NEW j \in Jobs, NEW S \in SUBSET Entities, AddItems(c,
   j, S) PROVE NeverRedecides'
    BY <1>1 DEF AddItems, Serving, Touch
<1>2. ASSUME NEW c \in Clients, NEW S \in SUBSET Entities, RemoveItems(c, S) PROVE
   NeverRedecides'
    BY <1>2 DEF RemoveItems, Touch, Respond
<1>3. ASSUME NEW c \in Clients, RetryItems(c) PROVE NeverRedecides'
    BY <1>3 DEF RetryItems, Touch, Goto
<1>4. ASSUME NEW c \in Clients, DeleteItems(c) PROVE NeverRedecides'
    BY <1>4 DEF DeleteItems, Touch, Goto
<1>5. ASSUME NEW c \in Clients, DeleteRun(c) PROVE NeverRedecides'
    BY <1>5 DEF DeleteRun, Touch, Respond
<1>6. ASSUME NEW j \in Jobs, Claim(j) PROVE NeverRedecides'
    BY <1>6 DEF Claim, Moves
<1>7. ASSUME ReadQueue PROVE NeverRedecides'
    BY <1>7 DEF ReadQueue, Moves, Pending, Rows
<1>8. ASSUME NEW S \in SUBSET todo, NEW outcome \in [Entities -> Decided],
   CommitChunk(S, outcome) PROVE NeverRedecides'
    BY <1>8 DEF CommitChunk, Moves, Recorded, Rows
<1>9. ASSUME CheckStop PROVE NeverRedecides'
    BY <1>9 DEF CheckStop
<1>10. ASSUME AskChain PROVE NeverRedecides'
    BY <1>10 DEF AskChain, Moves, Vanished
<1>11. ASSUME NEW i \in todo, RecordTrivial(i) PROVE NeverRedecides'
    BY <1>11 DEF RecordTrivial, Moves, Recorded, Rows, Vanished
<1>12. ASSUME NEW i \in todo, WriteContent(i) PROVE NeverRedecides'
    BY <1>12 DEF WriteContent, Moves
<1>13. ASSUME NEW i \in todo, NEW o \in Decided, RecordOnly(i, o) PROVE
   NeverRedecides'
    BY <1>13 DEF RecordOnly, Moves, Recorded, Rows, AfterItem
<1>14. ASSUME RecordContent PROVE NeverRedecides'
    BY <1>14 DEF RecordContent, Moves, Recorded, Rows, AfterItem
<1>15. ASSUME StageFails PROVE NeverRedecides'
    BY <1>15 DEF StageFails, Moves
<1>16. ASSUME Release PROVE NeverRedecides'
    BY <1>16 DEF Release, Moves
<1>17. ASSUME Crash PROVE NeverRedecides'
    BY <1>17 DEF Crash, Down
<1>18. ASSUME Exit PROVE NeverRedecides'
    BY <1>18 DEF Exit, Down
<1>19. CASE
      \/ \E c \in Clients, j \in Jobs, s \in Stages : CreateRun(c, j, s)
      \/ \E c \in Clients, j \in Jobs : Opens(c, j)
      \/ \E c \in Clients : StartRun(c) \/ CancelRun(c) \/ CancelSignal(c) \/
         RetryRun(c)
      \/ Tick \/ Sleep \/ Register \/ PollInChain \/ StageReturns \/ Finalize \/ Stop
         \/ Boot
    BY <1>19 DEF CreateRun, Serving, NextId, Touch, Opens, RemoveRead, StartRead,
       DeleteRead, RetryRead, CancelRead, Reads, Enter, StartRun, WithState, Respond,
       CancelRun, Goto, CancelSignal, Registered, RetryRun, Tick, Moves, Sleep,
       Register, PollInChain, StageReturns, Finalize, Stop, Boot
<1>20. CASE UNCHANGED vars
    BY <1>20 DEF vars
<1> QED
    BY <1>1, <1>2, <1>3, <1>4, <1>5, <1>6, <1>7, <1>8, <1>9, <1>10, <1>11, <1>12,
       <1>13, <1>14, <1>15, <1>16, <1>17, <1>18, <1>19, <1>20 DEF Next, Request,
       ExecutorStep, Opens

\* Only Claim makes a run running, and it is then owned; Finalize ends the ownership
\* and the state together, and a process that is down owns nothing.
LEMMA RunningStep ==
    TypeOK /\ ControlInv /\ RunningIsOwned /\ [Next]_vars => RunningIsOwned'
<1> SUFFICES ASSUME TypeOK /\ ControlInv /\ RunningIsOwned, [Next]_vars
   PROVE RunningIsOwned'
    OBVIOUS
<1> USE DEF TypeOK, DbTyped, ExecTyped, ControlInv, RunningIsOwned, Owns, dbVars,
   execVars, reqVars, procVars
<1>1. ASSUME NEW c \in Clients, NEW j \in Jobs, Opens(c, j) PROVE RunningIsOwned'
    BY <1>1 DEF Opens, RemoveRead, StartRead, DeleteRead, RetryRead, CancelRead,
       Reads, Serving, Enter
<1>2. ASSUME NEW j \in Jobs, Claim(j) PROVE RunningIsOwned'
    BY <1>2 DEF Claim, Moves
<1>3. ASSUME Finalize PROVE RunningIsOwned'
    BY <1>3 DEF Finalize, Moves, WithState, Finished
<1>4. ASSUME Release PROVE RunningIsOwned'
    BY <1>4 DEF Release, Moves
<1>5. ASSUME Crash PROVE RunningIsOwned'
    BY <1>5 DEF Crash, Down
<1>6. ASSUME Exit PROVE RunningIsOwned'
    BY <1>6 DEF Exit, Down
<1>7. ASSUME Boot PROVE RunningIsOwned'
    BY <1>7 DEF Boot
<1>8. CASE
      \/ \E c \in Clients, j \in Jobs, S \in SUBSET Entities : AddItems(c, j, S)
      \/ \E c \in Clients, S \in SUBSET Entities : RemoveItems(c, S)
    BY <1>8 DEF AddItems, Serving, Touch, RemoveItems, Respond
<1>9. CASE \E c \in Clients : CancelSignal(c) \/ RetryItems(c) \/ DeleteItems(c)
    BY <1>9 DEF CancelSignal, Respond, Registered, RetryItems, Touch, Goto,
       DeleteItems
<1>10. CASE
      \/ \E c \in Clients, j \in Jobs, s \in Stages : CreateRun(c, j, s)
      \/ \E c \in Clients : StartRun(c) \/ CancelRun(c) \/ RetryRun(c) \/ DeleteRun(c)
    BY <1>10 DEF CreateRun, Serving, NextId, Touch, StartRun, WithState, Respond,
       CancelRun, Goto, RetryRun, DeleteRun
<1>11. CASE
      \/ Tick \/ Sleep \/ Register \/ ReadQueue \/ CheckStop \/ AskChain \/
         RecordContent \/ StageReturns \/ StageFails
      \/ \E i \in todo : WriteContent(i)
      \/ \E i \in todo, o \in Decided : RecordOnly(i, o)
    BY <1>11 DEF Tick, Moves, Sleep, Register, ReadQueue, Pending, Rows, CheckStop,
       AskChain, Vanished, WriteContent, RecordOnly, Recorded, AfterItem,
       RecordContent, StageReturns, StageFails
<1>12. CASE
      \/ \E S \in SUBSET todo, outcome \in [Entities -> Decided] : CommitChunk(S,
         outcome)
      \/ PollInChain \/ Stop
      \/ \E i \in todo : RecordTrivial(i)
    BY <1>12 DEF PollInChain, CommitChunk, Moves, Recorded, Rows, RecordTrivial,
       Vanished, Stop, Registered
<1>13. CASE UNCHANGED vars
    BY <1>13 DEF vars
<1> QED
    BY <1>1, <1>2, <1>3, <1>4, <1>5, <1>6, <1>7, <1>8, <1>9, <1>10, <1>11, <1>12,
       <1>13 DEF Next, Request, ExecutorStep, Opens

\* As long as nobody writes the run, its pending members are the ones the executor still
\* has before it.
LEMMA QueueStep ==
    TypeOK /\ ControlInv /\ QueueInv /\ [Next]_vars => QueueInv'
<1> SUFFICES ASSUME TypeOK /\ ControlInv /\ QueueInv, [Next]_vars PROVE QueueInv'
    OBVIOUS
<1> USE DEF TypeOK, DbTyped, ExecTyped, ControlInv, QueueInv, Pending, Lasting,
   dbVars, execVars, reqVars, procVars
<1>1. ASSUME NEW c \in Clients, NEW j \in Jobs, NEW s \in Stages, CreateRun(c, j, s)
   PROVE QueueInv'
    BY <1>1 DEF CreateRun, Serving, NextId, Touch
<1>2. ASSUME NEW c \in Clients, NEW j \in Jobs, NEW S \in SUBSET Entities, AddItems(c,
   j, S) PROVE QueueInv'
    BY <1>2 DEF AddItems, Serving, Touch
<1>3. ASSUME NEW c \in Clients, NEW S \in SUBSET Entities, RemoveItems(c, S) PROVE
   QueueInv'
    BY <1>3 DEF RemoveItems, Touch, Respond
<1>4. ASSUME NEW c \in Clients, CancelSignal(c) PROVE QueueInv'
    BY <1>4 DEF CancelSignal, Respond, Registered
<1>5. ASSUME NEW c \in Clients, DeleteRun(c) PROVE QueueInv'
    BY <1>5 DEF DeleteRun, Touch, Respond
<1>6. ASSUME NEW j \in Jobs, Claim(j) PROVE QueueInv'
    BY <1>6 DEF Claim, Moves
<1>7. ASSUME ReadQueue PROVE QueueInv'
    BY <1>7 DEF ReadQueue, Moves, Pending, Rows
<1>8. ASSUME NEW S \in SUBSET todo, NEW outcome \in [Entities -> Decided],
   CommitChunk(S, outcome) PROVE QueueInv'
    BY <1>8 DEF CommitChunk, Moves, Recorded, Rows, Decided
<1>9. ASSUME CheckStop PROVE QueueInv'
    BY <1>9 DEF CheckStop
<1>10. ASSUME AskChain PROVE QueueInv'
    BY <1>10 DEF AskChain, Moves, Vanished
<1>11. ASSUME PollInChain PROVE QueueInv'
    BY <1>11 DEF PollInChain
<1>12. ASSUME NEW i \in todo, RecordTrivial(i) PROVE QueueInv'
    BY <1>12 DEF RecordTrivial, Moves, Recorded, Rows, Vanished
<1>13. ASSUME NEW i \in todo, WriteContent(i) PROVE QueueInv'
    BY <1>13 DEF WriteContent, Moves
<1>14. ASSUME NEW i \in todo, NEW o \in Decided, RecordOnly(i, o) PROVE QueueInv'
    BY <1>14 DEF RecordOnly, Moves, Recorded, Rows, AfterItem
<1>15. ASSUME RecordContent PROVE QueueInv'
    BY <1>15 DEF RecordContent, Moves, Recorded, Rows, AfterItem
<1>16. ASSUME StageReturns PROVE QueueInv'
    BY <1>16 DEF StageReturns, Moves
<1>17. ASSUME StageFails PROVE QueueInv'
    BY <1>17 DEF StageFails, Moves
<1>18. CASE \E c \in Clients : StartRun(c) \/ CancelRun(c) \/ RetryRun(c)
    BY <1>18 DEF StartRun, WithState, Touch, Respond, CancelRun, Goto, RetryRun
<1>19. CASE \E c \in Clients : RetryItems(c) \/ DeleteItems(c)
    BY <1>19 DEF RetryItems, Touch, Goto, DeleteItems
<1>20. CASE Tick \/ Sleep \/ Register \/ Finalize \/ Release \/ Crash \/ Stop \/ Exit
    BY <1>20 DEF Tick, Moves, Sleep, Register, Finalize, WithState, Release, Crash,
       Down, Exit, Stop, Registered
<1>21. CASE
      \/ \E c \in Clients, j \in Jobs : Opens(c, j)
      \/ Boot
    BY <1>21 DEF Opens, RemoveRead, StartRead, DeleteRead, RetryRead, CancelRead,
       Reads, Serving, Enter, Boot
<1>22. CASE UNCHANGED vars
    BY <1>22 DEF vars
<1> QED
    BY <1>1, <1>2, <1>3, <1>4, <1>5, <1>6, <1>7, <1>8, <1>9, <1>10, <1>11, <1>12,
       <1>13, <1>14, <1>15, <1>16, <1>17, <1>18, <1>19, <1>20, <1>21, <1>22 DEF Next,
       Request, ExecutorStep, Opens

\* A run becomes done in Finalize only, and QueueInv says what is left then.
LEMMA DoneStep ==
    TypeOK /\ ControlInv /\ QueueInv /\ UntouchedDoneIsDrained /\ [Next]_vars => UntouchedDoneIsDrained'
<1> SUFFICES ASSUME TypeOK /\ ControlInv /\ QueueInv /\ UntouchedDoneIsDrained, [Next]_vars
   PROVE UntouchedDoneIsDrained'
    OBVIOUS
<1> USE DEF TypeOK, DbTyped, ExecTyped, ControlInv, QueueInv, UntouchedDoneIsDrained,
   DoneIsDrained, Pending, Lasting, dbVars, execVars, reqVars, procVars
<1>1. ASSUME NEW c \in Clients, NEW j \in Jobs, NEW s \in Stages, CreateRun(c, j, s)
   PROVE UntouchedDoneIsDrained'
    BY <1>1 DEF CreateRun, Serving, NextId, Touch
<1>2. ASSUME NEW c \in Clients, NEW j \in Jobs, NEW S \in SUBSET Entities, AddItems(c,
   j, S) PROVE UntouchedDoneIsDrained'
    BY <1>2 DEF AddItems, Serving, Touch
<1>3. ASSUME NEW c \in Clients, NEW S \in SUBSET Entities, RemoveItems(c, S) PROVE
   UntouchedDoneIsDrained'
    BY <1>3 DEF RemoveItems, Touch, Respond
<1>4. ASSUME NEW c \in Clients, DeleteRun(c) PROVE UntouchedDoneIsDrained'
    BY <1>4 DEF DeleteRun, Touch, Respond
<1>5. ASSUME NEW j \in Jobs, Claim(j) PROVE UntouchedDoneIsDrained'
    BY <1>5 DEF Claim, Moves
<1>6. ASSUME NEW S \in SUBSET todo, NEW outcome \in [Entities -> Decided],
   CommitChunk(S, outcome) PROVE UntouchedDoneIsDrained'
    BY <1>6 DEF CommitChunk, Moves, Recorded, Rows, Decided
<1>7. ASSUME Finalize PROVE UntouchedDoneIsDrained'
    BY <1>7 DEF Finalize, Moves, WithState
<1>8. ASSUME Boot PROVE UntouchedDoneIsDrained'
    BY <1>8 DEF Boot
<1>9. CASE \E c \in Clients : StartRun(c) \/ CancelRun(c) \/ RetryRun(c)
    BY <1>9 DEF StartRun, WithState, Touch, Respond, CancelRun, Goto, RetryRun
<1>10. CASE \E c \in Clients : RetryItems(c) \/ DeleteItems(c)
    BY <1>10 DEF RetryItems, Touch, Goto, DeleteItems
<1>11. CASE
      \/ \E i \in todo : RecordTrivial(i)
      \/ \E i \in todo, o \in Decided : RecordOnly(i, o)
      \/ RecordContent
    BY <1>11 DEF RecordTrivial, Moves, Recorded, Rows, Vanished, RecordOnly,
       AfterItem, RecordContent
<1>12. CASE
      \/ \E c \in Clients, j \in Jobs : Opens(c, j)
      \/ \E c \in Clients : CancelSignal(c)
      \/ Tick \/ Sleep \/ Register \/ ReadQueue \/ CheckStop \/ AskChain \/
         PollInChain \/ StageReturns \/ StageFails \/ Release \/ Crash \/ Stop \/ Exit
      \/ \E i \in todo : WriteContent(i)
    BY <1>12 DEF Opens, RemoveRead, StartRead, DeleteRead, RetryRead, CancelRead,
       Reads, Serving, Enter, CancelSignal, Respond, Registered, Tick, Moves, Sleep,
       Register, ReadQueue, Pending, Rows, CheckStop, AskChain, Vanished, PollInChain,
       StageReturns, StageFails, Release, Crash, Down, Stop, Exit, WriteContent
<1>13. CASE UNCHANGED vars
    BY <1>13 DEF vars
<1> QED
    BY <1>1, <1>2, <1>3, <1>4, <1>5, <1>6, <1>7, <1>8, <1>9, <1>10, <1>11, <1>12,
       <1>13 DEF Next, Request, ExecutorStep, Opens

\* An id is reused clean, and a content waiting for its ledger row is committed.
LEMMA ContentStep ==
    TypeOK /\ ControlInv /\ ContentInv /\ [Next]_vars => ContentInv'
<1> SUFFICES ASSUME TypeOK /\ ControlInv /\ ContentInv, [Next]_vars PROVE ContentInv'
    OBVIOUS
<1> USE DEF TypeOK, DbTyped, ExecTyped, ControlInv, ContentInv, dbVars, execVars,
   reqVars, procVars
<1>1. ASSUME NEW c \in Clients, NEW j \in Jobs, NEW s \in Stages, CreateRun(c, j, s)
   PROVE ContentInv'
    BY <1>1 DEF CreateRun, Serving, NextId, Touch
<1>2. ASSUME NEW c \in Clients, NEW j \in Jobs, NEW S \in SUBSET Entities, AddItems(c,
   j, S) PROVE ContentInv'
    BY <1>2 DEF AddItems, Serving, Touch
<1>3. ASSUME NEW c \in Clients, NEW S \in SUBSET Entities, RemoveItems(c, S) PROVE
   ContentInv'
    BY <1>3 DEF RemoveItems, Touch, Respond
<1>4. ASSUME NEW c \in Clients, StartRun(c) PROVE ContentInv'
    BY <1>4 DEF StartRun, WithState, Touch, Respond
<1>5. ASSUME NEW c \in Clients, CancelRun(c) PROVE ContentInv'
    BY <1>5 DEF CancelRun, WithState, Touch, Goto
<1>6. ASSUME NEW c \in Clients, RetryItems(c) PROVE ContentInv'
    BY <1>6 DEF RetryItems, Touch, Goto
<1>7. ASSUME NEW c \in Clients, RetryRun(c) PROVE ContentInv'
    BY <1>7 DEF RetryRun, WithState, Touch, Respond
<1>8. ASSUME NEW c \in Clients, DeleteItems(c) PROVE ContentInv'
    BY <1>8 DEF DeleteItems, Touch, Goto
<1>9. ASSUME NEW c \in Clients, DeleteRun(c) PROVE ContentInv'
    BY <1>9 DEF DeleteRun, Touch, Respond
<1>10. ASSUME NEW j \in Jobs, Claim(j) PROVE ContentInv'
    BY <1>10 DEF Claim, Moves
<1>11. ASSUME NEW S \in SUBSET todo, NEW outcome \in [Entities -> Decided],
   CommitChunk(S, outcome) PROVE ContentInv'
    BY <1>11 DEF CommitChunk, Moves, Recorded, Rows
<1>12. ASSUME NEW i \in todo, RecordTrivial(i) PROVE ContentInv'
    BY <1>12 DEF RecordTrivial, Moves, Recorded, Rows, Vanished
<1>13. ASSUME NEW i \in todo, WriteContent(i) PROVE ContentInv'
    BY <1>13 DEF WriteContent, Moves
<1>14. ASSUME NEW i \in todo, NEW o \in Decided, RecordOnly(i, o) PROVE ContentInv'
    BY <1>14 DEF RecordOnly, Moves, Recorded, Rows, AfterItem
<1>15. ASSUME RecordContent PROVE ContentInv'
    BY <1>15 DEF RecordContent, Moves, Recorded, Rows, AfterItem
<1>16. ASSUME Finalize PROVE ContentInv'
    BY <1>16 DEF Finalize, Moves, WithState, Finished
<1>17. ASSUME Boot PROVE ContentInv'
    BY <1>17 DEF Boot
<1>18. CASE Tick \/ Sleep \/ Register \/ ReadQueue \/ CheckStop \/ AskChain \/
   StageReturns \/ StageFails \/ Release \/ Crash \/ Exit
    BY <1>18 DEF Tick, Moves, Sleep, Register, ReadQueue, Pending, Rows, CheckStop,
       AskChain, Vanished, StageReturns, StageFails, Release, Crash, Down, Exit
<1>19. CASE
      \/ \E c \in Clients, j \in Jobs : Opens(c, j)
      \/ \E c \in Clients : CancelSignal(c)
      \/ PollInChain \/ Stop
    BY <1>19 DEF Opens, RemoveRead, StartRead, DeleteRead, RetryRead, CancelRead,
       Reads, Serving, Enter, CancelSignal, Respond, Registered, PollInChain, Stop
<1>20. CASE UNCHANGED vars
    BY <1>20 DEF vars
<1> QED
    BY <1>1, <1>2, <1>3, <1>4, <1>5, <1>6, <1>7, <1>8, <1>9, <1>10, <1>11, <1>12,
       <1>13, <1>14, <1>15, <1>16, <1>17, <1>18, <1>19, <1>20 DEF Next, Request,
       ExecutorStep, Opens

\* Contents are never withdrawn, and a ledger row follows its content.
LEMMA AppliedStep ==
    TypeOK /\ ControlInv /\ ContentInv /\ AppliedHasContent /\ [Next]_vars => AppliedHasContent'
<1> SUFFICES ASSUME TypeOK /\ ControlInv /\ ContentInv /\ AppliedHasContent, [Next]_vars
   PROVE AppliedHasContent'
    OBVIOUS
<1> USE DEF TypeOK, DbTyped, ExecTyped, ControlInv, ContentInv, AppliedHasContent,
   dbVars, execVars, reqVars, procVars
<1>1. ASSUME NEW c \in Clients, NEW j \in Jobs, NEW s \in Stages, CreateRun(c, j, s)
   PROVE AppliedHasContent'
    <2>1. state[j] = "absent"
        BY <1>1, ConstantsOK DEF CreateRun, NextId, Jobs
    <2>2. member[j] = [i \in Entities |-> "absent"]
        BY <2>1
    <2> QED
        BY <1>1, <2>1, <2>2 DEF CreateRun
<1>2. ASSUME NEW c \in Clients, NEW j \in Jobs, NEW S \in SUBSET Entities, AddItems(c,
   j, S) PROVE AppliedHasContent'
    BY <1>2 DEF AddItems, Serving, Touch
<1>3. ASSUME NEW c \in Clients, NEW S \in SUBSET Entities, RemoveItems(c, S) PROVE
   AppliedHasContent'
    BY <1>3 DEF RemoveItems, Touch, Respond
<1>4. ASSUME NEW c \in Clients, RetryItems(c) PROVE AppliedHasContent'
    BY <1>4 DEF RetryItems, Touch, Goto
<1>5. ASSUME NEW c \in Clients, DeleteItems(c) PROVE AppliedHasContent'
    BY <1>5 DEF DeleteItems, Touch, Goto
<1>6. ASSUME NEW c \in Clients, DeleteRun(c) PROVE AppliedHasContent'
    BY <1>6 DEF DeleteRun, Touch, Respond
<1>7. ASSUME NEW S \in SUBSET todo, NEW outcome \in [Entities -> Decided],
   CommitChunk(S, outcome) PROVE AppliedHasContent'
    BY <1>7 DEF CommitChunk, Moves, Recorded, Rows
<1>8. ASSUME NEW i \in todo, RecordTrivial(i) PROVE AppliedHasContent'
    BY <1>8 DEF RecordTrivial, Moves, Recorded, Rows, Vanished
<1>9. ASSUME NEW i \in todo, WriteContent(i) PROVE AppliedHasContent'
    BY <1>9 DEF WriteContent, Moves
<1>10. ASSUME NEW i \in todo, NEW o \in Decided, RecordOnly(i, o) PROVE
   AppliedHasContent'
    BY <1>10 DEF RecordOnly, Moves, Recorded, Rows, AfterItem
<1>11. ASSUME RecordContent PROVE AppliedHasContent'
    BY <1>11 DEF RecordContent, Moves, Recorded, Rows, AfterItem
<1>12. CASE
      \/ \E c \in Clients, j \in Jobs : Opens(c, j)
      \/ \E c \in Clients : StartRun(c) \/ CancelRun(c) \/ CancelSignal(c) \/
         RetryRun(c)
      \/ Tick \/ Sleep \/ Register \/ ReadQueue \/ CheckStop \/ AskChain \/
         PollInChain \/ StageReturns \/ StageFails \/ Finalize \/ Release \/ Crash \/
         Stop \/ Exit \/ Boot
      \/ \E j \in Jobs : Claim(j)
    BY <1>12 DEF Opens, RemoveRead, StartRead, DeleteRead, RetryRead, CancelRead,
       Reads, Serving, Enter, CancelSignal, Respond, Registered, Tick, Moves, Sleep,
       Register, ReadQueue, Pending, Rows, CheckStop, AskChain, Vanished, PollInChain,
       StageReturns, StageFails, Release, Crash, Down, Stop, Exit, StartRun,
       WithState, Touch, CancelRun, Goto, RetryRun, Claim, Finalize, Boot
<1>13. CASE UNCHANGED vars
    BY <1>13 DEF vars
<1> QED
    BY <1>1, <1>2, <1>3, <1>4, <1>5, <1>6, <1>7, <1>8, <1>9, <1>10, <1>11, <1>12,
       <1>13 DEF Next, Request, ExecutorStep, Opens

--------------------------------------------------------------------------------
(* The invariants of the specification.                                     *)

\* The database an earlier process left, before the first boot.
LEMMA InitHolds ==
    Init => IInv
<1> SUFFICES ASSUME Init PROVE IInv
    OBVIOUS
<1>1. TypeOK
    <2>1. DbTyped
        BY DEF Init, DbTyped, MemberState, RunState
    <2>2. ExecTyped
        BY DEF Init, ExecTyped, Finished
    <2>3. ReqTyped
        BY DEF Init, ReqTyped, Points, Idle
    <2>4. ProcTyped
        BY DEF Init, ProcTyped
    <2> QED
        BY <2>1, <2>2, <2>3, <2>4 DEF TypeOK
<1>2. ControlInv /\ NeverRedecides
    BY DEF Init, ControlInv, NeverRedecides, Idle
<1>3. RunningIsOwned
    BY DEF Init, RunningIsOwned
<1>4. QueueInv /\ UntouchedDoneIsDrained
    BY DEF Init, QueueInv, UntouchedDoneIsDrained, DoneIsDrained
<1>5. ContentInv /\ AppliedHasContent
    BY DEF Init, ContentInv, AppliedHasContent
<1> QED
    BY <1>1, <1>2, <1>3, <1>4, <1>5 DEF IInv

\* The conjuncts together are inductive.
LEMMA IInvStep ==
    IInv /\ [Next]_vars => IInv'
BY TypeStep, ControlStep, NeverStep, RunningStep, QueueStep, DoneStep, ContentStep,
   AppliedStep DEF IInv

\* The inductive invariant holds throughout, for any number of runs, members, operators,
\* requests and restarts.
THEOREM Invariance ==
    Spec => []IInv
<1> QED
    BY InitHolds, IInvStep, PTL DEF Spec

\* Every row, field and program point has a value of its type in every state.
THEOREM TypeCorrect ==
    Spec => []TypeOK
<1>1. IInv => TypeOK
    BY DEF IInv
<1> QED
    BY <1>1, Invariance, PTL

\* No interleaving of handlers, executor and restarts lets the executor decide a member
\* that is already decided (runs.py, base.run_item_ids, ledger.record_run).
THEOREM NoRedecision ==
    Spec => []NeverRedecides
<1>1. IInv => NeverRedecides
    BY DEF IInv
<1> QED
    BY <1>1, Invariance, PTL

\* A run that reads `running' while the process is up is being executed (claim_next,
\* _finalize, requeue_interrupted).
THEOREM RunningOwned ==
    Spec => []RunningIsOwned
<1>1. IInv => RunningIsOwned
    BY DEF IInv
<1> QED
    BY <1>1, Invariance, PTL

\* A run of a stage whose members cannot vanish that ended `done', untouched since it
\* was claimed, has no pending member (run_job, StageReturns).
THEOREM NothingLost ==
    Spec => []UntouchedDoneIsDrained
<1>1. IInv => UntouchedDoneIsDrained
    BY DEF IInv
<1> QED
    BY <1>1, Invariance, PTL

\* A member that reads applied has its content committed, except where the stage applies
\* without content (extract, connect and the chunk stages).
THEOREM AppliedCommitted ==
    Spec => []AppliedHasContent
<1>1. IInv => AppliedHasContent
    BY DEF IInv
<1> QED
    BY <1>1, Invariance, PTL

--------------------------------------------------------------------------------
(* The refinement.                                                          *)

\* The initial states map to initial states.
LEMMA LedgerInit ==
    Init => Ledger!Init
BY DEF Init, Ledger!Init

\* What the executor writes in the ledger is a decision about pending members of the run
\* it owns: Recorded leaves out the rows that are gone, NeverRedecides does the rest.
LEMMA Deciding ==
    ASSUME TypeOK, ControlInv, NeverRedecides, cur # NoJob, UNCHANGED cur,
           NEW S \in SUBSET (todo \cup unrecorded), NEW outcome \in [Entities -> Decided],
           member' = Recorded(S, outcome)
    PROVE  Ledger!Next
<1> DEFINE Hit == S \cap Rows
<1>1. Hit \in SUBSET Entities /\ \A i \in Hit : member[cur][i] = "pending"
    BY DEF Rows, NeverRedecides, TypeOK, ExecTyped
<1>2. cur \in Jobs
    BY DEF TypeOK, ExecTyped
<1>3. Ledger!Decide(cur, Hit, outcome)
    BY <1>1 DEF Ledger!Decide, Recorded
<1>4. outcome \in [Entities -> Ledger!Decided]
    BY DEF Decided, Ledger!Decided
<1> QED
    BY <1>1, <1>2, <1>3, <1>4 DEF Ledger!Next

\* Every step maps to a step of MemberLedger or to a stutter.
LEMMA LedgerStep ==
    IInv /\ [Next]_vars => [Ledger!Next]_<<member, cur>>
<1> SUFFICES ASSUME IInv, [Next]_vars PROVE [Ledger!Next]_<<member, cur>>
    OBVIOUS
<1> USE DEF IInv, dbVars, execVars, reqVars, procVars
<1>1. ASSUME NEW c \in Clients, NEW j \in Jobs, NEW S \in SUBSET Entities, AddItems(c,
   j, S) PROVE [Ledger!Next]_<<member, cur>>
    <2> DEFINE New == {i \in S : member[j][i] = "absent"}
    <2>1. Ledger!Load(j, New)
        BY <1>1 DEF AddItems, Ledger!Load
    <2> QED
        BY <2>1 DEF Ledger!Next
<1>2. ASSUME NEW c \in Clients, NEW S \in SUBSET Entities, RemoveItems(c, S)
   PROVE [Ledger!Next]_<<member, cur>>
    <2> DEFINE j == req[c].job
    <2>1. j \in Jobs /\ UNCHANGED cur
        BY <1>2 DEF RemoveItems, Touch, Respond, Goto, TypeOK, ReqTyped, ControlInv
    <2>2. Ledger!Drop(j, S)
        BY <1>2 DEF RemoveItems, Ledger!Drop
    <2> QED
        BY <2>1, <2>2 DEF Ledger!Next
<1>3. ASSUME NEW c \in Clients, DeleteItems(c) PROVE [Ledger!Next]_<<member, cur>>
    <2> DEFINE j == req[c].job
    <2>1. j \in Jobs /\ UNCHANGED cur
        BY <1>3 DEF DeleteItems, Touch, Respond, Goto, TypeOK, ReqTyped, ControlInv
    <2>2. Ledger!Drop(j, Entities)
        BY <1>3 DEF DeleteItems, Ledger!Drop
    <2> QED
        BY <2>1, <2>2 DEF Ledger!Next
<1>4. ASSUME NEW c \in Clients, DeleteRun(c) PROVE [Ledger!Next]_<<member, cur>>
    <2> DEFINE j == req[c].job
    <2>1. j \in Jobs /\ UNCHANGED cur
        BY <1>4 DEF DeleteRun, Touch, Respond, Goto, TypeOK, ReqTyped, ControlInv
    <2>2. Ledger!Drop(j, Entities)
        BY <1>4 DEF DeleteRun, Ledger!Drop
    <2> QED
        BY <2>1, <2>2 DEF Ledger!Next
<1>5. ASSUME NEW c \in Clients, RetryItems(c) PROVE [Ledger!Next]_<<member, cur>>
    <2> DEFINE j == req[c].job
    <2>1. j \in Jobs /\ UNCHANGED cur
        BY <1>5 DEF RetryItems, TypeOK, ReqTyped, ControlInv
    <2>2. Ledger!Reopen(j)
        BY <1>5 DEF RetryItems, Ledger!Reopen
    <2> QED
        BY <2>1, <2>2 DEF Ledger!Next
<1>6. ASSUME NEW j \in Jobs, Claim(j) PROVE [Ledger!Next]_<<member, cur>>
    <2>1. Ledger!Acquire(j)
        BY <1>6 DEF Claim, Moves, ControlInv, Ledger!Acquire
    <2> QED
        BY <2>1 DEF Ledger!Next
<1>7. ASSUME NEW S \in SUBSET todo, NEW outcome \in [Entities -> Decided],
   CommitChunk(S, outcome) PROVE [Ledger!Next]_<<member, cur>>
    <2>1. cur # NoJob /\ UNCHANGED cur
        BY <1>7 DEF CommitChunk, Moves, ControlInv
    <2>2. S \in SUBSET (todo \cup unrecorded) /\ member' = Recorded(S, outcome)
        BY <1>7 DEF CommitChunk
    <2>3. outcome \in [Entities -> Decided]
        BY DEF Decided
    <2> QED
        BY <2>1, <2>2, <2>3, Deciding
<1>8. ASSUME NEW i \in todo, RecordTrivial(i) PROVE [Ledger!Next]_<<member, cur>>
    <2>1. cur # NoJob /\ UNCHANGED cur
        BY <1>8 DEF RecordTrivial, Moves, ControlInv
    <2>2. {i} \in SUBSET (todo \cup unrecorded) /\ member' = Recorded({i}, [k \in Entities |-> "applied"])
        BY <1>8 DEF RecordTrivial
    <2>3. [k \in Entities |-> "applied"] \in [Entities -> Decided]
        BY DEF Decided
    <2> QED
        BY <2>1, <2>2, <2>3, Deciding
<1>9. ASSUME NEW i \in todo, NEW o \in Decided, RecordOnly(i, o)
   PROVE [Ledger!Next]_<<member, cur>>
    <2>1. cur # NoJob /\ UNCHANGED cur
        BY <1>9 DEF RecordOnly, Moves, ControlInv
    <2>2. {i} \in SUBSET (todo \cup unrecorded) /\ member' = Recorded({i}, [k \in Entities |-> o])
        BY <1>9 DEF RecordOnly
    <2>3. [k \in Entities |-> o] \in [Entities -> Decided]
        BY DEF Decided
    <2> QED
        BY <2>1, <2>2, <2>3, Deciding
<1>10. ASSUME RecordContent PROVE [Ledger!Next]_<<member, cur>>
    <2>1. cur # NoJob /\ UNCHANGED cur
        BY <1>10 DEF RecordContent, Moves, ControlInv
    <2>2. unrecorded \in SUBSET (todo \cup unrecorded) /\ member' = Recorded(unrecorded, [k \in Entities |-> "applied"])
        BY <1>10 DEF RecordContent
    <2>3. [k \in Entities |-> "applied"] \in [Entities -> Decided]
        BY DEF Decided
    <2> QED
        BY <2>1, <2>2, <2>3, Deciding
<1>11. CASE Release \/ Crash \/ Exit
    <2>1. Ledger!Release
        BY <1>11 DEF Release, Crash, Exit, Down, Ledger!Release
    <2> QED
        BY <2>1 DEF Ledger!Next
<1>12. CASE
      \/ \E c \in Clients, j \in Jobs, s \in Stages : CreateRun(c, j, s)
      \/ \E c \in Clients, j \in Jobs : Opens(c, j)
      \/ \E c \in Clients : StartRun(c) \/ CancelRun(c) \/ CancelSignal(c) \/
         RetryRun(c)
      \/ Stop \/ Boot
    BY <1>12 DEF CreateRun, Serving, NextId, Touch, Opens, RemoveRead, StartRead,
       DeleteRead, RetryRead, CancelRead, Reads, Enter, StartRun, WithState, Respond,
       CancelRun, Goto, CancelSignal, Registered, RetryRun, Stop, Boot
<1>13. CASE
      \/ Tick \/ Sleep \/ Register \/ ReadQueue \/ CheckStop \/ AskChain \/
         PollInChain \/ StageReturns \/ StageFails \/ Finalize
      \/ \E i \in todo : WriteContent(i)
    BY <1>13 DEF Tick, Moves, Sleep, Register, ReadQueue, Pending, Rows, CheckStop,
       AskChain, Vanished, PollInChain, WriteContent, StageReturns, StageFails,
       Finalize, WithState
<1>14. CASE UNCHANGED vars
    BY <1>14 DEF vars
<1> QED
    BY <1>1, <1>2, <1>3, <1>4, <1>5, <1>6, <1>7, <1>8, <1>9, <1>10, <1>11, <1>12,
       <1>13, <1>14 DEF Next, Request, ExecutorStep, Opens

\* The run executor, with its handlers and its restarts, implements MemberLedger: a member
\* is decided once, by the owner of its run, and only a failed one is ever reopened.
THEOREM Refinement ==
    Spec => LedgerSpec
<1> USE DEF Ledger!ledgerVars
<1> QED
    BY LedgerInit, LedgerStep, Invariance, PTL DEF Spec, LedgerSpec, Ledger!Spec
==============================================================================
