------------------------------ MODULE RunExecutor ------------------------------
(***************************************************************************)
(* The life of a run: the `jobs' row and its `job_items' members, the      *)
(* request handlers that assemble, start, cancel, retry and delete runs    *)
(* (ingredients/runs.py behind app/routers/ops.py), the single executor    *)
(* thread that claims a queued run, works through its pending members and  *)
(* finalizes it (worker/runner.py, app/executor.py), and the restarts of   *)
(* the process that hosts both.                                            *)
(*                                                                         *)
(* Every statement outside a transaction block commits on its own, so a    *)
(* handler that reads the row and then writes it is two actions here, and  *)
(* the program point of each request is in `req'.  What the handlers and   *)
(* the executor share is the database (state, member, content) and the     *)
(* cancel event of the run being executed.                                 *)
(*                                                                         *)
(* The stages differ in how they commit, in four classes:                  *)
(*   "parse"   parse, convert, cluster, export: a chunk of members, their  *)
(*             content and their ledger rows, in one transaction; the      *)
(*             cancel signal is never consulted;                           *)
(*   "extract" one page at a time, the cancel signal consulted before each *)
(*             page; the recipe is committed before the ledger row;        *)
(*   "connect" the nodes merged away are skipped, the provider chain is    *)
(*             asked, then one node at a time: the placement is committed  *)
(*             before the ledger row;                                      *)
(*   "combine" the same, and the committed content is a merge, after which *)
(*             the node itself is gone.                                    *)
(***************************************************************************)
EXTENDS Naturals, FiniteSets

CONSTANTS
    NumJobs,      \* bound: run ids are 1..NumJobs
    Entities,     \* the entities a run may have as members
    Clients,      \* operators' requests in flight at the same time
    Stages,       \* the stage classes runs are created for
    MaxRestarts,  \* bound: crashes and shutdowns of the process
    MaxRequests   \* bound: requests the operators make

ASSUME ConstantsOK ==
    /\ NumJobs \in Nat \ {0}
    /\ Stages \subseteq {"parse", "extract", "connect", "combine"}
    /\ MaxRestarts \in Nat
    /\ MaxRequests \in Nat

Jobs  == 1 .. NumJobs
NoJob == 0
NoStage == "none"

VARIABLES
    state,       \* jobs.state of each run, "absent" when there is no row
    stage,       \* jobs.stage (its class)
    member,      \* job_items.state of each entity in each run
    content,     \* the members whose stage output is committed
    touched,     \* history: an operator wrote the run since it was last claimed
    up,          \* the process is serving
    stopping,    \* executor.stop() was called (graceful shutdown)
    exec,        \* program point of the executor thread
    cur,         \* the run it is executing
    curStage,    \* the stage in the claimed row, which it dispatches on
    todo,        \* members of the queue it read that are still to be processed
    unrecorded,  \* the member whose content is committed and ledger row is not
    event,       \* JobControl.event of the current run
    verdict,     \* the state _finalize is about to write
    req,         \* program point and run of each request in flight
    requests,    \* requests made so far
    restarts     \* restarts so far

dbVars   == <<state, stage, member, content, touched>>
execVars == <<exec, cur, curStage, todo, unrecorded, event, verdict>>
reqVars  == <<req, requests>>
procVars == <<up, stopping, restarts>>
vars     == <<dbVars, execVars, reqVars, procVars>>

--------------------------------------------------------------------------------
(* The ledger the executor and the handlers share.                          *)

Decided     == {"applied", "flagged", "failed"}
MemberState == {"absent", "pending"} \cup Decided
Finished    == {"done", "failed", "cancelled"}
RunState    == {"absent", "draft", "queued", "running", "cancelling"} \cup Finished

\* `where id = ?' updates no row when the run is gone.
WithState(j, s) == IF state[j] = "absent" THEN state ELSE [state EXCEPT ![j] = s]

Touch(j) == touched' = [touched EXCEPT ![j] = TRUE]

Pending(j) == {i \in Entities : member[j][i] = "pending"}

\* The executor holds the control of `cur' from its registration to its release.
Registered == exec \notin {"idle", "ready", "claimed"}

Points == {"idle", "removeItems", "startRun", "deleteItems", "deleteRun", "retryItems",
           "retryRun", "cancelNow", "cancelAsk", "signal"}

Idle == [at |-> "idle", job |-> NoJob]

--------------------------------------------------------------------------------
(* Requests.                                                                *)

Serving(c) == up /\ ~stopping /\ req[c] = Idle /\ requests < MaxRequests

Enter(c, point, j) ==
    /\ req' = [req EXCEPT ![c] = [at |-> point, job |-> j]]
    /\ requests' = requests + 1

Goto(c, point) ==
    /\ req' = [req EXCEPT ![c].at = point]
    /\ UNCHANGED requests

Respond(c) ==
    /\ req' = [req EXCEPT ![c] = Idle]
    /\ UNCHANGED requests

\* create_run: `integer primary key' gives the row one more than the largest id.
NextId(j) ==
    /\ \A k \in Jobs : k >= j => state[k] = "absent"
    /\ j # 1 => state[j - 1] # "absent"

CreateRun(c, j, s) ==
    /\ Serving(c)
    /\ NextId(j)
    /\ state' = [state EXCEPT ![j] = "draft"]
    /\ stage' = [stage EXCEPT ![j] = s]
    /\ Touch(j)
    /\ requests' = requests + 1
    /\ UNCHANGED <<member, content, req, execVars, procVars>>

\* add_run_items: new members are pending, existing ones are left alone; the run
\* may be in any state.  One statement (a foreign key needs the run).
AddItems(c, j, S) ==
    /\ Serving(c)
    /\ state[j] # "absent"
    /\ member' = [member EXCEPT ![j] =
                    [i \in Entities |-> IF i \in S /\ member[j][i] = "absent"
                                        THEN "pending" ELSE member[j][i]]]
    /\ Touch(j)
    /\ requests' = requests + 1
    /\ UNCHANGED <<state, stage, content, req, execVars, procVars>>

\* The read of `_job' that opens a handler, with the check that follows it: the
\* point the handler goes on from.  A refused request changes nothing.
Reads(c, j, from, point) ==
    /\ Serving(c)
    /\ state[j] \in from
    /\ Enter(c, point, j)
    /\ UNCHANGED <<dbVars, execVars, procVars>>

RemoveRead(c, j) == Reads(c, j, {"draft"}, "removeItems")
StartRead(c, j)  == Reads(c, j, {"draft"}, "startRun")
DeleteRead(c, j) == Reads(c, j, {"draft"}, "deleteItems")
RetryRead(c, j)  == Reads(c, j, Finished, "retryItems")
CancelRead(c, j) ==
    \/ Reads(c, j, {"draft", "queued"}, "cancelNow")
    \/ Reads(c, j, {"running"}, "cancelAsk")
    \/ Reads(c, j, {"cancelling"} \cup Finished, "signal")

\* remove_run_items, on what the read found to be a draft.
RemoveItems(c, S) ==
    LET j == req[c].job IN
    /\ req[c].at = "removeItems"
    /\ member' = [member EXCEPT ![j] =
                    [i \in Entities |-> IF i \in S THEN "absent" ELSE member[j][i]]]
    /\ Touch(j)
    /\ Respond(c)
    /\ UNCHANGED <<state, stage, content, execVars, procVars>>

\* start_run: draft -> queued.  Executor.wake() only shortens the sleep.
StartRun(c) ==
    LET j == req[c].job IN
    /\ req[c].at = "startRun"
    /\ state' = WithState(j, "queued")
    /\ Touch(j)
    /\ Respond(c)
    /\ UNCHANGED <<stage, member, content, execVars, procVars>>

\* cancel_run: the row first, then executor.cancel() trips the event of the run
\* if its control is registered.
CancelRun(c) ==
    LET j == req[c].job IN
    /\ \/ req[c].at = "cancelNow" /\ state' = WithState(j, "cancelled")
       \/ req[c].at = "cancelAsk" /\ state' = WithState(j, "cancelling")
    /\ Touch(j)
    /\ Goto(c, "signal")
    /\ UNCHANGED <<stage, member, content, execVars, procVars>>

CancelSignal(c) ==
    /\ req[c].at = "signal"
    /\ event' = (event \/ (Registered /\ cur = req[c].job))
    /\ Respond(c)
    /\ UNCHANGED <<dbVars, exec, cur, curStage, todo, unrecorded, verdict, procVars>>

\* Mutant: a retry reopens every decided member.
RetryItemsReopensAll(c) ==
    LET j == req[c].job IN
    /\ req[c].at = "retryItems"
    /\ member' = [member EXCEPT ![j] =
                    [i \in Entities |-> IF member[j][i] \in Decided THEN "pending"
                                                                   ELSE member[j][i]]]
    /\ Touch(j)
    /\ Goto(c, "retryRun")
    /\ UNCHANGED <<state, stage, content, execVars, procVars>>

\* retry_run: the failed members go back to pending, then the run is queued.
RetryItems(c) ==
    LET j == req[c].job IN
    /\ req[c].at = "retryItems"
    /\ member' = [member EXCEPT ![j] =
                    [i \in Entities |-> IF member[j][i] = "failed" THEN "pending"
                                                                   ELSE member[j][i]]]
    /\ Touch(j)
    /\ Goto(c, "retryRun")
    /\ UNCHANGED <<state, stage, content, execVars, procVars>>

RetryRun(c) ==
    LET j == req[c].job IN
    /\ req[c].at = "retryRun"
    /\ state' = WithState(j, "queued")
    /\ Touch(j)
    /\ Respond(c)
    /\ UNCHANGED <<stage, member, content, execVars, procVars>>

\* delete_run: the members, then the row (a member added in between loses its run).
DeleteItems(c) ==
    LET j == req[c].job IN
    /\ req[c].at = "deleteItems"
    /\ member' = [member EXCEPT ![j] = [i \in Entities |-> "absent"]]
    /\ Touch(j)
    /\ Goto(c, "deleteRun")
    /\ UNCHANGED <<state, stage, content, execVars, procVars>>

DeleteRun(c) ==
    LET j == req[c].job IN
    /\ req[c].at = "deleteRun"
    /\ state' = [state EXCEPT ![j] = "absent"]
    /\ member' = [member EXCEPT ![j] = [i \in Entities |-> "absent"]]
    /\ Touch(j)
    /\ Respond(c)
    /\ UNCHANGED <<stage, content, execVars, procVars>>

Request(c) ==
    \/ \E j \in Jobs, s \in Stages : CreateRun(c, j, s)
    \/ \E j \in Jobs, S \in SUBSET Entities : S # {} /\ AddItems(c, j, S)
    \/ \E S \in SUBSET Entities : S # {} /\ RemoveItems(c, S)
    \/ \E j \in Jobs : \/ RemoveRead(c, j) \/ StartRead(c, j) \/ CancelRead(c, j)
                       \/ RetryRead(c, j) \/ DeleteRead(c, j)
    \/ StartRun(c) \/ CancelRun(c) \/ CancelSignal(c)
    \/ RetryItems(c) \/ RetryRun(c) \/ DeleteItems(c) \/ DeleteRun(c)

--------------------------------------------------------------------------------
(* The executor thread.                                                     *)

Moves(from, to) == up /\ exec \in from /\ exec' = to

\* The head of _loop: one more tick unless stop() was called.
Tick ==
    /\ Moves({"idle"}, "ready")
    /\ ~stopping
    /\ UNCHANGED <<dbVars, cur, curStage, todo, unrecorded, event, verdict, reqVars, procVars>>

\* Nothing is queued: sleep until a wake or the poll interval is over.
Sleep ==
    /\ Moves({"ready"}, "idle")
    /\ \A j \in Jobs : state[j] # "queued"
    /\ UNCHANGED <<dbVars, cur, curStage, todo, unrecorded, event, verdict, reqVars, procVars>>

\* claim_next, in one transaction: the oldest queued run is running.
Claim(j) ==
    /\ Moves({"ready"}, "claimed")
    /\ state[j] = "queued"
    /\ \A k \in Jobs : state[k] = "queued" => j <= k
    /\ state' = [state EXCEPT ![j] = "running"]
    /\ touched' = [touched EXCEPT ![j] = FALSE]
    /\ cur' = j
    /\ curStage' = stage[j]
    /\ UNCHANGED <<stage, member, content, todo, unrecorded, event, verdict,
                   reqVars, procVars>>

\* The control of the run is published under the lock: from here on a cancel
\* finds it.
Register ==
    /\ Moves({"claimed"}, "read")
    /\ UNCHANGED <<dbVars, cur, curStage, todo, unrecorded, event, verdict, reqVars, procVars>>

\* The rows of the current run: a member carries the stage of its run, and both
\* run_item_ids and record_run select by run id and stage.  (A deleted run's id is
\* given to the next run, which may be for another stage.)
Rows == IF stage[cur] = curStage THEN {i \in Entities : member[cur][i] # "absent"} ELSE {}

\* record_run(s): an update, which a member deleted in the meantime does not see.
Recorded(S, outcome) ==
    [member EXCEPT ![cur] = [i \in Entities |-> IF i \in S \cap Rows THEN outcome[i]
                                                                   ELSE member[cur][i]]]

\* Mutant: the queue is every member, whatever its state.
ReadQueueOfAll ==
    /\ Moves({"read"}, "work")
    /\ todo' = Rows
    /\ UNCHANGED <<dbVars, cur, curStage, unrecorded, event, verdict, reqVars, procVars>>

\* run_item_ids: the pending members, read once.
ReadQueue ==
    /\ Moves({"read"}, "work")
    /\ todo' = Pending(cur) \cap Rows
    /\ UNCHANGED <<dbVars, cur, curStage, unrecorded, event, verdict, reqVars, procVars>>

\* A chunk of the parse class: content and ledger rows in one transaction.
CommitChunk(S, outcome) ==
    /\ Moves({"work"}, "work")
    /\ curStage = "parse"
    /\ S \subseteq todo
    /\ \A i \in S : outcome[i] # "failed"
    /\ content' = [content EXCEPT !["parse"] = @ \cup S]
    /\ member' = Recorded(S, outcome)
    /\ todo' = todo \ S
    /\ UNCHANGED <<state, stage, touched, cur, curStage, unrecorded, event, verdict,
                   reqVars, procVars>>

\* should_stop() before a page: the event, or else, when the throttle lets it, the
\* row.  When it answers no, the next page is processed.
CheckStop ==
    /\ up /\ exec = "work" /\ curStage = "extract" /\ todo # {}
    /\ \/ /\ event \/ state[cur] = "cancelling"
          /\ event' = TRUE
          /\ todo' = {}
          /\ UNCHANGED exec
       \/ /\ ~event
          /\ exec' = "item"
          /\ UNCHANGED <<event, todo>>
    /\ UNCHANGED <<dbVars, cur, curStage, unrecorded, verdict, reqVars, procVars>>

\* The nodes that have been merged away: combine and connect leave them out.
Vanished == IF "combine" \in Stages THEN content["combine"] ELSE {}

\* Pass 1 of combine: a node without a merge candidate is distinct at once.
RecordTrivial(i) ==
    /\ Moves({"work"}, "work")
    /\ curStage = "combine"
    /\ i \in todo \ Vanished
    /\ member' = Recorded({i}, [k \in Entities |-> "applied"])
    /\ todo' = todo \ {i}
    /\ UNCHANGED <<state, stage, content, touched, cur, curStage, unrecorded, event,
                   verdict, reqVars, procVars>>

\* The members whose node still exists are put to the chain.
AskChain ==
    /\ Moves({"work"}, "item")
    /\ curStage \in {"connect", "combine"}
    /\ todo' = todo \ Vanished
    /\ UNCHANGED <<dbVars, cur, curStage, unrecorded, event, verdict, reqVars, procVars>>

\* The chain consults should_stop before each pack: in combine before any answer
\* is applied, in connect before each chunk, in extract for each page.
PollInChain ==
    /\ up /\ exec = IF curStage = "combine" THEN "work" ELSE "item"
    /\ curStage # "parse"
    /\ state[cur] = "cancelling"
    /\ event' = TRUE
    /\ UNCHANGED <<dbVars, exec, cur, curStage, todo, unrecorded, verdict, reqVars,
                   procVars>>

\* Where a stage goes after a member: extract checks should_stop again.
AfterItem == IF curStage = "extract" THEN "work" ELSE "item"

\* A member decided without any content: a page without a recipe or without its
\* HTML, a node that is distinct (combine) or parked for review.
RecordOnly(i, o) ==
    /\ Moves({"item"}, AfterItem)
    /\ i \in todo
    /\ \/ o = "flagged"
       \/ o = "failed" /\ curStage = "extract"
       \/ o = "applied" /\ curStage = "combine"
    /\ member' = Recorded({i}, [k \in Entities |-> o])
    /\ todo' = todo \ {i}
    /\ UNCHANGED <<state, stage, content, touched, cur, curStage, unrecorded, event, verdict,
                   reqVars, procVars>>

\* Mutant: the ledger row is committed before the content.
WriteContentLast(i) ==
    /\ Moves({"item"}, "record")
    /\ i \in todo
    /\ member' = Recorded({i}, [k \in Entities |-> "applied"])
    /\ todo' = todo \ {i}
    /\ unrecorded' = {i}
    /\ UNCHANGED <<state, stage, content, touched, cur, curStage, event, verdict,
                   reqVars, procVars>>

\* _upsert_recipe, connect_place, combine_merge: committed on its own ...
WriteContent(i) ==
    /\ Moves({"item"}, "record")
    /\ i \in todo
    /\ content' = [content EXCEPT ![curStage] = @ \cup {i}]
    /\ todo' = todo \ {i}
    /\ unrecorded' = {i}
    /\ UNCHANGED <<state, stage, member, touched, cur, curStage, event, verdict, reqVars, procVars>>

\* ... and then the ledger row.
RecordContent ==
    /\ Moves({"record"}, AfterItem)
    /\ member' = Recorded(unrecorded, [k \in Entities |-> "applied"])
    /\ unrecorded' = {}
    /\ UNCHANGED <<state, stage, content, touched, cur, curStage, todo, event, verdict,
                   reqVars, procVars>>

\* Mutant: a stage that returned is done, however it came to return.
StageReturnsDone ==
    /\ Moves(IF curStage \in {"parse", "extract"} THEN {"work"} ELSE {"item"}, "finalize")
    /\ todo = {}
    /\ verdict' = "done"
    /\ UNCHANGED <<dbVars, cur, curStage, todo, unrecorded, event, reqVars, procVars>>

\* The stage returns: run_job reads the event once to choose the verdict.
StageReturns ==
    /\ Moves(IF curStage \in {"parse", "extract"} THEN {"work"} ELSE {"item"}, "finalize")
    /\ todo = {}
    /\ verdict' = IF event THEN "cancelled" ELSE "done"
    /\ UNCHANGED <<dbVars, cur, curStage, todo, unrecorded, event, reqVars, procVars>>

\* Mutant: the error code is written where the state belongs.
StageFailsWithCode ==
    /\ Moves({"read", "work", "item", "record"}, "finalize")
    /\ verdict' = "stage_error"
    /\ todo' = {}
    /\ unrecorded' = {}
    /\ UNCHANGED <<dbVars, cur, curStage, event, reqVars, procVars>>

\* Anything raised from building the providers to the last member: what was
\* committed stays, an open transaction is rolled back.
StageFails ==
    /\ Moves({"read", "work", "item", "record"}, "finalize")
    /\ verdict' = "failed"
    /\ todo' = {}
    /\ unrecorded' = {}
    /\ UNCHANGED <<dbVars, cur, curStage, event, reqVars, procVars>>

\* _finalize: an update without a condition on the state.
Finalize ==
    /\ Moves({"finalize"}, "release")
    /\ state' = WithState(cur, verdict)
    /\ UNCHANGED <<stage, member, content, touched, cur, curStage, todo, unrecorded, event,
                   verdict, reqVars, procVars>>

\* The control is dropped; the next tick drains the queue.
Release ==
    /\ Moves({"release"}, "idle")
    /\ cur' = NoJob
    /\ curStage' = NoStage
    /\ event' = FALSE
    /\ verdict' = "done"
    /\ UNCHANGED <<dbVars, todo, unrecorded, reqVars, procVars>>

ExecutorStep ==
    \/ Tick \/ Sleep \/ Register \/ ReadQueue
    \/ \E j \in Jobs : Claim(j)
    \/ \E S \in SUBSET todo, outcome \in [Entities -> Decided] :
          S # {} /\ CommitChunk(S, outcome)
    \/ CheckStop \/ AskChain \/ PollInChain
    \/ \E i \in todo : RecordTrivial(i) \/ WriteContent(i)
    \/ \E i \in todo, o \in Decided : RecordOnly(i, o)
    \/ RecordContent \/ StageReturns \/ StageFails \/ Finalize \/ Release

--------------------------------------------------------------------------------
(* The process.                                                             *)

\* What lives in memory is gone; the committed database stays.
Down ==
    /\ up' = FALSE
    /\ stopping' = FALSE
    /\ exec' = "idle"
    /\ cur' = NoJob
    /\ curStage' = NoStage
    /\ todo' = {}
    /\ unrecorded' = {}
    /\ event' = FALSE
    /\ verdict' = "done"
    /\ req' = [c \in Clients |-> Idle]
    /\ UNCHANGED <<dbVars, requests>>

Crash ==
    /\ up /\ restarts < MaxRestarts
    /\ restarts' = restarts + 1
    /\ Down

\* A graceful shutdown: the server has drained its requests, then stop() ends the
\* loop and trips every registered control ...
Stop ==
    /\ up /\ ~stopping /\ restarts < MaxRestarts
    /\ \A c \in Clients : req[c] = Idle
    /\ stopping' = TRUE
    /\ event' = (event \/ Registered)
    /\ restarts' = restarts + 1
    /\ UNCHANGED <<dbVars, exec, cur, curStage, todo, unrecorded, verdict, reqVars, up>>

\* ... and the process exits when the thread has ended or the join times out.
Exit ==
    /\ up /\ stopping
    /\ Down
    /\ UNCHANGED restarts

\* Mutant: only the runs that were being cancelled are requeued.
BootForgetsRunning ==
    /\ ~up
    /\ up' = TRUE
    /\ state' = [j \in Jobs |-> IF state[j] = "cancelling" THEN "queued" ELSE state[j]]
    /\ UNCHANGED <<stage, member, content, touched, execVars, reqVars, stopping, restarts>>

\* requeue_interrupted, before the executor and the server start.
Boot ==
    /\ ~up
    /\ up' = TRUE
    /\ state' = [j \in Jobs |-> IF state[j] \in {"running", "cancelling"}
                                THEN "queued" ELSE state[j]]
    /\ UNCHANGED <<stage, member, content, touched, execVars, reqVars, stopping, restarts>>

Next ==
    \/ \E c \in Clients : Request(c)
    \/ ExecutorStep
    \/ Crash \/ Stop \/ Exit \/ Boot

\* A database some earlier process left: drafts, loaded or empty.
Init ==
    /\ \E n \in 0 .. NumJobs : state = [j \in Jobs |-> IF j <= n THEN "draft" ELSE "absent"]
    /\ stage \in [Jobs -> Stages]
    /\ member \in [Jobs -> [Entities -> {"absent", "pending"}]]
    /\ \A j \in Jobs : state[j] = "absent" => member[j] = [i \in Entities |-> "absent"]
    /\ content = [s \in Stages |-> {}]
    /\ touched = [j \in Jobs |-> TRUE]
    /\ up = FALSE
    /\ stopping = FALSE
    /\ exec = "idle"
    /\ cur = NoJob
    /\ curStage = NoStage
    /\ todo = {}
    /\ unrecorded = {}
    /\ event = FALSE
    /\ verdict = "done"
    /\ req = [c \in Clients |-> Idle]
    /\ requests = 0
    /\ restarts = 0

Spec == Init /\ [][Next]_vars

\* The executor is a thread of its own and the platform restarts the process; an
\* operator need not do anything, nor need a request in flight ever go on.
Fairness == WF_vars(ExecutorStep) /\ WF_vars(Exit) /\ WF_vars(Boot)

FairSpec == Spec /\ Fairness

--------------------------------------------------------------------------------
(* Properties.                                                              *)

DbTyped ==
    /\ state \in [Jobs -> RunState]
    /\ stage \in [Jobs -> Stages]
    /\ member \in [Jobs -> [Entities -> MemberState]]
    /\ content \in [Stages -> SUBSET Entities]
    /\ touched \in [Jobs -> BOOLEAN]

ExecTyped ==
    /\ exec \in {"idle", "ready", "claimed", "read", "work", "item", "record",
                 "finalize", "release"}
    /\ cur \in Jobs \cup {NoJob}
    /\ curStage \in Stages \cup {NoStage}
    /\ todo \subseteq Entities /\ unrecorded \subseteq Entities
    /\ event \in BOOLEAN
    /\ verdict \in Finished

ReqTyped  == req \in [Clients -> [at : Points, job : Jobs \cup {NoJob}]]

ProcTyped == up \in BOOLEAN /\ stopping \in BOOLEAN /\ requests \in Nat /\ restarts \in Nat

\* The executor holds run j: it has claimed it and not finalized it yet.
Owns(j) == up /\ cur = j /\ exec \notin {"idle", "ready", "release"}

\* The rows and the executor's memory have the values their columns and fields
\* admit, each request is at a point of its handler.
TypeOK == DbTyped /\ ExecTyped /\ ReqTyped /\ ProcTyped

\* What the executor is about to decide has not been decided: between the read of
\* the queue and the write of the ledger row, no handler, retry or restart turns a
\* member of the snapshot into a decided one (runs.py and base.run_item_ids).
NeverRedecides ==
    \A i \in todo \cup unrecorded : member[cur][i] \in {"absent", "pending"}

\* A run that reads `running' is being executed, or the process is down and will
\* requeue it: no interleaving leaves a running run behind
\* (claim_next, _finalize, requeue_interrupted).
RunningIsOwned == \A j \in Jobs : state[j] = "running" => ~up \/ Owns(j)

\* A run that ended `done' and that no operator wrote since it was claimed has no
\* pending member: crashes, stage failures, shutdowns and requeues lose none
\* (the "the re-run picks up where it stopped" of worker/runner.py).
DoneIsDrained(j) == state[j] = "done" /\ ~touched[j] => Pending(j) = {}

UntouchedDoneIsDrained == 
    \A j \in Jobs : stage[j] \in {"parse", "extract"} => DoneIsDrained(j)

\* A member is never reported applied before its content is committed: a crash
\* between the two commits may repeat work, it cannot lose it (extract, parse).
AppliedHasContent ==
    \A j \in Jobs, i \in Entities :
        stage[j] # "combine" /\ member[j][i] = "applied" => i \in content[stage[j]]

\* The ledger promises of MemberLedger, whatever the interleaving.
Ledger == INSTANCE MemberLedger WITH owner <- cur
LedgerSpec == Ledger!Spec

\* Every run that is queued ends, is deleted or is asked to stop: no retry,
\* failure or restart leaves it waiting or running for ever.  What becomes of a
\* run that is asked to stop is the next property.
QueuedRunsEnd ==
    \A j \in Jobs : state[j] = "queued" ~> state[j] \in Finished \cup {"absent", "cancelling"}

\* cancel_run: a running run "is asked to stop (cancelling) and the executor
\* finalizes it".  The code does not keep it: the executor may have finalized the
\* run between the handler's read and its write.
CancellingRunsEnd ==
    \A j \in Jobs : state[j] = "cancelling" ~> state[j] # "cancelling"
================================================================================
