------------------------------ MODULE DatabaseSwap ------------------------------
(***************************************************************************)
(* Replacing the live database by an uploaded file: importdb.py, the       *)
(* import routes of routers/ops.py, the connections of app/db.py, the      *)
(* stop and start of the executor thread, the migrations, and the rename   *)
(* in scripts/entrypoint.sh.                                               *)
(*                                                                         *)
(* A file on disk is an inode: what was uploaded into it block by block,   *)
(* whether it has operators, and how many migrations built it.  A name     *)
(* (live, staged, part) is an inode or 0, and a connection or an open      *)
(* upload keeps the inode it was opened on, whatever its name becomes.     *)
(* The server may be killed between any two steps.                         *)
(*                                                                         *)
(* No lock keeps two uploads or two applies apart, and a reopen may raise. *)
(* What these spoil is remembered in history variables, which no action    *)
(* reads, so that the properties can say what is promised all the same.    *)
(***************************************************************************)
EXTENDS Integers, Sequences, FiniteSets

CONSTANTS
    NoBody,
    Bodies,        \* the files operators upload
    BodySchema,    \* migrations each was built by; 0 when it is no database of ours
    BodyOps,       \* whether it has operators
    Blocks,        \* the blocks an upload is streamed in
    Build,         \* migrations bundled with the app
    Uploads,       \* requests that may upload at once
    Applies,       \* requests that may apply at once
    Threads,       \* request threads
    MaxInodes,     \* bound: files ever created
    MaxKills,      \* bound: restarts nobody asked for
    MaxRaises,     \* bound: migrations that fail
    MaxRequests    \* bound: requests under way at once

ASSUME SwapConstants ==
    /\ NoBody \notin Bodies
    /\ BodySchema \in [Bodies -> Nat] /\ BodyOps \in [Bodies -> BOOLEAN]
    /\ Blocks \in Nat \ {0} /\ Build \in Nat \ {0} /\ MaxInodes \in Nat /\ MaxKills \in Nat
    /\ MaxRaises \in Nat /\ MaxRequests \in Nat

VARIABLES
    disk,       \* the inodes, in the order of their creation
    live, staged, part,  \* the names <db>, <db>.import and <db>.import.part
    upload,     \* POST /import-db, one each
    app,        \* the server process
    apply,      \* POST /import-db/apply, one each
    conn,       \* the connection of each request thread
    executor,   \* Executor._thread, its _stop flag, and the threads that run
    restart,    \* Settings.import_restart
    kills, raises,
    shared,     \* history: files an upload opened while another was under way
    raised,     \* history: the last reopen of the live file raised
    overlapped  \* history: since an apply last began alone, two were under way at once

files   == <<disk, live, staged, part>>
noted   == <<shared, raised, overlapped>>
vars    == <<files, upload, app, apply, conn, executor, restart, kills, raises, noted>>

NoUpload == [pc |-> "idle", body |-> NoBody, inode |-> 0, size |-> 0]
NoApply  == [pc |-> "idle", thread |-> 0, inode |-> 0, done |-> 0]
NoConn   == [pc |-> "none", inode |-> 0]
Thread(id, inode) == [id |-> id, inode |-> inode]
NoExecutor     == [thread |-> 0, alive |-> {}, stop |-> FALSE, started |-> 0]
NewExecutor(i) == [thread |-> 1, alive |-> {Thread(1, i)}, stop |-> FALSE, started |-> 1]

(* The content of a complete upload. *)
Whole(body) == [k \in 1 .. Blocks |-> <<body, k>>]
Inspected(i) == {b \in Bodies : disk[i].blocks = Whole(b) /\ BodySchema[b] \in 1 .. Build}

(* An installation with its operator: without one nobody may upload. *)
Init ==
    /\ disk = <<[blocks |-> <<>>, ops |-> TRUE, schema |-> Build]>>
    /\ live = 1 /\ staged = 0 /\ part = 0
    /\ upload = [u \in Uploads |-> NoUpload]
    /\ app = "up"
    /\ apply = [a \in Applies |-> NoApply]
    /\ conn = [t \in Threads |-> NoConn]
    /\ executor = NewExecutor(1)
    /\ restart \in BOOLEAN
    /\ kills = 0 /\ raises = 0
    /\ shared = {} /\ raised = FALSE /\ overlapped = FALSE

Up == app \in {"up", "exiting"}
(* A request is taken while fewer than MaxRequests are under way. *)
Free == Cardinality({u \in Uploads : upload[u].pc # "idle"})
        + Cardinality({a \in Applies : apply[a].pc # "idle"})
        + Cardinality({t \in Threads : conn[t].pc = "opened"}) < MaxRequests
NewFile(blocks) == Append(disk, [blocks |-> blocks, ops |-> FALSE, schema |-> 0])

-------------------------------------------------------------------------------
(* import_stage: the body is streamed into the partial file. *)

ToUpload(u, record) == upload' = [upload EXCEPT ![u] = record]
Step(u, pc)         == ToUpload(u, [NoUpload EXCEPT !.pc = pc])
Server == <<app, apply, conn, executor, restart, kills, raises, raised, overlapped>>

OthersUpload(u) == \E v \in Uploads \ {u} : upload[v].pc # "idle"

(* The file an upload opened is its own unless another upload is under way.     *)
Opened(u, i) == shared' = IF OthersUpload(u) THEN shared \cup {i} ELSE shared \ {i}

(* open_partial truncates the file when there is one.  The route is for        *)
(* operators: the live file has one.                                           *)
OpenPartial(u) ==
    LET inode == IF part = 0 THEN Len(disk) + 1 ELSE part
    IN  /\ Up /\ Free /\ upload[u].pc = "idle" /\ disk[live].ops
        /\ \E body \in Bodies :
             ToUpload(u, [pc |-> "write", body |-> body, inode |-> inode, size |-> 0])
        /\ IF part = 0
           THEN Len(disk) < MaxInodes /\ disk' = NewFile(<<>>)
           ELSE disk' = [disk EXCEPT ![part] = [@ EXCEPT !.blocks = <<>>, !.ops = FALSE, !.schema = 0]]
        /\ part' = inode
        /\ Opened(u, inode)
        /\ UNCHANGED <<live, staged, Server>>

(* A block goes to the position of this upload in the file it opened, which    *)
(* another upload may have truncated: what lies before is then empty.           *)
Overlay(blocks, k, block) ==
    [i \in 1 .. (IF k > Len(blocks) THEN k ELSE Len(blocks)) |->
        IF i = k THEN block ELSE IF i <= Len(blocks) THEN blocks[i] ELSE <<NoBody, 0>>]

WriteBlock(u) ==
    LET up == upload[u]
        blocks == Overlay(disk[up.inode].blocks, up.size + 1, <<up.body, up.size + 1>>)
    IN  /\ up.pc = "write" /\ up.size < Blocks
        /\ disk' = [disk EXCEPT ![up.inode].blocks = blocks,
                                ![up.inode].ops = blocks = Whole(up.body) /\ BodyOps[up.body],
                                ![up.inode].schema = IF blocks = Whole(up.body)
                                                     THEN BodySchema[up.body] ELSE 0]
        /\ ToUpload(u, [up EXCEPT !.size = @ + 1])
        /\ UNCHANGED <<live, staged, part, shared, Server>>

(* The client goes away. *)
AbortUpload(u) ==
    /\ upload[u].pc = "write"
    /\ part' = 0
    /\ ToUpload(u, NoUpload)
    /\ UNCHANGED <<disk, live, staged, shared, Server>>

(* finish_stage closes the file, and knows it by its name from then on.  The     *)
(* digest of what was received is the expected one or not, and the inspection is *)
(* of what is found under the name; either failure removes the file of that name. *)
(* Mutant: the digest alone is enough.                                          *)
VerifyDigestOnly(u) ==
    /\ upload[u].pc = "write" /\ upload[u].size = Blocks
    /\ \/ part # 0 /\ Step(u, "carry") /\ UNCHANGED part
       \/ part' = 0 /\ ToUpload(u, NoUpload)
    /\ UNCHANGED <<disk, live, staged, shared, Server>>
Verify(u) ==
    /\ upload[u].pc = "write" /\ upload[u].size = Blocks
    /\ \/ part # 0 /\ Inspected(part) # {} /\ Step(u, "carry") /\ UNCHANGED part
       \/ part' = 0 /\ ToUpload(u, NoUpload)
    /\ UNCHANGED <<disk, live, staged, shared, Server>>

(* carry_operators: a file without operators is given those of the live one;  *)
(* when that one, spoiled before, has none either, the file is as bad as it.   *)
CarryOperators(u) ==
    /\ upload[u].pc = "carry" /\ part # 0
    /\ LET ops == disk[part].ops \/ disk[live].ops
       IN  /\ disk' = [disk EXCEPT ![part].ops = ops]
           /\ shared' = IF ops THEN shared ELSE shared \cup {part}
    /\ Step(u, "promote")
    /\ UNCHANGED <<live, staged, part, Server>>

(* A file whose tables are older, or gone because another upload truncated it, *)
(* is an error, and stays.  Under a name that is gone an empty file is made,    *)
(* which has none of the tables.                                               *)
CarryFails(u) ==
    /\ upload[u].pc = "carry"
    /\ IF part # 0
       THEN ~ disk[part].ops /\ UNCHANGED <<disk, part, shared>>
       ELSE /\ Len(disk) < MaxInodes
            /\ disk' = NewFile(<<>>) /\ part' = Len(disk) + 1 /\ Opened(u, part')
    /\ ToUpload(u, NoUpload)
    /\ UNCHANGED <<live, staged, Server>>

(* os.replace.  The description beside the staged file is only shown, and is    *)
(* left out.                                                                    *)
Promote(u) ==
    /\ upload[u].pc = "promote"
    /\ IF part # 0 THEN staged' = part /\ part' = 0
                   ELSE UNCHANGED <<staged, part>>
    /\ ToUpload(u, NoUpload)
    /\ UNCHANGED <<disk, live, shared, Server>>

Upload(u) == WriteBlock(u) \/ Verify(u) \/ CarryOperators(u) \/ CarryFails(u) \/ Promote(u)

(* import_discard *)
Discard ==
    /\ Up /\ (staged # 0 \/ part # 0)
    /\ staged' = 0 /\ part' = 0
    /\ UNCHANGED <<disk, live, upload, shared, Server>>

-------------------------------------------------------------------------------
(* import_apply.  Sync routes run in a thread pool: applies may overlap. *)

Rest == <<upload, restart, kills, shared>>
ToApply(a, record) == apply' = [apply EXCEPT ![a] = record]
Goes(a, pc)        == ToApply(a, [apply[a] EXCEPT !.pc = pc])

(* Something is staged: the process is to exit, or the executor is stopped.     *)
StartApply(a) ==
    /\ app = "up" /\ Free /\ apply[a].pc = "idle" /\ staged # 0
    /\ IF restart
       THEN app' = "exiting" /\ UNCHANGED <<apply, overlapped>>
       ELSE /\ Goes(a, "stop")
            /\ overlapped' = \E b \in Applies : apply[b].pc # "idle"
            /\ UNCHANGED app
    /\ UNCHANGED <<files, conn, executor, raises, raised, Rest>>

(* Executor.stop: the flag is raised and the thread, if there is one, joined.   *)
StopExecutor(a) ==
    /\ apply[a].pc = "stop"
    /\ executor' = [executor EXCEPT !.stop = TRUE]
    /\ ToApply(a, [apply[a] EXCEPT !.pc = "join", !.thread = executor.thread])
    /\ UNCHANGED <<files, app, conn, raises, raised, overlapped, Rest>>

(* The thread has ended by then, or is in a run and goes on: the join times     *)
(* out.  Whatever thread is the executor's by now is forgotten.                 *)
JoinThread(a) ==
    /\ apply[a].pc = "join"
    /\ executor' = [executor EXCEPT !.stop = FALSE,
                                    !.thread = IF apply[a].thread = 0 THEN @ ELSE 0]
    /\ ToApply(a, [NoApply EXCEPT !.pc = "close"])
    /\ UNCHANGED <<files, app, conn, raises, raised, overlapped, Rest>>

(* close_all: the connections that are registered.  The generation it counts up *)
(* is that of none of them.                                                     *)
Closed == [t \in Threads |-> IF conn[t].pc = "cached" THEN NoConn ELSE conn[t]]

CloseAll(a) ==
    /\ apply[a].pc = "close"
    /\ conn' = Closed
    /\ Goes(a, "swap")
    /\ UNCHANGED <<files, app, executor, raises, raised, overlapped, Rest>>

(* Mutant: an error leaves the handler at once.                                *)
SwapFilesOrRaise(a) ==
    /\ apply[a].pc = "swap"
    /\ IF staged # 0 THEN live' = staged /\ staged' = 0 /\ raised' = FALSE /\ Goes(a, "reopen")
                     ELSE ToApply(a, NoApply) /\ UNCHANGED <<live, staged, raised>>
    /\ UNCHANGED <<disk, part, app, conn, executor, raises, overlapped, Rest>>
(* swap_files; a staged file that was discarded meanwhile is an error, and the *)
(* rest is done all the same.                                                  *)
SwapFiles(a) ==
    /\ apply[a].pc = "swap"
    /\ IF staged # 0 THEN live' = staged /\ staged' = 0 /\ raised' = FALSE
                     ELSE UNCHANGED <<live, staged, raised>>
    /\ Goes(a, "reopen")
    /\ UNCHANGED <<disk, part, app, conn, executor, raises, overlapped, Rest>>

(* Database.reopen closes once more, opens the file and reads which migrations  *)
(* it has.                                                                      *)
Reopen(a) ==
    /\ apply[a].pc = "reopen"
    /\ conn' = Closed
    /\ ToApply(a, [apply[a] EXCEPT !.pc = "migrate", !.inode = live, !.done = disk[live].schema])
    /\ UNCHANGED <<files, app, executor, raises, raised, overlapped, Rest>>

(* apply_pending: each migration is one transaction. *)
MigrateOne(i) == disk' = [disk EXCEPT ![i].schema = @ + 1]

(* Mutant: the new file is taken as it is.                                     *)
MigrateApplyNot(a) ==
    /\ apply[a].pc = "migrate"
    /\ ToApply(a, [NoApply EXCEPT !.pc = "start"])
    /\ UNCHANGED <<files, app, conn, executor, raises, raised, overlapped, Rest>>
MigrateApply(a) ==
    LET i == apply[a].inode
    IN  /\ apply[a].pc = "migrate"
        /\ IF apply[a].done < Build
           THEN /\ disk[i].schema = apply[a].done /\ MigrateOne(i)
                /\ ToApply(a, [apply[a] EXCEPT !.done = @ + 1])
                /\ UNCHANGED raised
           ELSE /\ ToApply(a, [NoApply EXCEPT !.pc = "start"])
                /\ raised' = (raised /\ i # live) /\ UNCHANGED disk
        /\ UNCHANGED <<live, staged, part, app, conn, executor, raises, overlapped, Rest>>

(* The file is locked, or a migration fails, as one must that another apply has *)
(* made meanwhile: the request ends, and nothing starts the executor.           *)
MigrateRaises(a) ==
    LET i == apply[a].inode
    IN  /\ apply[a].pc = "migrate"
        /\ IF apply[a].done < Build /\ disk[i].schema # apply[a].done
           THEN UNCHANGED raises
           ELSE raises < MaxRaises /\ raises' = raises + 1
        /\ raised' = (raised \/ i = live)
        /\ ToApply(a, NoApply)
        /\ UNCHANGED <<files, app, conn, executor, overlapped, Rest>>

(* Executor.start does nothing when there is a thread.  The thread opens the    *)
(* file as it starts.                                                          *)
StartExecutor(a) ==
    /\ apply[a].pc = "start"
    /\ executor' = IF executor.thread # 0 THEN executor
                   ELSE LET id == executor.started + 1
                        IN  [executor EXCEPT !.thread = id, !.started = id,
                                             !.alive = @ \cup {Thread(id, live)}]
    /\ ToApply(a, NoApply)
    /\ UNCHANGED <<files, app, conn, raises, raised, overlapped, Rest>>

Apply(a) == StopExecutor(a) \/ JoinThread(a) \/ CloseAll(a) \/ SwapFiles(a) \/ Reopen(a)
            \/ MigrateApply(a) \/ MigrateRaises(a) \/ StartExecutor(a)

-------------------------------------------------------------------------------
(* Requests and runs. *)

Handlers == <<files, app, apply, raises, raised, overlapped, Rest>>

(* Database.connection: the file is opened; the generation the connection is    *)
(* cached under is read after that, so that it is the current one.              *)
OpenConn(t) ==
    /\ Up /\ Free /\ conn[t].pc = "none"
    /\ conn' = [conn EXCEPT ![t] = [pc |-> "opened", inode |-> live]]
    /\ UNCHANGED <<executor, Handlers>>

CacheConn(t) ==
    /\ conn[t].pc = "opened"
    /\ conn' = [conn EXCEPT ![t].pc = "cached"]
    /\ UNCHANGED <<executor, Handlers>>

(* A thread looks at the flag between two runs, also one that stop gave up on. *)
ThreadEnds ==
    /\ executor.stop
    /\ \E x \in executor.alive : executor' = [executor EXCEPT !.alive = @ \ {x}]
    /\ UNCHANGED <<conn, Handlers>>

-------------------------------------------------------------------------------
(* The process: it exits to apply, or is killed or deployed anew; the           *)
(* entrypoint swaps a staged file in before it starts the server.               *)

Down(next) ==
    /\ app' = next
    /\ upload' = [u \in Uploads |-> NoUpload]
    /\ apply' = [a \in Applies |-> NoApply]
    /\ conn' = [t \in Threads |-> NoConn]
    /\ executor' = NoExecutor
    /\ overlapped' = FALSE
    /\ UNCHANGED <<files, restart, shared, raised>>

Exit == app = "exiting" /\ Down("down") /\ UNCHANGED <<kills, raises>>

Kill == kills < MaxKills /\ kills' = kills + 1 /\ Down("down") /\ UNCHANGED raises

BootTo(next) ==
    /\ app' = next
    /\ UNCHANGED <<upload, apply, conn, restart, kills, raises, shared, overlapped>>

(* The old file is removed, then the staged one gets its name. *)
BootRemove ==
    /\ app = "down"
    /\ live' = IF staged # 0 THEN 0 ELSE live
    /\ BootTo(IF staged # 0 THEN "removed" ELSE "migrate")
    /\ UNCHANGED <<disk, staged, part, executor, raised>>

BootMove ==
    /\ app = "removed"
    /\ live' = staged /\ staged' = 0
    /\ BootTo("migrate")
    /\ UNCHANGED <<disk, part, executor, raised>>

(* create_app: the database is migrated before a thread or route is served.    *)
BootMigrate ==
    /\ app = "migrate"
    /\ IF disk[live].schema < Build
       THEN MigrateOne(live) /\ BootTo("migrate") /\ UNCHANGED <<executor, raised>>
       ELSE /\ BootTo("up") /\ UNCHANGED disk
            /\ executor' = NewExecutor(live) /\ raised' = FALSE
    /\ UNCHANGED <<live, staged, part>>

(* When that raises there is no server, and the supervisor tries again.        *)
BootRaises == app = "migrate" /\ raises < MaxRaises /\ raises' = raises + 1
              /\ Down("down") /\ UNCHANGED kills

Boot == BootRemove \/ BootMove \/ BootMigrate \/ BootRaises

Next ==
    \/ \E u \in Uploads : OpenPartial(u) \/ AbortUpload(u) \/ Upload(u)
    \/ Discard
    \/ \E a \in Applies : StartApply(a) \/ Apply(a)
    \/ \E t \in Threads : OpenConn(t) \/ CacheConn(t)
    \/ ThreadEnds \/ Exit \/ Kill \/ Boot

Spec == Init /\ [][Next]_vars

-------------------------------------------------------------------------------
(* Type invariant: names, uploads and connections are of files that exist. *)
Block == (Bodies \cup {NoBody}) \X (0 .. Blocks)
File  == [blocks : Seq(Block), ops : BOOLEAN, schema : Nat]
Inode == 0 .. Len(disk)
UploadRecord == [pc : {"idle", "write", "carry", "promote"}, body : Bodies \cup {NoBody},
                 inode : Inode, size : 0 .. Blocks]
ApplyRecord  == [pc : {"idle", "stop", "join", "close", "swap", "reopen", "migrate", "start"},
                 thread : Nat, inode : Inode, done : Nat]
ConnRecord   == [pc : {"none", "opened", "cached"}, inode : Inode]
ThreadRecord == [id : Nat, inode : Inode]

FilesOK  == /\ disk \in Seq(File) /\ {live, staged, part} \subseteq Inode
UploadsOK == /\ upload \in [Uploads -> UploadRecord]
             /\ \A u \in Uploads : upload[u].pc = "write" => upload[u].body \in Bodies
ThreadsOK == /\ conn \in [Threads -> ConnRecord]
             /\ executor \in [thread : Nat, alive : SUBSET ThreadRecord, stop : BOOLEAN, started : Nat]
ServerOK  == /\ app \in {"up", "exiting", "down", "removed", "migrate"}
             /\ apply \in [Applies -> ApplyRecord]
             /\ restart \in BOOLEAN /\ kills \in Nat /\ raises \in Nat
HistoryOK == shared \subseteq Nat /\ raised \in BOOLEAN /\ overlapped \in BOOLEAN
TypeOK == FilesOK /\ UploadsOK /\ ThreadsOK /\ ServerOK /\ HistoryOK

(* What can take the place of the live database is a complete file of a known   *)
(* schema, with an operator, whatever was aborted, discarded, uploaded again or *)
(* killed since it was verified ("Nothing here deletes the old database until a *)
(* verified replacement exists"): the upload that staged it was alone when it    *)
(* opened the file, and none began before it was done.  Of two uploads, one may *)
(* truncate the file the other has verified: then the code does not keep this.  *)
StagedIsVerified ==
    staged # 0 /\ staged \notin shared => Inspected(staged) # {} /\ disk[staged].ops

(* The server never runs without its database: a file is under the live name,   *)
(* with operators, so that first-time setup does not open again, and with every *)
(* migration except while an apply has the file to migrate and after a           *)
(* migration that failed.  This holds through swaps that overlap and kills of   *)
(* the app or of the entrypoint, for a file that was staged as above.            *)
MayLackMigrations ==
    \/ raised
    \/ \E a \in Applies : apply[a].pc = "reopen"
    \/ \E a \in Applies : apply[a].pc = "migrate" /\ apply[a].inode = live
ServesTheDatabase ==
    Up => /\ live # 0
          /\ live \notin shared => disk[live].ops
          /\ live \notin shared => disk[live].schema = Build \/ MayLackMigrations

(* app/db.py says of a stale generation "the old was closed under it": between   *)
(* applies, a connection a request is served on is one to the live file.  The    *)
(* code does not keep this: a thread that opens the file before the rename and   *)
(* registers the connection after the reopen has the new generation on the old   *)
(* file.                                                                         *)
NoApplies == \A a \in Applies : apply[a].pc = "idle"
ConnectionsAreLive ==
    NoApplies => \A t \in Threads : conn[t].pc = "cached" => conn[t].inode = live

(* After an apply the executor is at work on the live file, also when the staged *)
(* file was discarded meanwhile or the old thread could not be stopped: unless   *)
(* the reopen of the file raised, or another apply was under way with it.        *)
AtWork(i) == \E x \in executor.alive : x.id = executor.thread /\ x.inode = i
ExecutorOnLive == Up /\ NoApplies => AtWork(live) \/ raised \/ overlapped

(* The same without the exceptions, which the code does not keep.               *)
AlwaysVerified == staged # 0 => Inspected(staged) # {} /\ disk[staged].ops
AlwaysMigrated == Up /\ NoApplies => disk[live].schema = Build
AlwaysAtWork   == Up /\ NoApplies => AtWork(live)
================================================================================
