------------------------------- MODULE AppProofs -------------------------------
(******************************************************************************)
(* Theorems about the two parts of the app that keep state of their own: the  *)
(* database file it serves, and who may sign in. They share no state; the     *)
(* names of OperatorAuth say which they are.                                  *)
(******************************************************************************)
EXTENDS DatabaseSwap, OperatorAuth, SequenceTheorems, FiniteSetTheorems, TLAPS

(******************************************************************************)
(* DatabaseSwap, for every set of files that may be uploaded, any number of   *)
(* uploads, applies, blocks, threads, migrations, kills and failures.         *)
(* The invariant follows the files that are an upload's own: no other upload  *)
(* was under way when it opened the file, or began before it was done. Such a *)
(* file is written by that upload alone; staged, it is a whole one that passed*)
(* its inspection; live, it has operators and a schema of this build or an    *)
(* older one. An upload writes through the inode it opened, so the proof keeps*)
(* track of which inodes have a name.                                         *)
(******************************************************************************)

(* A file under a name that no two uploads opened.                            *)
Own(i) == i # 0 /\ i \notin shared
(* No inode has two of the three names.                                       *)
Apart ==
    /\ live # 0 => live \notin {staged, part}
    /\ staged # 0 => staged # part
(* A file that passed its inspection: one of the bodies in full, of a schema  *)
(* this build knows.                                                          *)
Replacement(i) ==
    /\ \E b \in Bodies : disk[i].blocks = Whole(b) /\ BodySchema[b] \in 1 .. Build
    /\ disk[i].schema \in 1 .. Build
(* What is staged was inspected, and operators were carried into it.          *)
StagedOK == Own(staged) => Replacement(staged) /\ disk[staged].ops
(* The live file has operators and a schema this build can migrate; it is only*)
(* missing while a boot goes from removing it to moving the staged one.       *)
LiveOK ==
    /\ Own(live) => disk[live].ops /\ disk[live].schema \in 1 .. Build
    /\ live = 0 => staged # 0 /\ app \in {"down", "removed"}
    /\ app = "removed" => live = 0
(* A partial file with all the blocks of a body has the schema of that body.  *)
PartOK == part # 0 => \A b \in Bodies : disk[part].blocks = Whole(b) => disk[part].schema = BodySchema[b]
(* An upload runs in a process that is up. Into the live and the staged file, *)
(* when they are someone's own, none writes; a partial file that is one       *)
(* upload's own has no other upload beside it, and what that one is about to  *)
(* promote was inspected.                                                     *)
UploadOK == \A u \in Uploads :
    /\ upload[u].pc # "idle" => Up
    /\ upload[u].pc = "write" => /\ upload[u].inode # 0
                                 /\ Own(live) => upload[u].inode # live
                                 /\ Own(staged) => upload[u].inode # staged
                                 /\ Own(part) => upload[u].inode = part
    /\ upload[u].pc # "idle" /\ Own(part) => \A v \in Uploads : upload[v].pc # "idle" => v = u
    /\ upload[u].pc \in {"carry", "promote"} /\ Own(part) => Replacement(part)
    /\ upload[u].pc = "promote" /\ Own(part) => disk[part].ops
(* An apply runs in a process that is up. What it migrates was the live file, *)
(* and while it is, it has at least the migrations the apply has counted; the *)
(* live file lacks some only where the property allows it.                    *)
ApplyOK ==
    /\ \A a \in Applies :
        /\ apply[a].pc # "idle" => Up
        /\ apply[a].pc = "migrate" => /\ apply[a].inode \notin {0, staged, part}
                                      /\ apply[a].inode = live /\ Own(live) => apply[a].done <= disk[live].schema
    /\ Up /\ Own(live) => disk[live].schema = Build \/ MayLackMigrations
(* An apply that is alone knows the executor's thread, leaves none when it has *)
(* joined it, and migrates the file that is live; the stop flag is up only      *)
(* until the join is over.                                                     *)
ExecutorOK ==
    /\ executor.stop => \E a \in Applies : apply[a].pc = "join"
    /\ ~ overlapped => \A a \in Applies :
        /\ \A b \in Applies : apply[a].pc # "idle" /\ apply[b].pc # "idle" => a = b
        /\ apply[a].pc = "join" => apply[a].thread = executor.thread
        /\ apply[a].pc \in {"close", "swap", "reopen", "migrate", "start"} => executor.thread = 0
        /\ apply[a].pc = "migrate" => apply[a].inode = live
    /\ ExecutorOnLive
(* The inductive invariant.                                                   *)
Parts == Apart /\ StagedOK /\ LiveOK /\ PartOK /\ UploadOK /\ ApplyOK /\ ExecutorOK
IInv  == TypeOK /\ Parts

-------------------------------------------------------------------------------

(* Writing a block into a file gives a sequence of blocks.                    *)
LEMMA OverlayType ==
    ASSUME NEW blocks \in Seq(Block), NEW k \in 1 .. Blocks, NEW block \in Block
    PROVE  Overlay(blocks, k, block) \in Seq(Block)
<1> DEFINE n == IF k > Len(blocks) THEN k ELSE Len(blocks)
<1>1. n \in Nat /\ Len(blocks) \in Nat
    BY SwapConstants
<1>2. \A i \in 1 .. n : (IF i = k THEN block ELSE IF i <= Len(blocks) THEN blocks[i] ELSE <<NoBody, 0>>) \in Block
    <2>1. <<NoBody, 0>> \in Block
        BY SwapConstants DEF Block
    <2>2. \A i \in 1 .. Len(blocks) : blocks[i] \in Block
        BY ElementOfSeq
    <2> HIDE DEF n
    <2> QED BY <1>1, <2>1, <2>2
<1>3. [i \in 1 .. n |-> IF i = k THEN block ELSE IF i <= Len(blocks) THEN blocks[i] ELSE <<NoBody, 0>>] \in Seq(Block)
    <2> HIDE DEF n
    <2> QED BY <1>1, <1>2, IsASeq
<1> QED BY <1>3 DEF Overlay

(* A new file goes to the end of the disk; the others stay.                   *)
LEMMA Append1 ==
    ASSUME NEW blocks \in Seq(Block), FilesOK
    PROVE  /\ NewFile(blocks) \in Seq(File) /\ Len(NewFile(blocks)) = Len(disk) + 1
           /\ \A i \in 1 .. Len(disk) : NewFile(blocks)[i] = disk[i]
           /\ NewFile(blocks)[Len(disk) + 1] = [blocks |-> blocks, ops |-> FALSE, schema |-> 0]
<1>1. [blocks |-> blocks, ops |-> FALSE, schema |-> 0] \in File
    BY DEF File
<1>2. disk \in Seq(File)
    BY DEF FilesOK
<1> QED BY <1>1, <1>2, AppendProperties DEF NewFile

(* A file that is written changes alone.                                      *)
LEMMA Except1 ==
    ASSUME FilesOK, NEW i \in 1 .. Len(disk), NEW f \in File
    PROVE  /\ [disk EXCEPT ![i] = f] \in Seq(File) /\ Len([disk EXCEPT ![i] = f]) = Len(disk)
           /\ \A j \in 1 .. Len(disk) : [disk EXCEPT ![i] = f][j] = IF j = i THEN f ELSE disk[j]
<1>2. disk \in Seq(File)
    BY DEF FilesOK
<1> QED BY <1>2, ExceptSeq

(* The types of the records are not empty, whatever is on file.              *)
LEMMA EmptyRecords ==
    ASSUME TypeOK
    PROVE  /\ 0 \in Inode /\ Len(disk) \in Nat
           /\ NoUpload \in UploadRecord /\ NoApply \in ApplyRecord /\ NoConn \in ConnRecord
    BY LenProperties, SwapConstants
        DEF TypeOK, FilesOK, Inode, NoUpload, NoApply, NoConn, UploadRecord, ApplyRecord, ConnRecord

(* The first state has its types: one live file, no upload, no connection.    *)
LEMMA InitType == Init => TypeOK
<1> SUFFICES ASSUME Init PROVE TypeOK
    OBVIOUS
<1>1. <<>> \in Seq(Block)
    OBVIOUS
<1>2. disk \in Seq(File) /\ Len(disk) = 1
    BY <1>1, SwapConstants DEF Init, File
<1>3. FilesOK
    BY <1>2 DEF Init, FilesOK, Inode
<1>4. UploadsOK
    BY <1>2, SwapConstants DEF Init, UploadsOK, UploadRecord, NoUpload, Inode
<1>5. ThreadsOK
    BY <1>2 DEF Init, ThreadsOK, ThreadRecord, ConnRecord, NoConn, Inode, NewExecutor, Thread
<1>6. ServerOK
    <2>1. NoApply \in ApplyRecord
        BY <1>2 DEF ApplyRecord, NoApply, Inode
    <2> QED BY <2>1 DEF Init, ServerOK
<1>7. HistoryOK
    BY DEF Init, HistoryOK
<1> QED BY <1>7, <1>3, <1>4, <1>5, <1>6 DEF TypeOK

(* What was on file stays on file when the disk grows or a file is written.   *)
Grows == disk' \in Seq(File) /\ Len(disk) <= Len(disk')

(* On a disk that grows a record keeps its type.                              *)
LEMMA GrowsRecords ==
    ASSUME TypeOK, Grows
    PROVE  /\ Len(disk) \in Nat /\ Len(disk') \in Nat /\ Inode \subseteq Inode'
           /\ UploadRecord \subseteq UploadRecord' /\ ConnRecord \subseteq ConnRecord'
           /\ ThreadRecord \subseteq ThreadRecord' /\ ApplyRecord \subseteq ApplyRecord'
<1>1. Len(disk) \in Nat /\ Len(disk') \in Nat /\ Inode \subseteq Inode'
    BY LenProperties DEF Grows, TypeOK, FilesOK, Inode
<1> QED BY <1>1 DEF UploadRecord, ConnRecord, ThreadRecord, ApplyRecord

(* Connections and executor that are left alone keep their types.             *)
LEMMA SameThreads == TypeOK /\ Grows /\ UNCHANGED <<conn, executor>> => ThreadsOK'
<1> SUFFICES ASSUME TypeOK, Grows, UNCHANGED <<conn, executor>> PROVE ThreadsOK'
    OBVIOUS
<1>1. conn \in [Threads -> ConnRecord] /\ ConnRecord \subseteq ConnRecord'
    BY GrowsRecords DEF TypeOK, ThreadsOK
<1>2. /\ executor \in [thread : Nat, alive : SUBSET ThreadRecord, stop : BOOLEAN, started : Nat]
      /\ ThreadRecord \subseteq ThreadRecord'
    BY GrowsRecords DEF TypeOK, ThreadsOK
<1> QED BY <1>1, <1>2 DEF ThreadsOK

(* Uploads that are left alone keep their types.                              *)
LEMMA SameUploads == TypeOK /\ Grows /\ UNCHANGED upload => UploadsOK'
<1> SUFFICES ASSUME TypeOK, Grows, UNCHANGED upload PROVE UploadsOK'
    OBVIOUS
<1>1. upload \in [Uploads -> UploadRecord] /\ UploadRecord \subseteq UploadRecord'
    BY GrowsRecords DEF TypeOK, UploadsOK
<1> QED BY <1>1 DEF UploadsOK, TypeOK

(* Server state that is left alone keeps its type.                            *)
LEMMA SameServer == TypeOK /\ Grows /\ UNCHANGED <<app, apply, restart, kills, raises>> => ServerOK'
<1> SUFFICES ASSUME TypeOK, Grows, UNCHANGED <<app, apply, restart, kills, raises>> PROVE ServerOK'
    OBVIOUS
<1>1. apply \in [Applies -> ApplyRecord] /\ ApplyRecord \subseteq ApplyRecord'
    BY GrowsRecords DEF TypeOK, ServerOK
<1> QED BY <1>1 DEF TypeOK, ServerOK

(* An upload that gets a record of the right type keeps the uploads typed.    *)
LEMMA UploadSetType ==
    ASSUME TypeOK, Grows, NEW u \in Uploads, NEW record \in UploadRecord', ToUpload(u, record),
           record.pc = "write" => record.body \in Bodies
    PROVE  UploadsOK'
<1>1. upload \in [Uploads -> UploadRecord] /\ UploadRecord \subseteq UploadRecord'
    BY GrowsRecords DEF TypeOK, UploadsOK
<1>2. upload' \in [Uploads -> UploadRecord']
    BY <1>1 DEF ToUpload
<1> QED BY <1>1, <1>2 DEF UploadsOK, TypeOK, ToUpload

(* A file under a name is a file.                                             *)
LEMMA NamedFile == TypeOK => \A i \in Inode \ {0} : i \in 1 .. Len(disk) /\ disk[i] \in File
    BY LenProperties, ElementOfSeq DEF TypeOK, FilesOK, Inode

(* The record of an upload is typed.                                          *)
LEMMA UploadTypes == ASSUME TypeOK, NEW u \in Uploads PROVE upload[u] \in UploadRecord
    BY DEF TypeOK, UploadsOK

(* The record of an apply is typed.                                           *)
LEMMA ApplyTypes == ASSUME TypeOK, NEW a \in Applies PROVE apply[a] \in ApplyRecord
    BY DEF TypeOK, ServerOK

(* A disk that is left alone has grown by nothing.                            *)
LEMMA DiskGrows == TypeOK /\ UNCHANGED disk => Grows
    BY LenProperties DEF TypeOK, FilesOK, Grows

(* Opening the partial file, new or truncated, changes that file alone, which *)
(* is empty then.                                                             *)
LEMMA OpenedFile ==
    ASSUME TypeOK, NEW u \in Uploads, OpenPartial(u)
    PROVE  /\ Grows /\ part' \in 1 .. Len(disk') /\ disk'[part'].blocks = <<>>
           /\ part' = (IF part = 0 THEN Len(disk) + 1 ELSE part)
           /\ \A j \in (1 .. Len(disk)) \ {part'} : disk'[j] = disk[j]
<1> DEFINE empty == <<>>
<1>1. disk \in Seq(File) /\ Len(disk) \in Nat /\ empty \in Seq(Block) /\ FilesOK
    BY LenProperties DEF TypeOK, FilesOK
<1>2. part' = IF part = 0 THEN Len(disk) + 1 ELSE part
    BY DEF OpenPartial
<1>3. CASE part = 0
    <2>1. disk' = NewFile(empty)
        BY <1>3 DEF OpenPartial
    <2> HIDE DEF empty
    <2>2. /\ NewFile(empty) \in Seq(File) /\ Len(NewFile(empty)) = Len(disk) + 1
          /\ \A i \in 1 .. Len(disk) : NewFile(empty)[i] = disk[i]
          /\ NewFile(empty)[Len(disk) + 1] = [blocks |-> empty, ops |-> FALSE, schema |-> 0]
        BY <1>1, Append1
    <2>3. disk'[part'].blocks = empty
        BY <1>2, <1>3, <2>1, <2>2
    <2>4. Grows /\ part' \in 1 .. Len(disk') /\ \A j \in (1 .. Len(disk)) \ {part'} : disk'[j] = disk[j]
        BY <1>1, <1>2, <1>3, <2>1, <2>2 DEF Grows
    <2> QED BY <1>2, <2>3, <2>4 DEF empty
<1>4. CASE part # 0
    <2> DEFINE f == [disk[part] EXCEPT !.blocks = empty, !.ops = FALSE, !.schema = 0]
    <2>1. disk' = [disk EXCEPT ![part] = f]
        BY <1>4 DEF OpenPartial
    <2>2. part \in 1 .. Len(disk) /\ disk[part] \in File
        BY <1>4, NamedFile DEF TypeOK, FilesOK
    <2> HIDE DEF empty
    <2>3. f \in File /\ f.blocks = empty
        BY <1>1, <2>2 DEF File
    <2> HIDE DEF f
    <2>4. disk' \in Seq(File) /\ Len(disk') = Len(disk) /\ \A j \in 1 .. Len(disk) : disk'[j] = IF j = part THEN f ELSE disk[j]
        BY <1>1, <2>1, <2>2, <2>3, Except1
    <2>5. disk'[part'].blocks = empty
        BY <1>2, <1>4, <2>2, <2>3, <2>4
    <2>6. Grows /\ part' \in 1 .. Len(disk') /\ \A j \in (1 .. Len(disk)) \ {part'} : disk'[j] = disk[j]
        BY <1>1, <1>2, <1>4, <2>2, <2>4 DEF Grows
    <2> QED BY <1>2, <2>5, <2>6 DEF empty
<1> QED BY <1>3, <1>4

(* Opening the partial file keeps the types.                                  *)
LEMMA OpenPartialType == ASSUME TypeOK, NEW u \in Uploads, OpenPartial(u) PROVE TypeOK'
<1>1. Grows /\ part' \in 1 .. Len(disk') /\ UNCHANGED <<live, staged, Server>>
    BY OpenedFile DEF OpenPartial
<1>2. FilesOK'
    BY <1>1, GrowsRecords DEF Grows, TypeOK, FilesOK, Inode
<1>3. UploadsOK'
    <2>1. PICK body \in Bodies : ToUpload(u, [pc |-> "write", body |-> body, inode |-> part', size |-> 0])
        BY DEF OpenPartial
    <2>2. [pc |-> "write", body |-> body, inode |-> part', size |-> 0] \in UploadRecord'
        BY <1>2, SwapConstants DEF UploadRecord, FilesOK
    <2> QED BY <1>1, <2>1, <2>2, UploadSetType
<1>4. ThreadsOK' /\ ServerOK'
    BY <1>1, SameThreads, SameServer DEF Server
<1>5. HistoryOK'
    <2>1. part' \in Nat
        BY <1>1, GrowsRecords
    <2>2. shared' \subseteq shared \cup {part'}
        BY DEF OpenPartial, Opened
    <2> QED BY <1>1, <2>1, <2>2 DEF Server, TypeOK, HistoryOK
<1> QED BY <1>2, <1>3, <1>4, <1>5 DEF TypeOK

(* A block that is written changes the file the upload opened alone, and the  *)
(* schema of that file is that of the body once the blocks are the whole body.*)
LEMMA WrittenFile ==
    ASSUME TypeOK, NEW u \in Uploads, WriteBlock(u), upload[u].inode # 0
    PROVE  /\ Grows /\ Len(disk') = Len(disk) /\ upload[u].inode \in 1 .. Len(disk)
           /\ \A j \in (1 .. Len(disk)) \ {upload[u].inode} : disk'[j] = disk[j]
           /\ \A b \in Bodies : disk'[upload[u].inode].blocks = Whole(b)
                                    => disk'[upload[u].inode].schema = BodySchema[b]
<1> DEFINE up == upload[u]
           i == up.inode
           blocks == Overlay(disk[i].blocks, up.size + 1, <<up.body, up.size + 1>>)
           f == [disk[i] EXCEPT !.blocks = blocks,
                                !.ops = blocks = Whole(up.body) /\ BodyOps[up.body],
                                !.schema = IF blocks = Whole(up.body) THEN BodySchema[up.body] ELSE 0]
<1>1. up \in UploadRecord /\ up.body \in Bodies
    BY UploadTypes DEF TypeOK, UploadsOK, WriteBlock
<1>2. i \in 1 .. Len(disk) /\ disk[i] \in File
    BY <1>1, NamedFile DEF UploadRecord
<1>3. up.size + 1 \in 1 .. Blocks /\ <<up.body, up.size + 1>> \in Block
    BY <1>1, SwapConstants DEF UploadRecord, WriteBlock, Block
<1>4. blocks \in Seq(Block)
    BY <1>2, <1>3, OverlayType DEF File
<1>5. f \in File /\ f.blocks = blocks /\ f.schema = IF blocks = Whole(up.body) THEN BodySchema[up.body] ELSE 0
    <2> HIDE DEF blocks
    <2> QED BY <1>1, <1>2, <1>4, SwapConstants DEF File
<1>6. disk' = [disk EXCEPT ![i] = f]
    BY DEF WriteBlock
<1>7. Grows /\ Len(disk') = Len(disk) /\ \A j \in 1 .. Len(disk) : disk'[j] = IF j = i THEN f ELSE disk[j]
    <2> HIDE DEF f, i
    <2> QED BY <1>2, <1>5, <1>6, Except1, LenProperties DEF Grows, TypeOK, FilesOK
<1>8. ASSUME NEW b \in Bodies, blocks = Whole(b) PROVE b = up.body
    <2>1. blocks[up.size + 1] = <<up.body, up.size + 1>>
        <3>1. Len(disk[i].blocks) \in Nat
            BY <1>2, LenProperties DEF File
        <3> QED BY <1>3, <3>1 DEF Overlay
    <2>2. Whole(b)[up.size + 1] = <<b, up.size + 1>>
        BY <1>3 DEF Whole
    <2> QED BY <1>8, <2>1, <2>2
<1>9. disk'[i] = f /\ \A j \in (1 .. Len(disk)) \ {i} : disk'[j] = disk[j]
    <2> HIDE DEF f, i
    <2> QED BY <1>2, <1>7
<1>10. \A b \in Bodies : disk'[i].blocks = Whole(b) => disk'[i].schema = BodySchema[b]
    <2> HIDE DEF f, i, blocks, up
    <2> QED BY <1>5, <1>8, <1>9
<1> QED BY <1>2, <1>7, <1>9, <1>10

(* Writing a block keeps the types.                                           *)
LEMMA WriteBlockType == ASSUME TypeOK, NEW u \in Uploads, WriteBlock(u), upload[u].inode # 0 PROVE TypeOK'
<1> DEFINE up == upload[u]
<1>1. Grows /\ Len(disk') = Len(disk) /\ UNCHANGED <<live, staged, part, shared, Server>>
    BY WrittenFile DEF WriteBlock
<1>2. FilesOK'
    BY <1>1 DEF Grows, TypeOK, FilesOK, Inode
<1>3. UploadsOK'
    <2>1. up \in UploadRecord /\ up.body \in Bodies
        BY UploadTypes DEF TypeOK, UploadsOK, WriteBlock
    <2>2. [up EXCEPT !.size = @ + 1] \in UploadRecord'
        <3>1. UploadRecord' = UploadRecord
            BY <1>1 DEF UploadRecord, Inode
        <3>2. up.size + 1 \in 0 .. Blocks
            BY <2>1, SwapConstants DEF UploadRecord, WriteBlock
        <3> HIDE DEF up
        <3> QED BY <2>1, <3>1, <3>2 DEF UploadRecord
    <2>3. ToUpload(u, [up EXCEPT !.size = @ + 1])
        BY DEF WriteBlock
    <2>4. [up EXCEPT !.size = @ + 1].body \in Bodies
        BY <2>1 DEF UploadRecord
    <2> HIDE DEF up
    <2> QED BY <1>1, <2>2, <2>3, <2>4, UploadSetType
<1>4. ThreadsOK' /\ ServerOK' /\ HistoryOK'
    BY <1>1, SameThreads, SameServer DEF Server, TypeOK, HistoryOK
<1> QED BY <1>2, <1>3, <1>4 DEF TypeOK

(* An upload goes on, or is over.                                             *)
LEMMA StepType ==
    ASSUME TypeOK, Grows, NEW u \in Uploads, NEW pc \in {"carry", "promote"}, Step(u, pc) \/ ToUpload(u, NoUpload)
    PROVE  UploadsOK'
<1>1. NoUpload \in UploadRecord'
    BY EmptyRecords, GrowsRecords
<1>2. CASE Step(u, pc)
    <2>1. [NoUpload EXCEPT !.pc = pc] \in UploadRecord' /\ [NoUpload EXCEPT !.pc = pc].pc = pc
        BY <1>1 DEF UploadRecord, NoUpload
    <2> QED BY <1>2, <2>1, UploadSetType DEF Step
<1>3. CASE ToUpload(u, NoUpload)
    BY <1>1, <1>3, UploadSetType DEF NoUpload
<1> QED BY <1>2, <1>3

(* The steps of an upload that write no file keep the types.                  *)
LEMMA UploadStepType ==
    ASSUME TypeOK, NEW u \in Uploads, AbortUpload(u) \/ Verify(u) \/ Promote(u)
    PROVE  TypeOK'
<1>1. Grows /\ Inode' = Inode /\ UNCHANGED <<disk, live, shared, Server>>
    BY DiskGrows DEF AbortUpload, Verify, Promote, Inode
<1>2. UploadsOK'
    BY <1>1, StepType DEF AbortUpload, Verify, Promote
<1>3. FilesOK'
    BY <1>1, EmptyRecords DEF AbortUpload, Verify, Promote, Grows, TypeOK, FilesOK
<1>4. ThreadsOK' /\ ServerOK' /\ HistoryOK'
    BY <1>1, SameThreads, SameServer DEF Server, TypeOK, HistoryOK
<1> QED BY <1>2, <1>3, <1>4 DEF TypeOK

(* Carrying the operators over changes the partial file alone, in nothing but *)
(* its operators.                                                             *)
LEMMA CarriedFile ==
    ASSUME TypeOK, NEW u \in Uploads, CarryOperators(u), live # 0
    PROVE  /\ Grows /\ Len(disk') = Len(disk) /\ part \in 1 .. Len(disk)
           /\ \A j \in (1 .. Len(disk)) \ {part} : disk'[j] = disk[j]
           /\ disk'[part].blocks = disk[part].blocks /\ disk'[part].schema = disk[part].schema
           /\ disk'[part].ops = (disk[part].ops \/ disk[live].ops)
<1> DEFINE f == [disk[part] EXCEPT !.ops = disk[part].ops \/ disk[live].ops]
<1>1. part \in 1 .. Len(disk) /\ disk[part] \in File /\ disk[live] \in File
    BY NamedFile DEF CarryOperators, TypeOK, FilesOK
<1>2. disk' = [disk EXCEPT ![part] = f]
    BY DEF CarryOperators
<1>3. f \in File /\ f.blocks = disk[part].blocks /\ f.schema = disk[part].schema
      /\ f.ops = (disk[part].ops \/ disk[live].ops)
    BY <1>1 DEF File
<1> HIDE DEF f
<1>4. Grows /\ Len(disk') = Len(disk) /\ \A j \in 1 .. Len(disk) : disk'[j] = IF j = part THEN f ELSE disk[j]
    BY <1>1, <1>2, <1>3, Except1, LenProperties DEF Grows, TypeOK, FilesOK
<1> QED BY <1>1, <1>3, <1>4

(* Carrying the operators over keeps the types.                               *)
LEMMA CarryType == ASSUME TypeOK, NEW u \in Uploads, CarryOperators(u), live # 0 PROVE TypeOK'
<1>1. Grows /\ Len(disk') = Len(disk) /\ UNCHANGED <<live, staged, part, Server>>
    BY CarriedFile DEF CarryOperators
<1>2. FilesOK'
    BY <1>1 DEF Grows, TypeOK, FilesOK, Inode
<1>3. UploadsOK'
    BY <1>1, StepType DEF CarryOperators
<1>4. ThreadsOK' /\ ServerOK'
    BY <1>1, SameThreads, SameServer DEF Server
<1>5. HistoryOK'
    <2>1. part \in Nat
        BY CarriedFile, EmptyRecords
    <2>2. shared' \subseteq shared \cup {part}
        BY DEF CarryOperators
    <2> QED BY <1>1, <2>1, <2>2 DEF Server, TypeOK, HistoryOK
<1> QED BY <1>2, <1>3, <1>4, <1>5 DEF TypeOK

(* Where the carrying fails, the partial file is as it was, or new and empty. *)
LEMMA FailedFile ==
    ASSUME TypeOK, NEW u \in Uploads, CarryFails(u)
    PROVE  /\ Grows /\ part' \in 1 .. Len(disk')
           /\ part' = (IF part = 0 THEN Len(disk) + 1 ELSE part)
           /\ \A j \in 1 .. Len(disk) : disk'[j] = disk[j]
           /\ part = 0 => disk'[part'].blocks = <<>>
<1> DEFINE empty == <<>>
<1>1. Len(disk) \in Nat /\ empty \in Seq(Block) /\ FilesOK
    BY LenProperties DEF TypeOK, FilesOK
<1>2. CASE part = 0
    <2>1. disk' = NewFile(empty) /\ part' = Len(disk) + 1
        BY <1>2 DEF CarryFails
    <2> HIDE DEF empty
    <2>2. /\ NewFile(empty) \in Seq(File) /\ Len(NewFile(empty)) = Len(disk) + 1
          /\ \A i \in 1 .. Len(disk) : NewFile(empty)[i] = disk[i]
          /\ NewFile(empty)[Len(disk) + 1] = [blocks |-> empty, ops |-> FALSE, schema |-> 0]
        BY <1>1, Append1
    <2>3. disk'[part'].blocks = empty
        BY <2>1, <2>2
    <2>4. Grows /\ part' \in 1 .. Len(disk') /\ \A j \in 1 .. Len(disk) : disk'[j] = disk[j]
        BY <1>1, <2>1, <2>2 DEF Grows
    <2> QED BY <1>2, <2>1, <2>3, <2>4 DEF empty
<1>3. CASE part # 0
    <2>1. disk' = disk /\ part' = part
        BY <1>3 DEF CarryFails
    <2>2. part \in 1 .. Len(disk)
        BY <1>3, NamedFile DEF TypeOK, FilesOK
    <2> QED BY <1>3, <2>1, <2>2, DiskGrows
<1> QED BY <1>2, <1>3

(* A failed carrying keeps the types.                                         *)
LEMMA CarryFailsType == ASSUME TypeOK, NEW u \in Uploads, CarryFails(u) PROVE TypeOK'
<1>1. Grows /\ part' \in 1 .. Len(disk') /\ UNCHANGED <<live, staged, Server>>
    BY FailedFile DEF CarryFails
<1>2. FilesOK'
    BY <1>1, GrowsRecords DEF Grows, TypeOK, FilesOK, Inode
<1>3. UploadsOK'
    BY <1>1, StepType DEF CarryFails
<1>4. ThreadsOK' /\ ServerOK'
    BY <1>1, SameThreads, SameServer DEF Server
<1>5. HistoryOK'
    <2>1. part' \in Nat
        BY <1>1, GrowsRecords
    <2>2. shared' \subseteq shared \cup {part'}
        BY DEF CarryFails, Opened
    <2> QED BY <1>1, <2>1, <2>2 DEF Server, TypeOK, HistoryOK
<1> QED BY <1>2, <1>3, <1>4, <1>5 DEF TypeOK

-------------------------------------------------------------------------------

(* Steps that write no file keep the types.                                   *)
LEMMA QuietType ==
    ASSUME TypeOK, UNCHANGED disk, {live', staged', part'} \subseteq Inode,
           UploadsOK', ThreadsOK', ServerOK', HistoryOK'
    PROVE  TypeOK'
    BY DEF TypeOK, FilesOK, Inode

(* An apply that gets a record of the right type keeps the applies typed.     *)
LEMMA ApplySetType ==
    ASSUME TypeOK, Grows, NEW a \in Applies, NEW record \in ApplyRecord', ToApply(a, record)
    PROVE  apply' \in [Applies -> ApplyRecord']
<1>1. apply \in [Applies -> ApplyRecord] /\ ApplyRecord \subseteq ApplyRecord'
    BY GrowsRecords DEF TypeOK, ServerOK
<1> QED BY <1>1 DEF ToApply

(* The record an apply was given is its record, and the others keep theirs.   *)
LEMMA ApplySet ==
    ASSUME TypeOK, NEW a \in Applies, NEW record, ToApply(a, record)
    PROVE  apply'[a] = record /\ \A b \in Applies \ {a} : apply'[b] = apply[b]
    BY DEF TypeOK, ServerOK, ToApply

(* A migration changes its file alone, in nothing but its schema.             *)
LEMMA MigratedFile ==
    ASSUME TypeOK, NEW i \in Inode \ {0}, MigrateOne(i)
    PROVE  /\ Grows /\ Len(disk') = Len(disk) /\ i \in 1 .. Len(disk)
           /\ \A j \in (1 .. Len(disk)) \ {i} : disk'[j] = disk[j]
           /\ disk'[i].ops = disk[i].ops /\ disk'[i].schema = disk[i].schema + 1
<1> DEFINE f == [disk[i] EXCEPT !.schema = @ + 1]
<1>1. i \in 1 .. Len(disk) /\ disk[i] \in File
    BY NamedFile
<1>2. f \in File /\ f.ops = disk[i].ops /\ f.schema = disk[i].schema + 1
    BY <1>1 DEF File
<1>3. disk' = [disk EXCEPT ![i] = f]
    BY DEF MigrateOne
<1> HIDE DEF f
<1>4. Grows /\ Len(disk') = Len(disk) /\ \A j \in 1 .. Len(disk) : disk'[j] = IF j = i THEN f ELSE disk[j]
    BY <1>1, <1>2, <1>3, Except1, LenProperties DEF Grows, TypeOK, FilesOK
<1> QED BY <1>1, <1>2, <1>4

(* The executor keeps its type when a thread is stopped, forgotten, started or *)
(* ends.                                                                      *)
LEMMA ExecutorType ==
    ASSUME TypeOK, UNCHANGED disk
    PROVE  /\ \A b \in BOOLEAN : [executor EXCEPT !.stop = b]
                  \in [thread : Nat, alive : SUBSET ThreadRecord', stop : BOOLEAN, started : Nat]
           /\ \A n \in Nat : [executor EXCEPT !.stop = FALSE, !.thread = n]
                  \in [thread : Nat, alive : SUBSET ThreadRecord', stop : BOOLEAN, started : Nat]
           /\ \A x : [executor EXCEPT !.alive = @ \ {x}]
                  \in [thread : Nat, alive : SUBSET ThreadRecord', stop : BOOLEAN, started : Nat]
           /\ executor.thread \in Nat /\ executor.started \in Nat
<1>1. executor \in [thread : Nat, alive : SUBSET ThreadRecord, stop : BOOLEAN, started : Nat]
    BY DEF TypeOK, ThreadsOK
<1>2. ThreadRecord' = ThreadRecord
    BY DEF ThreadRecord, Inode
<1> HIDE DEF ThreadRecord
<1> QED BY <1>1, <1>2

(* Closed connections are typed.                                              *)
LEMMA ClosedType == TypeOK => Closed \in [Threads -> ConnRecord]
    BY EmptyRecords DEF TypeOK, ThreadsOK, Closed

(* An apply that starts, stops the executor or joins its thread keeps the types. *)
LEMMA StopType ==
    ASSUME TypeOK, NEW a \in Applies, StartApply(a) \/ StopExecutor(a) \/ JoinThread(a)
    PROVE  TypeOK'
<1>1. UNCHANGED <<files, conn, raises, raised, Rest>> /\ Grows
    BY DiskGrows DEF StartApply, StopExecutor, JoinThread, files
<1>2. ApplyRecord' = ApplyRecord /\ ConnRecord' = ConnRecord /\ apply[a] \in ApplyRecord
    BY <1>1, ApplyTypes DEF ApplyRecord, ConnRecord, Inode, files
<1>3. UploadsOK' /\ {live', staged', part'} \subseteq Inode /\ UNCHANGED disk
    BY <1>1, SameUploads DEF Rest, files, TypeOK, FilesOK
<1>4. ThreadsOK'
    <2>1. executor' \in [thread : Nat, alive : SUBSET ThreadRecord', stop : BOOLEAN, started : Nat]
        <3>1. CASE StartApply(a)
            BY <1>1, <3>1, SameThreads DEF StartApply, ThreadsOK
        <3>2. CASE StopExecutor(a)
            BY <1>3, <3>2, ExecutorType DEF StopExecutor
        <3>3. CASE JoinThread(a)
            <4>1. (IF apply[a].thread = 0 THEN executor.thread ELSE 0) \in Nat
                BY <1>3, ExecutorType
            <4>2. executor' = [executor EXCEPT !.stop = FALSE,
                                   !.thread = IF apply[a].thread = 0 THEN executor.thread ELSE 0]
                BY <3>3 DEF JoinThread
            <4> QED BY <1>3, <4>1, <4>2, ExecutorType
        <3> QED BY <3>1, <3>2, <3>3
    <2> QED BY <1>1, <1>2, <2>1 DEF ThreadsOK, TypeOK
<1>5. ServerOK'
    <2>1. apply' \in [Applies -> ApplyRecord']
        <3>1. [apply[a] EXCEPT !.pc = "stop"] \in ApplyRecord
            BY <1>2 DEF ApplyRecord
        <3>2. [apply[a] EXCEPT !.pc = "join", !.thread = executor.thread] \in ApplyRecord
            BY <1>2, <1>3, ExecutorType DEF ApplyRecord
        <3>3. [NoApply EXCEPT !.pc = "close"] \in ApplyRecord
            BY EmptyRecords DEF ApplyRecord
        <3>4. apply \in [Applies -> ApplyRecord]
            BY DEF TypeOK, ServerOK
        <3> QED BY <1>1, <1>2, <3>1, <3>2, <3>3, <3>4, ApplySetType DEF StartApply, StopExecutor, JoinThread, Goes
    <2> QED BY <1>1, <2>1 DEF StartApply, StopExecutor, JoinThread, Rest, TypeOK, ServerOK
<1>6. HistoryOK'
    <2>1. overlapped' \in BOOLEAN
        BY DEF StartApply, StopExecutor, JoinThread, TypeOK, HistoryOK
    <2> QED BY <1>1, <2>1 DEF Rest, TypeOK, HistoryOK
<1> QED BY <1>3, <1>4, <1>5, <1>6, QuietType

(* An apply that closes, swaps, opens or gives up, and a discard, keep the types. *)
LEMMA SwapType ==
    ASSUME TypeOK, live # 0, NEW a \in Applies,
           CloseAll(a) \/ SwapFiles(a) \/ Reopen(a) \/ MigrateRaises(a) \/ Discard
    PROVE  TypeOK'
<1>1. UNCHANGED <<disk, part, executor, overlapped, restart, kills, shared, upload>> \/ Discard
    BY DEF CloseAll, SwapFiles, Reopen, MigrateRaises, files, Rest
<1>2. UNCHANGED <<disk, executor, overlapped, restart, kills, shared, upload>> /\ Grows
    BY <1>1, DiskGrows DEF Discard, Server
<1>3. ApplyRecord' = ApplyRecord /\ ConnRecord' = ConnRecord /\ ThreadRecord' = ThreadRecord /\ apply[a] \in ApplyRecord
    BY <1>2, ApplyTypes DEF ApplyRecord, ConnRecord, ThreadRecord, Inode
<1>4. {live', staged', part'} \subseteq Inode
    BY EmptyRecords DEF CloseAll, SwapFiles, Reopen, MigrateRaises, Discard, files, TypeOK, FilesOK
<1>5. ThreadsOK'
    <2>1. conn' = conn \/ conn' = Closed
        BY DEF CloseAll, SwapFiles, Reopen, MigrateRaises, Discard, Server
    <2> QED BY <1>2, <1>3, <2>1, ClosedType DEF TypeOK, ThreadsOK
<1>6. ServerOK'
    <2>1. apply' \in [Applies -> ApplyRecord']
        <3>1. [apply[a] EXCEPT !.pc = "swap"] \in ApplyRecord /\ [apply[a] EXCEPT !.pc = "reopen"] \in ApplyRecord
            BY <1>3 DEF ApplyRecord
        <3>2. CASE Reopen(a)
            <4>1. live \in Inode /\ disk[live].schema \in Nat
                BY NamedFile DEF TypeOK, FilesOK, File
            <4>2. [apply[a] EXCEPT !.pc = "migrate", !.inode = live, !.done = disk[live].schema] \in ApplyRecord
                BY <1>3, <4>1 DEF ApplyRecord
            <4> QED BY <1>2, <1>3, <3>2, <4>2, ApplySetType DEF Reopen
        <3>3. CASE ~ Reopen(a)
            <4>1. apply \in [Applies -> ApplyRecord]
                BY DEF TypeOK, ServerOK
            <4> QED BY <1>2, <1>3, <3>1, <3>3, <4>1, EmptyRecords, ApplySetType
                    DEF CloseAll, SwapFiles, MigrateRaises, Discard, Goes, Server
        <3> QED BY <3>2, <3>3
    <2>2. app' = app /\ raises' \in Nat
        BY DEF CloseAll, SwapFiles, Reopen, MigrateRaises, Discard, Server, TypeOK, ServerOK
    <2> QED BY <1>2, <2>1, <2>2 DEF TypeOK, ServerOK
<1>7. HistoryOK'
    <2>1. raised' \in BOOLEAN
        BY DEF CloseAll, SwapFiles, Reopen, MigrateRaises, Discard, Server, TypeOK, HistoryOK
    <2> QED BY <1>2, <2>1 DEF TypeOK, HistoryOK
<1>8. UploadsOK'
    BY <1>2, SameUploads
<1> QED BY <1>2, <1>4, <1>5, <1>6, <1>7, <1>8, QuietType

(* A migration, and the start of the executor, keep the types.                *)
LEMMA MigrateType ==
    ASSUME TypeOK, live # 0, NEW a \in Applies, MigrateApply(a) \/ StartExecutor(a),
           apply[a].pc = "migrate" => apply[a].inode # 0
    PROVE  TypeOK'
<1>0. apply[a] \in ApplyRecord
    BY ApplyTypes
<1>1. Grows /\ Len(disk') = Len(disk)
    <2>1. CASE UNCHANGED disk
        BY <2>1, DiskGrows
    <2>2. CASE MigrateApply(a) /\ MigrateOne(apply[a].inode)
        <3>1. apply[a].inode \in Inode \ {0}
            BY <1>0, <2>2 DEF MigrateApply, ApplyRecord
        <3> QED BY <2>2, <3>1, MigratedFile
    <2> QED BY <2>1, <2>2 DEF MigrateApply, StartExecutor, files
<1>2. UNCHANGED <<live, staged, part, app, conn, raises, overlapped, Rest>>
    BY DEF MigrateApply, StartExecutor, files
<1>3. /\ Inode' = Inode /\ ApplyRecord' = ApplyRecord /\ ConnRecord' = ConnRecord
      /\ ThreadRecord' = ThreadRecord
    BY <1>1 DEF ApplyRecord, ConnRecord, ThreadRecord, Inode
<1>4. FilesOK' /\ UploadsOK'
    BY <1>1, <1>2, <1>3, SameUploads DEF Rest, Grows, TypeOK, FilesOK
<1>5. ThreadsOK'
    <2>1. executor \in [thread : Nat, alive : SUBSET ThreadRecord, stop : BOOLEAN, started : Nat]
        BY DEF TypeOK, ThreadsOK
    <2>2. executor' \in [thread : Nat, alive : SUBSET ThreadRecord, stop : BOOLEAN, started : Nat]
        <3>1. CASE executor' = executor
            BY <2>1, <3>1
        <3>2. CASE StartExecutor(a)
            <4> DEFINE id == executor.started + 1
            <4>1. Thread(id, live) \in ThreadRecord /\ id \in Nat
                BY <2>1 DEF Thread, ThreadRecord, TypeOK, FilesOK
            <4>2. executor' = executor \/ executor' = [executor EXCEPT !.thread = id, !.started = id,
                                                           !.alive = @ \cup {Thread(id, live)}]
                BY <3>2 DEF StartExecutor
            <4> HIDE DEF id
            <4> QED BY <2>1, <4>1, <4>2
        <3> QED BY <3>1, <3>2 DEF MigrateApply
    <2> QED BY <1>2, <1>3, <2>2 DEF TypeOK, ThreadsOK
<1>6. ServerOK'
    <2>1. apply' \in [Applies -> ApplyRecord']
        <3>1. MigrateApply(a) /\ apply[a].done < Build => [apply[a] EXCEPT !.done = @ + 1] \in ApplyRecord
            BY <1>0 DEF ApplyRecord
        <3>2. NoApply \in ApplyRecord /\ [NoApply EXCEPT !.pc = "start"] \in ApplyRecord
            BY EmptyRecords DEF ApplyRecord
        <3> QED BY <1>1, <1>3, <3>1, <3>2, ApplySetType DEF MigrateApply, StartExecutor
    <2> QED BY <1>2, <2>1 DEF Rest, TypeOK, ServerOK
<1>7. HistoryOK'
    <2>1. raised' \in BOOLEAN
        BY DEF MigrateApply, StartExecutor, TypeOK, HistoryOK
    <2> QED BY <1>2, <2>1 DEF Rest, TypeOK, HistoryOK
<1> QED BY <1>4, <1>5, <1>6, <1>7 DEF TypeOK

(* Connections that are opened and threads that end keep the types.           *)
LEMMA RequestType ==
    ASSUME TypeOK, ThreadEnds \/ \E t \in Threads : OpenConn(t) \/ CacheConn(t)
    PROVE  TypeOK'
<1>1. UNCHANGED Handlers
    BY DEF ThreadEnds, OpenConn, CacheConn
<1>2. UNCHANGED disk /\ {live', staged', part'} \subseteq Inode /\ Grows
    BY <1>1, DiskGrows DEF Handlers, files, TypeOK, FilesOK
<1>3. UploadsOK' /\ ServerOK' /\ HistoryOK'
    BY <1>1, <1>2, SameUploads, SameServer DEF Handlers, Rest, TypeOK, HistoryOK
<1>4. ConnRecord' = ConnRecord /\ ThreadRecord' = ThreadRecord
    BY <1>2 DEF ConnRecord, ThreadRecord, Inode
<1>5. conn \in [Threads -> ConnRecord]
    BY DEF TypeOK, ThreadsOK
<1>6. CASE ThreadEnds
    <2>1. executor' \in [thread : Nat, alive : SUBSET ThreadRecord', stop : BOOLEAN, started : Nat]
        BY <1>2, <1>6, ExecutorType DEF ThreadEnds
    <2> QED BY <1>2, <1>3, <1>4, <1>5, <1>6, <2>1, QuietType DEF ThreadEnds, ThreadsOK
<1>7. ASSUME NEW t \in Threads, OpenConn(t) \/ CacheConn(t) PROVE TypeOK'
    <2>1. conn' \in [Threads -> ConnRecord]
        <3>1. [pc |-> "opened", inode |-> live] \in ConnRecord /\ [conn[t] EXCEPT !.pc = "cached"] \in ConnRecord
            BY <1>5 DEF TypeOK, FilesOK, ConnRecord
        <3> QED BY <1>5, <1>7, <3>1 DEF OpenConn, CacheConn
    <2>2. ThreadsOK'
        BY <1>4, <1>7, <2>1 DEF OpenConn, CacheConn, ThreadsOK, TypeOK
    <2> QED BY <1>2, <1>3, <2>2, QuietType
<1> QED BY <1>6, <1>7

(* A process that goes down keeps the types.                                  *)
LEMMA DownType == ASSUME TypeOK, Exit \/ Kill \/ BootRaises PROVE TypeOK'
<1>1. Down("down") /\ kills' \in Nat /\ raises' \in Nat
    BY DEF Exit, Kill, BootRaises, TypeOK, ServerOK
<1>2. UNCHANGED <<disk, shared, raised, restart>> /\ {live', staged', part'} \subseteq Inode
    BY <1>1 DEF Down, files, TypeOK, FilesOK
<1>3. /\ UploadRecord' = UploadRecord /\ ThreadRecord' = ThreadRecord /\ ConnRecord' = ConnRecord
      /\ ApplyRecord' = ApplyRecord
    BY <1>2 DEF UploadRecord, ThreadRecord, ConnRecord, ApplyRecord, Inode
<1>4. UploadsOK'
    BY <1>1, <1>3, EmptyRecords DEF Down, UploadsOK, NoUpload
<1>5. ThreadsOK'
    BY <1>1, <1>3, EmptyRecords DEF Down, ThreadsOK, NoExecutor
<1>6. ServerOK'
    BY <1>1, <1>2, <1>3, EmptyRecords DEF Down, TypeOK, ServerOK
<1>7. HistoryOK'
    BY <1>1, <1>2 DEF Down, TypeOK, HistoryOK
<1> QED BY <1>2, <1>4, <1>5, <1>6, <1>7, QuietType

(* A boot keeps the types.                                                    *)
LEMMA BootType == ASSUME TypeOK, BootRemove \/ BootMove \/ BootMigrate, app = "migrate" => live # 0 PROVE TypeOK'
<1>1. Grows /\ Len(disk') = Len(disk)
    <2>1. CASE UNCHANGED disk
        BY <2>1, DiskGrows
    <2>2. CASE MigrateOne(live) /\ app = "migrate"
        BY <2>2, MigratedFile DEF TypeOK, FilesOK
    <2> QED BY <2>1, <2>2 DEF BootRemove, BootMove, BootMigrate
<1>2. Inode' = Inode /\ ThreadRecord' = ThreadRecord /\ ConnRecord' = ConnRecord
    BY <1>1 DEF ThreadRecord, ConnRecord, Inode
<1>3. FilesOK'
    BY <1>1, <1>2, EmptyRecords DEF BootRemove, BootMove, BootMigrate, Grows, TypeOK, FilesOK
<1>4. UNCHANGED <<upload, apply, conn, restart, kills, raises, shared, overlapped>>
    BY DEF BootRemove, BootMove, BootMigrate, BootTo
<1>5. UploadsOK'
    BY <1>1, <1>4, SameUploads
<1>6. ServerOK'
    <2>1. apply' \in [Applies -> ApplyRecord']
        BY <1>2, <1>4 DEF TypeOK, ServerOK, ApplyRecord
    <2>2. app' \in {"up", "exiting", "down", "removed", "migrate"}
        BY DEF BootRemove, BootMove, BootMigrate, BootTo
    <2> QED BY <1>4, <2>1, <2>2 DEF TypeOK, ServerOK
<1>7. ThreadsOK'
    <2>1. Thread(1, live) \in ThreadRecord
        BY DEF TypeOK, FilesOK, ThreadRecord, Thread
    <2>2. NewExecutor(live) \in [thread : Nat, alive : SUBSET ThreadRecord, stop : BOOLEAN, started : Nat]
        BY <2>1 DEF NewExecutor
    <2>3. executor' = executor \/ executor' = NewExecutor(live)
        BY DEF BootRemove, BootMove, BootMigrate
    <2> QED BY <1>2, <1>4, <2>2, <2>3 DEF ThreadsOK, TypeOK
<1>8. HistoryOK'
    <2>1. raised' \in BOOLEAN
        BY DEF BootRemove, BootMove, BootMigrate, TypeOK, HistoryOK
    <2> QED BY <1>4, <2>1 DEF TypeOK, HistoryOK
<1> QED BY <1>3, <1>5, <1>6, <1>7, <1>8 DEF TypeOK

-------------------------------------------------------------------------------

(* A body has a block at least.                                               *)
LEMMA WholeNotEmpty == ASSUME NEW b \in Bodies PROVE Whole(b) # <<>>
<1>1. Whole(b)[1] = <<b, 1>> /\ 1 \in DOMAIN Whole(b)
    BY SwapConstants DEF Whole
<1> QED BY <1>1

(* The parts of the invariant that an upload does not touch as long as it     *)
(* leaves the live file alone.                                                *)
LEMMA UploadFrame ==
    ASSUME IInv, Up, UNCHANGED <<live, Server>>,
           Own(live)' => Own(live) /\ disk'[live] = disk[live],
           staged' \in {0, staged, part}, part' \in {0, part, Len(disk) + 1}
    PROVE  LiveOK' /\ ApplyOK' /\ ExecutorOK' /\ Up' /\ live # 0
<1>1. UNCHANGED <<live, app, apply, conn, executor, raised, overlapped>>
    BY DEF Server
<1>2. live # 0 /\ app \notin {"down", "removed"}
    BY DEF IInv, Parts, LiveOK, Up
<1>3. LiveOK'
    BY <1>1, <1>2 DEF IInv, Parts, LiveOK
<1>4. ApplyOK'
    <2>1. MayLackMigrations' = MayLackMigrations
        BY <1>1 DEF MayLackMigrations
    <2>2. ASSUME NEW a \in Applies, apply'[a].pc = "migrate"
          PROVE  /\ apply'[a].inode \notin {0, staged', part'}
                 /\ apply'[a].inode = live' /\ Own(live)' => apply'[a].done <= disk'[live'].schema
        <3>1. apply[a].inode \in Inode /\ Len(disk) \in Nat
            BY ApplyTypes, EmptyRecords DEF IInv, ApplyRecord
        <3>2. apply[a].inode # Len(disk) + 1
            BY <3>1 DEF Inode
        <3> QED BY <1>1, <2>2, <3>2 DEF IInv, Parts, ApplyOK
    <2> QED BY <1>1, <2>1, <2>2 DEF IInv, Parts, ApplyOK, Up
<1>5. ExecutorOK'
    BY <1>1 DEF IInv, Parts, ExecutorOK, ExecutorOnLive, Up, NoApplies, AtWork
<1> QED BY <1>1, <1>2, <1>3, <1>4, <1>5 DEF Up

(* The record an upload was given is its record, and the others keep theirs.  *)
LEMMA UploadSet ==
    ASSUME TypeOK, NEW u \in Uploads, NEW record, ToUpload(u, record)
    PROVE  upload'[u] = record /\ \A v \in Uploads \ {u} : upload'[v] = upload[v]
    BY DEF TypeOK, UploadsOK, ToUpload

(* The names that are given are of files on disk, and a new file has none.    *)
LEMMA Names == ASSUME TypeOK PROVE Len(disk) + 1 \notin {live, staged, part} /\ Len(disk) + 1 # 0
    BY EmptyRecords DEF TypeOK, FilesOK, Inode

(* An upload that opens the partial file makes it its own when it is alone,   *)
(* and nobody's when it is not.                                               *)
LEMMA OpenPartialStep == ASSUME IInv, NEW u \in Uploads, OpenPartial(u) PROVE IInv'
<1>1. TypeOK /\ TypeOK' /\ Up /\ UNCHANGED <<live, staged, Server>>
    BY OpenPartialType DEF IInv, OpenPartial
<1>2. /\ Grows /\ part' \in 1 .. Len(disk') /\ disk'[part'].blocks = <<>>
      /\ part' = (IF part = 0 THEN Len(disk) + 1 ELSE part)
      /\ \A j \in (1 .. Len(disk)) \ {part'} : disk'[j] = disk[j]
    BY <1>1, OpenedFile
<1>3. Apart' /\ part' # 0 /\ live # part' /\ staged # part'
    <2>1. part' # 0
        BY <1>1, <1>2, Names
    <2>2. Apart /\ live # 0
        BY <1>1 DEF IInv, Parts, LiveOK, Up
    <2> QED BY <1>1, <1>2, <2>1, <2>2, Names DEF Apart
<1>4. shared \ {part'} \subseteq shared' /\ (OthersUpload(u) => part' \in shared')
    BY DEF OpenPartial, Opened
<1>5. /\ Own(live)' => Own(live) /\ disk'[live] = disk[live]
      /\ Own(staged)' => Own(staged) /\ disk'[staged] = disk[staged]
    <2>1. \A i \in Inode \ {0} : i \in 1 .. Len(disk)
        BY <1>1, NamedFile
    <2>2. live \in Inode /\ staged \in Inode
        BY <1>1 DEF TypeOK, FilesOK
    <2> QED BY <1>1, <1>2, <1>3, <1>4, <2>1, <2>2 DEF Own
<1>6. LiveOK' /\ ApplyOK' /\ ExecutorOK' /\ Up'
    BY <1>1, <1>2, <1>5, UploadFrame
<1>7. StagedOK'
    BY <1>1, <1>5 DEF IInv, Parts, StagedOK, Replacement
<1>8. PartOK'
    BY <1>2, WholeNotEmpty DEF PartOK, Whole
<1>9. UploadOK'
    <2>1. PICK body \in Bodies : ToUpload(u, [pc |-> "write", body |-> body, inode |-> part', size |-> 0])
        BY <1>2 DEF OpenPartial
    <2>2. /\ upload'[u] = [pc |-> "write", body |-> body, inode |-> part', size |-> 0]
          /\ \A v \in Uploads \ {u} : upload'[v] = upload[v]
        BY <1>1, <2>1, UploadSet
    <2>3. Own(part)' => \A v \in Uploads \ {u} : upload[v].pc = "idle"
        BY <1>4 DEF Own, OthersUpload
    <2>4. ASSUME NEW v \in Uploads
          PROVE  /\ upload'[v].pc # "idle" => Up'
                 /\ upload'[v].pc = "write" => /\ upload'[v].inode # 0
                                               /\ Own(live)' => upload'[v].inode # live'
                                               /\ Own(staged)' => upload'[v].inode # staged'
                                               /\ Own(part)' => upload'[v].inode = part'
                 /\ upload'[v].pc # "idle" /\ Own(part)' => \A w \in Uploads : upload'[w].pc # "idle" => w = v
                 /\ upload'[v].pc \in {"carry", "promote"} /\ Own(part)' => Replacement(part)'
                 /\ upload'[v].pc = "promote" /\ Own(part)' => disk'[part'].ops
        <3>1. CASE v = u
            BY <1>1, <1>3, <1>6, <2>2, <2>3, <3>1
        <3>2. CASE v # u
            <4>1. upload'[v] = upload[v] /\ (Own(part)' => upload[v].pc = "idle")
                BY <2>2, <2>3, <3>2
            <4>2. upload[v].pc = "write" => /\ upload[v].inode # 0
                                            /\ Own(live) => upload[v].inode # live
                                            /\ Own(staged) => upload[v].inode # staged
                BY DEF IInv, Parts, UploadOK
            <4> QED BY <1>1, <1>5, <1>6, <4>1, <4>2
        <3> QED BY <3>1, <3>2
    <2> QED BY <2>4 DEF UploadOK
<1> QED BY <1>1, <1>3, <1>6, <1>7, <1>8, <1>9 DEF IInv, Parts

(* A block is written into the file the upload opened: into its own partial   *)
(* file, or into one of which nothing is promised.                            *)
LEMMA WriteBlockStep == ASSUME IInv, NEW u \in Uploads, WriteBlock(u) PROVE IInv'
<1> DEFINE i == upload[u].inode
<1>1. TypeOK /\ upload[u].pc = "write" /\ UNCHANGED <<live, staged, part, shared, Server>>
    BY DEF IInv, WriteBlock
<1>2. i # 0 /\ Up /\ (Own(live) => i # live) /\ (Own(staged) => i # staged) /\ (Own(part) => i = part)
    BY <1>1 DEF IInv, Parts, UploadOK
<1>3. TypeOK'
    BY <1>1, <1>2, WriteBlockType
<1>4. /\ \A j \in (1 .. Len(disk)) \ {i} : disk'[j] = disk[j]
      /\ \A b \in Bodies : disk'[i].blocks = Whole(b) => disk'[i].schema = BodySchema[b]
    BY <1>1, <1>2, WrittenFile
<1>5. \A j \in Inode \ {0, i} : disk'[j] = disk[j]
    BY <1>1, <1>4, NamedFile
<1> HIDE DEF i
<1>6. {live, staged, part} \subseteq Inode
    BY <1>1 DEF TypeOK, FilesOK
<1>7. LiveOK' /\ ApplyOK' /\ ExecutorOK' /\ Up'
    <2>1. Own(live)' => Own(live) /\ disk'[live] = disk[live]
        BY <1>1, <1>2, <1>5, <1>6 DEF Own
    <2> QED BY <1>1, <1>2, <2>1, UploadFrame
<1>8. StagedOK'
    <2>1. Own(staged)' => Own(staged) /\ disk'[staged] = disk[staged]
        BY <1>1, <1>2, <1>5, <1>6 DEF Own
    <2> QED BY <1>1, <2>1 DEF IInv, Parts, StagedOK, Replacement
<1>9. PartOK'
    BY <1>1, <1>4, <1>5, <1>6 DEF IInv, Parts, PartOK, Whole
<1>10. Apart'
    BY <1>1 DEF IInv, Parts, Apart
<1>11. UploadOK'
    <2>1. ToUpload(u, [upload[u] EXCEPT !.size = @ + 1])
        BY DEF WriteBlock
    <2>2. \A v \in Uploads : upload'[v].pc = upload[v].pc /\ upload'[v].inode = upload[v].inode
        <3>1. upload[u] \in UploadRecord
            BY <1>1, UploadTypes
        <3>2. upload'[u] = [upload[u] EXCEPT !.size = @ + 1] /\ \A v \in Uploads \ {u} : upload'[v] = upload[v]
            BY <1>1, <2>1, UploadSet
        <3> QED BY <3>1, <3>2 DEF UploadRecord
    <2>3. \A v \in Uploads : upload[v].pc \in {"carry", "promote"} /\ Own(part) => FALSE
        BY <1>1 DEF IInv, Parts, UploadOK
    <2> QED BY <1>1, <1>7, <2>2, <2>3 DEF IInv, Parts, UploadOK, Own
<1> QED BY <1>3, <1>7, <1>8, <1>9, <1>10, <1>11 DEF IInv, Parts

(* What an upload leaves as it is, when it writes no file but gives a name.   *)
LEMMA UploadQuiet ==
    ASSUME IInv, NEW u \in Uploads, upload[u].pc # "idle", UNCHANGED <<disk, live, shared, Server>>,
           staged' \in {0, staged, part}, part' \in {0, part}
    PROVE  LiveOK' /\ ApplyOK' /\ ExecutorOK' /\ Up' /\ PartOK'
<1>1. Up
    BY DEF IInv, Parts, UploadOK
<1>2. LiveOK' /\ ApplyOK' /\ ExecutorOK' /\ Up'
    <2>1. Own(live)' => Own(live) /\ disk'[live] = disk[live]
        BY DEF Own
    <2> QED BY <1>1, <2>1, UploadFrame
<1>3. PartOK'
    BY DEF IInv, Parts, PartOK, Whole
<1> QED BY <1>2, <1>3

(* An upload that is over promises nothing more.                              *)
LEMMA UploadOver ==
    ASSUME IInv, NEW u \in Uploads, upload[u].pc # "idle", UNCHANGED <<disk, live, staged, shared, Server>>,
           part' \in {0, part}, ToUpload(u, NoUpload), TypeOK'
    PROVE  IInv'
<1>1. LiveOK' /\ ApplyOK' /\ ExecutorOK' /\ Up' /\ PartOK'
    BY UploadQuiet
<1>2. Apart' /\ StagedOK'
    BY DEF IInv, Parts, Apart, LiveOK, StagedOK, Replacement, Own
<1>3. UploadOK'
    <2>1. upload'[u].pc = "idle" /\ \A v \in Uploads \ {u} : upload'[v] = upload[v]
        BY UploadSet DEF IInv, NoUpload
    <2>2. Own(part)' => Own(part) /\ part' = part
        BY DEF Own
    <2>3. Own(part)' => \A v \in Uploads : upload'[v].pc = "idle"
        BY <2>1, <2>2 DEF IInv, Parts, UploadOK
    <2>4. \A v \in Uploads : upload'[v].pc = "write" => upload'[v] = upload[v]
        BY <2>1
    <2> QED BY <1>1, <2>3, <2>4 DEF IInv, Parts, UploadOK, Own
<1> QED BY <1>1, <1>2, <1>3 DEF IInv, Parts

(* An upload goes on to the next step with its partial file.                  *)
LEMMA UploadGoes ==
    ASSUME IInv, NEW u \in Uploads, upload[u].pc # "idle", NEW pc \in {"carry", "promote"}, Step(u, pc),
           UNCHANGED <<live, staged, part>>, Up', shared \subseteq shared',
           \A j \in {live, staged} \ {0, part} : disk'[j] = disk[j],
           Own(part)' => Replacement(part)' /\ (pc = "promote" => disk'[part].ops)
    PROVE  UploadOK'
<1>1. upload'[u].pc = pc /\ \A v \in Uploads \ {u} : upload'[v] = upload[v]
    BY UploadSet DEF IInv, Step, NoUpload
<1>2. (Own(live)' => Own(live)) /\ (Own(staged)' => Own(staged)) /\ (Own(part)' => Own(part))
    BY DEF Own
<1>3. Own(part)' => \A v \in Uploads : upload'[v].pc # "idle" => v = u
    BY <1>1, <1>2 DEF IInv, Parts, UploadOK
<1>4. \A v \in Uploads : upload'[v].pc = "write" => v # u /\ upload'[v] = upload[v]
    BY <1>1
<1>5. \A v \in Uploads : upload'[v].pc = "write" =>
          /\ upload'[v].inode # 0
          /\ Own(live)' => upload'[v].inode # live'
          /\ Own(staged)' => upload'[v].inode # staged'
          /\ Own(part)' => upload'[v].inode = part'
    BY <1>2, <1>3, <1>4 DEF IInv, Parts, UploadOK
<1>6. \A v \in Uploads : Own(part)' /\ upload'[v].pc # "idle" => v = u
    BY <1>3
<1>7. \A v \in Uploads : /\ upload'[v].pc \in {"carry", "promote"} /\ Own(part)' => Replacement(part)'
                         /\ upload'[v].pc = "promote" /\ Own(part)' => disk'[part'].ops
    BY <1>1, <1>6
<1>8. \A v \in Uploads : upload'[v].pc # "idle" /\ Own(part)' => \A w \in Uploads : upload'[w].pc # "idle" => w = v
    BY <1>6
<1> QED BY <1>5, <1>7, <1>8 DEF UploadOK

(* The inspection is of the file under the partial name; one that fails takes *)
(* the name away.                                                             *)
LEMMA VerifyStep == ASSUME IInv, NEW u \in Uploads, Verify(u) PROVE IInv'
<1>1. TypeOK' /\ upload[u].pc # "idle" /\ UNCHANGED <<disk, live, staged, shared, Server>>
    BY UploadStepType DEF IInv, Verify
<1>2. CASE part' = 0 /\ ToUpload(u, NoUpload)
    BY <1>1, <1>2, UploadOver
<1>3. CASE part # 0 /\ Inspected(part) # {} /\ Step(u, "carry") /\ part' = part
    <2>1. LiveOK' /\ ApplyOK' /\ ExecutorOK' /\ Up' /\ PartOK'
        BY <1>1, <1>3, UploadQuiet
    <2>2. Apart' /\ StagedOK'
        BY <1>1, <1>3 DEF IInv, Parts, Apart, StagedOK, Replacement, Own, Whole
    <2>3. Replacement(part)'
        <3>1. PICK b \in Bodies : disk[part].blocks = Whole(b) /\ BodySchema[b] \in 1 .. Build
            BY <1>3 DEF Inspected
        <3>2. disk[part].schema = BodySchema[b]
            BY <1>3, <3>1 DEF IInv, Parts, PartOK
        <3> QED BY <1>1, <1>3, <3>1, <3>2 DEF Replacement, Whole
    <2>4. UploadOK'
        BY <1>1, <1>3, <2>1, <2>3, UploadGoes
    <2> QED BY <1>1, <2>1, <2>2, <2>4 DEF IInv, Parts
<1> QED BY <1>2, <1>3 DEF Verify

(* The file that is carried into stays one that was inspected, and is nobody's *)
(* own when it comes out without operators.                                   *)
LEMMA CarryStep == ASSUME IInv, NEW u \in Uploads, CarryOperators(u) PROVE IInv'
<1>1. upload[u].pc = "carry" /\ part # 0 /\ UNCHANGED <<live, staged, part, Server>> /\ TypeOK
    BY DEF IInv, CarryOperators
<1>2. Up /\ live # 0 /\ live # part /\ staged # part
    BY <1>1 DEF IInv, Parts, UploadOK, LiveOK, Apart, Up
<1>3. TypeOK'
    BY <1>1, <1>2, CarryType
<1>4. /\ \A j \in (1 .. Len(disk)) \ {part} : disk'[j] = disk[j]
      /\ disk'[part].blocks = disk[part].blocks /\ disk'[part].schema = disk[part].schema
      /\ disk'[part].ops = (disk[part].ops \/ disk[live].ops)
    BY <1>1, <1>2, CarriedFile
<1>5. \A j \in {live, staged} \ {0, part} : disk'[j] = disk[j]
    BY <1>1, <1>4, NamedFile DEF TypeOK, FilesOK
<1>6. shared \subseteq shared' /\ (Own(part)' => Own(part) /\ (disk[part].ops \/ disk[live].ops))
    BY <1>1 DEF CarryOperators, Own
<1>7. /\ Own(live)' => Own(live) /\ disk'[live] = disk[live]
      /\ Own(staged)' => Own(staged) /\ disk'[staged] = disk[staged]
    BY <1>1, <1>2, <1>5, <1>6 DEF Own
<1>8. LiveOK' /\ ApplyOK' /\ ExecutorOK' /\ Up'
    BY <1>1, <1>2, <1>7, UploadFrame
<1>9. Apart' /\ StagedOK' /\ PartOK'
    <2>1. Apart'
        BY <1>1 DEF IInv, Parts, Apart
    <2>2. StagedOK'
        BY <1>1, <1>7 DEF IInv, Parts, StagedOK, Replacement, Whole
    <2>3. PartOK'
        BY <1>1, <1>4 DEF IInv, Parts, PartOK, Whole
    <2> QED BY <2>1, <2>2, <2>3
<1>10. Own(part)' => Replacement(part)' /\ disk'[part].ops
    <2>1. Own(part) => Replacement(part)
        BY <1>1 DEF IInv, Parts, UploadOK
    <2> QED BY <1>1, <1>4, <1>6, <2>1 DEF Replacement, Whole
<1>11. UploadOK'
    <2>1. Step(u, "promote") /\ upload[u].pc # "idle"
        BY <1>1 DEF CarryOperators
    <2> QED BY <1>1, <1>5, <1>6, <1>8, <1>10, <2>1, UploadGoes
<1> QED BY <1>3, <1>8, <1>9, <1>11 DEF IInv, Parts

(* A carrying that fails leaves the partial file, or an empty one in its place. *)
LEMMA CarryFailsStep == ASSUME IInv, NEW u \in Uploads, CarryFails(u) PROVE IInv'
<1>1. TypeOK /\ TypeOK' /\ upload[u].pc = "carry" /\ ToUpload(u, NoUpload) /\ UNCHANGED <<live, staged, Server>>
    BY CarryFailsType DEF IInv, CarryFails
<1>2. CASE part # 0
    <2>1. UNCHANGED <<disk, part, shared>>
        BY <1>2 DEF CarryFails
    <2> QED BY <1>1, <2>1, UploadOver
<1>3. CASE part = 0
    <2>1. /\ part' = Len(disk) + 1 /\ disk'[part'].blocks = <<>>
          /\ \A j \in 1 .. Len(disk) : disk'[j] = disk[j]
        BY <1>1, <1>3, FailedFile
    <2>2. shared \ {part'} \subseteq shared' /\ (OthersUpload(u) => part' \in shared')
        BY <1>3 DEF CarryFails, Opened
    <2>3. part' \notin {0, live, staged} /\ Up /\ live # 0
        BY <1>1, <2>1, Names DEF IInv, Parts, UploadOK, LiveOK, Up
    <2>4. /\ Own(live)' => Own(live) /\ disk'[live] = disk[live]
          /\ Own(staged)' => Own(staged) /\ disk'[staged] = disk[staged]
        <3>1. \A i \in {live, staged} \ {0} : i \in 1 .. Len(disk)
            BY <1>1, NamedFile DEF TypeOK, FilesOK
        <3> QED BY <1>1, <2>1, <2>2, <2>3, <3>1 DEF Own
    <2>5. LiveOK' /\ ApplyOK' /\ ExecutorOK' /\ Up'
        BY <1>1, <2>1, <2>3, <2>4, UploadFrame
    <2>6. StagedOK' /\ PartOK' /\ Apart'
        <3>1. StagedOK'
            BY <1>1, <2>4 DEF IInv, Parts, StagedOK, Replacement, Whole
        <3>2. PartOK'
            BY <2>1, WholeNotEmpty DEF PartOK, Whole
        <3>3. Apart'
            BY <1>1, <2>3 DEF IInv, Parts, Apart
        <3> QED BY <3>1, <3>2, <3>3
    <2>7. UploadOK'
        <3>1. upload'[u].pc = "idle" /\ \A v \in Uploads \ {u} : upload'[v] = upload[v]
            BY <1>1, UploadSet DEF NoUpload
        <3>2. Own(part)' => \A v \in Uploads : upload'[v].pc = "idle"
            BY <2>2, <3>1 DEF Own, OthersUpload
        <3>3. \A v \in Uploads : upload'[v].pc = "write" => upload'[v] = upload[v]
            BY <3>1
        <3> QED BY <1>1, <2>4, <2>5, <3>2, <3>3 DEF IInv, Parts, UploadOK
    <2> QED BY <1>1, <2>5, <2>6, <2>7 DEF IInv, Parts
<1> QED BY <1>2, <1>3

(* What is promoted is whole, with operators, and no upload writes it any more. *)
LEMMA PromoteStep == ASSUME IInv, NEW u \in Uploads, Promote(u) PROVE IInv'
<1>1. TypeOK' /\ upload[u].pc = "promote" /\ ToUpload(u, NoUpload) /\ UNCHANGED <<disk, live, shared, Server>>
    BY UploadStepType DEF IInv, Promote
<1>2. CASE part = 0
    <2>1. UNCHANGED <<staged, part>>
        BY <1>2 DEF Promote
    <2> QED BY <1>1, <2>1, UploadOver
<1>3. CASE part # 0
    <2>1. staged' = part /\ part' = 0
        BY <1>3 DEF Promote
    <2>2. LiveOK' /\ ApplyOK' /\ ExecutorOK' /\ Up' /\ PartOK'
        BY <1>1, <2>1, UploadQuiet
    <2>3. Apart'
        BY <1>1, <2>1 DEF IInv, Parts, Apart
    <2>4. Own(part) => Replacement(part) /\ disk[part].ops /\ \A v \in Uploads : upload[v].pc # "idle" => v = u
        BY <1>1 DEF IInv, Parts, UploadOK
    <2>5. Own(staged)' => Own(part)
        BY <1>1, <2>1 DEF Own
    <2>6. StagedOK'
        BY <1>1, <2>1, <2>4, <2>5 DEF StagedOK, Replacement, Whole
    <2>7. UploadOK'
        <3>1. upload'[u].pc = "idle" /\ \A v \in Uploads \ {u} : upload'[v] = upload[v]
            BY <1>1, UploadSet DEF IInv, NoUpload
        <3>2. Own(staged)' => \A v \in Uploads : upload'[v].pc = "idle"
            BY <2>4, <2>5, <3>1
        <3>3. ~ Own(part)' /\ (Own(live)' => Own(live))
            BY <1>1, <2>1 DEF Own
        <3>4. \A v \in Uploads : upload'[v].pc = "write" => upload'[v] = upload[v]
            BY <3>1
        <3> QED BY <1>1, <2>2, <3>2, <3>3, <3>4 DEF IInv, Parts, UploadOK
    <2> QED BY <1>1, <2>2, <2>3, <2>6, <2>7 DEF IInv, Parts
<1> QED BY <1>2, <1>3

(* A client that goes away takes the partial name with it.                    *)
LEMMA AbortStep == ASSUME IInv, NEW u \in Uploads, AbortUpload(u) PROVE IInv'
<1>1. TypeOK' /\ upload[u].pc # "idle"
    BY UploadStepType DEF IInv, AbortUpload
<1> QED BY <1>1, UploadOver DEF AbortUpload

-------------------------------------------------------------------------------

(* A step of the server that touches no file and no upload.                   *)
LEMMA QuietStep ==
    ASSUME IInv, UNCHANGED <<files, upload, shared>>, app' = app \/ (Up /\ Up')
    PROVE  Apart' /\ StagedOK' /\ LiveOK' /\ PartOK' /\ UploadOK'
<1>1. UNCHANGED <<disk, live, staged, part, upload, shared>>
    BY DEF files
<1>2. Apart' /\ StagedOK' /\ PartOK'
    BY <1>1 DEF IInv, Parts, Apart, StagedOK, PartOK, Replacement, Own, Whole
<1>3. LiveOK'
    BY <1>1 DEF IInv, Parts, LiveOK, Own, Up
<1>4. UploadOK'
    BY <1>1 DEF IInv, Parts, UploadOK, Replacement, Own, Whole, Up
<1> QED BY <1>2, <1>3, <1>4

(* A step of an apply that neither begins nor ends its work on the file.      *)
LEMMA ApplyKeeps ==
    ASSUME IInv, NEW a \in Applies, NEW record, ToApply(a, record), UNCHANGED <<files, shared, raised>>, Up, Up',
           apply[a].pc \notin {"reopen", "migrate"}, record.pc # "migrate"
    PROVE  ApplyOK'
<1>1. UNCHANGED <<disk, live, staged, part, shared, raised>>
    BY DEF files
<1>2. apply'[a] = record /\ \A b \in Applies \ {a} : apply'[b] = apply[b]
    BY ApplySet DEF IInv
<1>3. \A b \in Applies : apply'[b].pc = "migrate" => apply'[b] = apply[b]
    BY <1>2
<1>4. MayLackMigrations => MayLackMigrations'
    <2>1. \A b \in Applies : apply[b].pc \in {"reopen", "migrate"} => apply'[b] = apply[b]
        BY <1>2
    <2> QED BY <1>1, <2>1 DEF MayLackMigrations
<1> QED BY <1>1, <1>3, <1>4 DEF IInv, Parts, ApplyOK, Own

(* A step of an apply under way, as far as the executor is concerned.         *)
LEMMA ExecutorKeeps ==
    ASSUME IInv, NEW a \in Applies, NEW record, ToApply(a, record), apply[a].pc # "idle", overlapped' = overlapped,
           executor'.stop => \E b \in Applies : apply'[b].pc = "join",
           ~ overlapped => /\ record.pc = "join" => record.thread = executor'.thread
                           /\ record.pc \in {"close", "swap", "reopen", "migrate", "start"} => executor'.thread = 0
                           /\ record.pc = "migrate" => record.inode = live',
           record.pc = "idle" => ExecutorOnLive'
    PROVE  ExecutorOK'
<1>1. apply'[a] = record /\ \A b \in Applies \ {a} : apply'[b] = apply[b]
    BY ApplySet DEF IInv
<1>2. ~ overlapped => \A b \in Applies : apply'[b].pc # "idle" => b = a
    BY <1>1 DEF IInv, Parts, ExecutorOK
<1>3. ExecutorOnLive'
    BY <1>1 DEF ExecutorOnLive, NoApplies
<1>4. ~ overlapped' => \A c \in Applies :
        /\ \A b \in Applies : apply'[c].pc # "idle" /\ apply'[b].pc # "idle" => c = b
        /\ apply'[c].pc = "join" => apply'[c].thread = executor'.thread
        /\ apply'[c].pc \in {"close", "swap", "reopen", "migrate", "start"} => executor'.thread = 0
        /\ apply'[c].pc = "migrate" => apply'[c].inode = live'
    BY <1>1, <1>2
<1> QED BY <1>3, <1>4 DEF ExecutorOK

(* The flag that is up is that of another apply, which goes on waiting.       *)
LEMMA StopKept ==
    ASSUME IInv, NEW a \in Applies, NEW record, ToApply(a, record), apply[a].pc # "join", executor'.stop => executor.stop
    PROVE  executor'.stop => \E b \in Applies : apply'[b].pc = "join"
<1>1. \A b \in Applies \ {a} : apply'[b] = apply[b]
    BY ApplySet DEF IInv
<1> QED BY <1>1 DEF IInv, Parts, ExecutorOK

(* An apply begins, alone or beside another one.                              *)
LEMMA StartApplyStep == ASSUME IInv, NEW a \in Applies, StartApply(a) PROVE IInv'
<1>1. TypeOK' /\ Up /\ Up' /\ apply[a].pc = "idle" /\ UNCHANGED <<files, conn, executor, raises, raised, Rest>>
    BY StopType DEF IInv, StartApply, Up
<1>2. UNCHANGED <<disk, live, staged, part, upload, shared>>
    BY <1>1 DEF files, Rest
<1>3. Apart' /\ StagedOK' /\ LiveOK' /\ PartOK' /\ UploadOK'
    BY <1>1, <1>2, QuietStep DEF files
<1>4. CASE restart
    <2>1. UNCHANGED <<apply, overlapped>>
        BY <1>4 DEF StartApply
    <2>2. ApplyOK'
        BY <1>1, <1>2, <2>1 DEF IInv, Parts, ApplyOK, MayLackMigrations, Own
    <2>3. ExecutorOK'
        BY <1>1, <1>2, <2>1 DEF IInv, Parts, ExecutorOK, ExecutorOnLive, NoApplies, AtWork
    <2> QED BY <1>1, <1>3, <2>2, <2>3 DEF IInv, Parts
<1>5. CASE ~ restart
    <2> DEFINE record == [apply[a] EXCEPT !.pc = "stop"]
    <2>1. ToApply(a, record) /\ overlapped' = \E b \in Applies : apply[b].pc # "idle"
        BY <1>5 DEF StartApply, Goes
    <2>2. record.pc = "stop"
        BY ApplyTypes DEF IInv, ApplyRecord
    <2> HIDE DEF record
    <2>3. apply'[a] = record /\ \A b \in Applies \ {a} : apply'[b] = apply[b]
        BY <2>1, ApplySet DEF IInv
    <2>4. ApplyOK'
        BY <1>1, <2>1, <2>2, ApplyKeeps DEF Rest
    <2>5. ExecutorOK'
        <3>1. executor'.stop => \E b \in Applies : apply'[b].pc = "join"
            BY <1>1, <2>1, StopKept
        <3>2. ~ overlapped' => \A b \in Applies \ {a} : apply'[b].pc = "idle"
            BY <2>1, <2>3
        <3>3. ExecutorOnLive'
            BY <2>2, <2>3 DEF ExecutorOnLive, NoApplies
        <3> QED BY <2>2, <2>3, <3>1, <3>2, <3>3 DEF ExecutorOK
    <2> QED BY <1>1, <1>3, <2>4, <2>5 DEF IInv, Parts
<1> QED BY <1>4, <1>5

(* The flag is raised for the thread the apply then waits for.                *)
LEMMA StopExecutorStep == ASSUME IInv, NEW a \in Applies, StopExecutor(a) PROVE IInv'
<1> DEFINE record == [apply[a] EXCEPT !.pc = "join", !.thread = executor.thread]
<1>1. /\ TypeOK' /\ apply[a].pc = "stop" /\ ToApply(a, record)
      /\ UNCHANGED <<files, app, conn, raises, raised, overlapped, Rest>>
    BY StopType DEF IInv, StopExecutor
<1>2. record.pc = "join" /\ record.thread = executor.thread
    BY ApplyTypes DEF IInv, ApplyRecord
<1>3. Up /\ Up'
    BY <1>1 DEF IInv, Parts, ApplyOK, Up
<1>4. executor'.thread = executor.thread
    BY DEF StopExecutor, IInv, TypeOK, ThreadsOK
<1> HIDE DEF record
<1>5. Apart' /\ StagedOK' /\ LiveOK' /\ PartOK' /\ UploadOK'
    BY <1>1, QuietStep DEF Rest
<1>6. ApplyOK'
    BY <1>1, <1>2, <1>3, ApplyKeeps DEF Rest
<1>7. ExecutorOK'
    <2>1. \E b \in Applies : apply'[b].pc = "join"
        BY <1>1, <1>2, ApplySet DEF IInv
    <2> QED BY <1>1, <1>2, <1>4, <2>1, ExecutorKeeps
<1> QED BY <1>1, <1>5, <1>6, <1>7 DEF IInv, Parts

(* An apply that is alone leaves no thread to be the executor's.              *)
LEMMA JoinThreadStep == ASSUME IInv, NEW a \in Applies, JoinThread(a) PROVE IInv'
<1> DEFINE record == [NoApply EXCEPT !.pc = "close"]
<1>1. /\ TypeOK' /\ apply[a].pc = "join" /\ ToApply(a, record)
      /\ UNCHANGED <<files, app, conn, raises, raised, overlapped, Rest>>
    BY StopType DEF IInv, JoinThread
<1>2. record.pc = "close"
    BY DEF NoApply
<1>3. Up /\ Up'
    BY <1>1 DEF IInv, Parts, ApplyOK, Up
<1>4. executor'.stop = FALSE /\ executor'.thread = IF apply[a].thread = 0 THEN executor.thread ELSE 0
    BY DEF JoinThread, IInv, TypeOK, ThreadsOK
<1> HIDE DEF record
<1>5. Apart' /\ StagedOK' /\ LiveOK' /\ PartOK' /\ UploadOK'
    BY <1>1, QuietStep DEF Rest
<1>6. ApplyOK'
    BY <1>1, <1>2, <1>3, ApplyKeeps DEF Rest
<1>7. ExecutorOK'
    <2>1. ~ overlapped => executor'.thread = 0
        BY <1>1, <1>4 DEF IInv, Parts, ExecutorOK
    <2> QED BY <1>1, <1>2, <1>4, <2>1, ExecutorKeeps
<1> QED BY <1>1, <1>5, <1>6, <1>7 DEF IInv, Parts

(* Closing the connections touches no file.                                   *)
LEMMA CloseAllStep == ASSUME IInv, NEW a \in Applies, CloseAll(a) PROVE IInv'
<1> DEFINE record == [apply[a] EXCEPT !.pc = "swap"]
<1>1. /\ apply[a].pc = "close" /\ ToApply(a, record)
      /\ UNCHANGED <<files, app, executor, raises, raised, overlapped, Rest>>
    BY DEF CloseAll, Goes
<1>2. record.pc = "swap"
    BY ApplyTypes DEF IInv, ApplyRecord
<1>3. Up /\ Up'
    BY <1>1 DEF IInv, Parts, ApplyOK, Up
<1>4. TypeOK'
    BY <1>3, SwapType DEF IInv, Parts, LiveOK, Up
<1> HIDE DEF record
<1>5. Apart' /\ StagedOK' /\ LiveOK' /\ PartOK' /\ UploadOK'
    BY <1>1, QuietStep DEF Rest
<1>6. ApplyOK'
    BY <1>1, <1>2, <1>3, ApplyKeeps DEF Rest
<1>7. ExecutorOK'
    <2>1. executor'.stop => \E b \in Applies : apply'[b].pc = "join"
        BY <1>1, StopKept
    <2>2. ~ overlapped => executor'.thread = 0
        BY <1>1 DEF IInv, Parts, ExecutorOK
    <2> QED BY <1>1, <1>2, <2>1, <2>2, ExecutorKeeps
<1> QED BY <1>4, <1>5, <1>6, <1>7 DEF IInv, Parts

(* The live file is the staged one from then on, or there was none.           *)
LEMMA SwapFilesStep == ASSUME IInv, NEW a \in Applies, SwapFiles(a) PROVE IInv'
<1> DEFINE record == [apply[a] EXCEPT !.pc = "reopen"]
<1>1. /\ apply[a].pc = "swap" /\ ToApply(a, record)
      /\ UNCHANGED <<disk, part, app, conn, executor, raises, overlapped, Rest>>
    BY DEF SwapFiles, Goes
<1>2. record.pc = "reopen"
    BY ApplyTypes DEF IInv, ApplyRecord
<1>3. Up /\ Up' /\ live # 0
    BY <1>1 DEF IInv, Parts, ApplyOK, LiveOK, Up
<1>4. TypeOK'
    BY <1>3, SwapType DEF IInv
<1> HIDE DEF record
<1>5. apply'[a] = record /\ \A b \in Applies \ {a} : apply'[b] = apply[b]
    BY <1>1, ApplySet DEF IInv
<1>6. ExecutorOK'
    <2>1. executor'.stop => \E b \in Applies : apply'[b].pc = "join"
        BY <1>1, StopKept
    <2>2. ~ overlapped => executor'.thread = 0
        BY <1>1 DEF IInv, Parts, ExecutorOK
    <2> QED BY <1>1, <1>2, <2>1, <2>2, ExecutorKeeps
<1>7. MayLackMigrations'
    BY <1>2, <1>5 DEF MayLackMigrations
<1>8. CASE staged # 0
    <2>1. live' = staged /\ staged' = 0
        BY <1>8 DEF SwapFiles
    <2>2. UNCHANGED <<disk, part, app, upload, shared>>
        BY <1>1 DEF Rest
    <2>3. Apart' /\ StagedOK' /\ PartOK'
        BY <2>1, <2>2 DEF IInv, Parts, Apart, StagedOK, PartOK, Own, Whole
    <2>4. LiveOK'
        BY <1>3, <1>8, <2>1, <2>2 DEF IInv, Parts, StagedOK, LiveOK, Replacement, Own, Up
    <2>5. UploadOK'
        BY <1>3, <2>1, <2>2 DEF IInv, Parts, UploadOK, Replacement, Own, Whole
    <2>6. ApplyOK'
        <3>1. \A b \in Applies : apply'[b].pc = "migrate" => apply[b] = apply'[b]
            BY <1>2, <1>5
        <3> QED BY <1>3, <1>7, <2>1, <2>2, <3>1 DEF IInv, Parts, ApplyOK
    <2> QED BY <1>4, <1>6, <2>3, <2>4, <2>5, <2>6 DEF IInv, Parts
<1>9. CASE staged = 0
    <2>1. UNCHANGED <<files, upload, shared, raised>>
        BY <1>1, <1>9 DEF SwapFiles, files, Rest
    <2>2. Apart' /\ StagedOK' /\ LiveOK' /\ PartOK' /\ UploadOK'
        BY <1>1, <2>1, QuietStep
    <2>3. ApplyOK'
        BY <1>1, <1>2, <1>3, <2>1, ApplyKeeps
    <2> QED BY <1>4, <1>6, <2>2, <2>3 DEF IInv, Parts
<1> QED BY <1>8, <1>9

(* The live file is opened, with the migrations it has.                       *)
LEMMA ReopenStep == ASSUME IInv, NEW a \in Applies, Reopen(a) PROVE IInv'
<1> DEFINE record == [apply[a] EXCEPT !.pc = "migrate", !.inode = live, !.done = disk[live].schema]
<1>1. /\ apply[a].pc = "reopen" /\ ToApply(a, record)
      /\ UNCHANGED <<files, app, executor, raises, raised, overlapped, Rest>>
    BY DEF Reopen
<1>2. record.pc = "migrate" /\ record.inode = live /\ record.done = disk[live].schema
    BY ApplyTypes DEF IInv, ApplyRecord
<1>3. Up /\ Up' /\ live # 0
    BY <1>1 DEF IInv, Parts, ApplyOK, LiveOK, Up
<1>4. TypeOK'
    BY <1>3, SwapType DEF IInv
<1> HIDE DEF record
<1>5. apply'[a] = record /\ \A b \in Applies \ {a} : apply'[b] = apply[b]
    BY <1>1, ApplySet DEF IInv
<1>6. ExecutorOK'
    <2>1. executor'.stop => \E b \in Applies : apply'[b].pc = "join"
        BY <1>1, StopKept
    <2>2. ~ overlapped => executor'.thread = 0
        BY <1>1 DEF IInv, Parts, ExecutorOK
    <2> QED BY <1>1, <1>2, <2>1, <2>2, ExecutorKeeps DEF files
<1>7. Apart' /\ StagedOK' /\ LiveOK' /\ PartOK' /\ UploadOK'
    BY <1>1, QuietStep DEF Rest
<1>8. ApplyOK'
    <2>1. UNCHANGED <<disk, live, staged, part, shared, raised>>
        BY <1>1 DEF files, Rest
    <2>2. MayLackMigrations'
        BY <1>2, <1>5, <2>1 DEF MayLackMigrations
    <2>3. live \notin {0, staged, part}
        BY <1>3 DEF IInv, Parts, Apart
    <2>4. Own(live) => disk[live].schema <= disk[live].schema
        BY DEF IInv, Parts, LiveOK
    <2>5. ASSUME NEW b \in Applies, apply'[b].pc = "migrate"
          PROVE  /\ apply'[b].inode \notin {0, staged', part'}
                 /\ apply'[b].inode = live' /\ Own(live)' => apply'[b].done <= disk'[live'].schema
        <3>1. CASE b = a
            BY <1>2, <1>5, <2>1, <2>3, <2>4, <3>1 DEF Own
        <3>2. CASE b # a
            BY <1>5, <2>1, <2>5, <3>2 DEF IInv, Parts, ApplyOK, Own
        <3> QED BY <3>1, <3>2
    <2> QED BY <1>3, <2>2, <2>5 DEF ApplyOK
<1> QED BY <1>4, <1>6, <1>7, <1>8 DEF IInv, Parts

(* A migration of the live file adds one that it lacks; an apply that counted *)
(* them all leaves a live file that lacks none.                               *)
LEMMA MigrateApplyStep == ASSUME IInv, NEW a \in Applies, MigrateApply(a) PROVE IInv'
<1> DEFINE i == apply[a].inode
<1>1. /\ apply[a].pc = "migrate"
      /\ UNCHANGED <<live, staged, part, app, conn, executor, raises, overlapped, Rest>>
    BY DEF MigrateApply
<1>2. Up /\ Up' /\ live # 0 /\ i \notin {0, staged, part}
    BY <1>1 DEF IInv, Parts, ApplyOK, LiveOK, Up
<1>3. TypeOK /\ TypeOK' /\ i \in Inode \ {0} /\ apply[a] \in ApplyRecord
    BY <1>2, MigrateType, ApplyTypes DEF IInv, ApplyRecord
<1>4. ~ overlapped => executor.thread = 0 /\ i = live
    BY <1>1 DEF IInv, Parts, ExecutorOK
<1>5. i = live /\ Own(live) => apply[a].done <= disk[live].schema
    BY <1>1 DEF IInv, Parts, ApplyOK
<1>6. {live, staged, part} \subseteq Inode
    BY <1>3 DEF TypeOK, FilesOK
<1>7. UNCHANGED <<upload, shared>>
    BY <1>1 DEF Rest
<1>8. CASE apply[a].done < Build
    <2> DEFINE record == [apply[a] EXCEPT !.done = @ + 1]
    <2>1. disk[i].schema = apply[a].done /\ MigrateOne(i) /\ ToApply(a, record) /\ UNCHANGED raised
        BY <1>8 DEF MigrateApply
    <2>2. record.pc = "migrate" /\ record.inode = i /\ record.done = apply[a].done + 1
        BY <1>1, <1>3 DEF ApplyRecord
    <2> HIDE DEF record
    <2>3. apply'[a] = record /\ \A b \in Applies \ {a} : apply'[b] = apply[b]
        BY <1>3, <2>1, ApplySet
    <2> HIDE DEF i
    <2>4. /\ \A j \in (1 .. Len(disk)) \ {i} : disk'[j] = disk[j]
          /\ disk'[i].ops = disk[i].ops /\ disk'[i].schema = disk[i].schema + 1
        BY <1>3, <2>1, MigratedFile
    <2>5. \A j \in Inode \ {0, i} : disk'[j] = disk[j]
        BY <1>3, <2>4, NamedFile
    <2>6. Apart' /\ StagedOK' /\ PartOK' /\ UploadOK'
        <3>1. staged # 0 => disk'[staged] = disk[staged]
            BY <1>2, <1>6, <2>5
        <3>2. part # 0 => disk'[part] = disk[part]
            BY <1>2, <1>6, <2>5
        <3> QED BY <1>1, <1>2, <1>7, <3>1, <3>2
                DEF IInv, Parts, Apart, StagedOK, PartOK, UploadOK, Replacement, Own, Whole
    <2>7. live # i => disk'[live] = disk[live]
        BY <1>2, <1>6, <2>5
    <2>8. LiveOK'
        <3>1. Own(live) => disk'[live].ops /\ disk'[live].schema \in 1 .. Build
            <4>1. CASE live # i
                BY <2>7, <4>1 DEF IInv, Parts, LiveOK
            <4>2. CASE live = i
                <5>1. Own(live) => disk[live].ops /\ disk[live].schema \in 1 .. Build
                    BY DEF IInv, Parts, LiveOK
                <5>2. disk'[live].ops = disk[live].ops /\ disk'[live].schema = disk[live].schema + 1 /\ disk[live].schema < Build
                    BY <1>8, <2>1, <2>4, <4>2
                <5>3. Own(live) => disk'[live].ops
                    BY <5>1, <5>2
                <5>4. Own(live) => disk'[live].schema \in 1 .. Build
                    BY <5>1, <5>2, SwapConstants
                <5> QED BY <5>3, <5>4
            <4> QED BY <4>1, <4>2
        <3> QED BY <1>1, <1>2, <1>7, <3>1 DEF LiveOK, Own, Up
    <2>9. ApplyOK'
        <3>1. ASSUME NEW b \in Applies, apply'[b].pc = "migrate"
              PROVE  /\ apply'[b].inode \notin {0, staged', part'}
                     /\ apply'[b].inode = live' /\ Own(live)' => apply'[b].done <= disk'[live'].schema
            <4>1. CASE b = a
                BY <1>1, <1>2, <1>3, <2>1, <2>2, <2>3, <2>4, <4>1 DEF ApplyRecord
            <4>2. CASE b # a
                <5>1. apply'[b] = apply[b] /\ apply[b] \in ApplyRecord
                    BY <1>3, <2>3, <4>2, ApplyTypes
                <5>2. apply[b].inode \notin {0, staged, part}
                    BY <3>1, <5>1 DEF IInv, Parts, ApplyOK
                <5>3. apply[b].inode = live /\ Own(live) => apply[b].done <= disk[live].schema
                    BY <3>1, <5>1 DEF IInv, Parts, ApplyOK
                <5>4. Own(live) => disk[live].schema \in Nat /\ disk[live].schema <= disk'[live].schema
                    <6>1. Own(live) => disk[live].schema \in Nat
                        BY SwapConstants DEF IInv, Parts, LiveOK
                    <6> QED BY <2>4, <2>7, <6>1
                <5>5. apply[b].inode = live /\ Own(live) => apply[b].done <= disk'[live].schema
                    <6>1. Own(live) => disk'[live].schema \in Nat
                        BY <1>1, <1>7, <2>8, SwapConstants DEF LiveOK, Own
                    <6> QED BY <5>1, <5>3, <5>4, <6>1 DEF ApplyRecord
                <5> QED BY <1>1, <1>7, <5>1, <5>2, <5>5 DEF Own
            <4> QED BY <4>1, <4>2
        <3>2. MayLackMigrations => MayLackMigrations'
            <4>1. \A b \in Applies : apply'[b].pc = apply[b].pc /\ apply'[b].inode = apply[b].inode
                BY <1>1, <2>2, <2>3 DEF i
            <4> QED BY <1>1, <2>1, <4>1 DEF MayLackMigrations
        <3>3. live = i => MayLackMigrations'
            BY <1>1, <2>2, <2>3 DEF MayLackMigrations
        <3>4. Own(live)' => disk'[live'].schema = Build \/ MayLackMigrations'
            BY <1>1, <1>2, <1>7, <2>7, <3>2, <3>3 DEF IInv, Parts, ApplyOK, Own
        <3> QED BY <1>2, <3>1, <3>4 DEF ApplyOK
    <2>10. ExecutorOK'
        <3>1. executor'.stop => \E b \in Applies : apply'[b].pc = "join"
            BY <1>1, <1>3, <2>1, StopKept DEF IInv
        <3> QED BY <1>1, <1>4, <2>1, <2>2, <3>1, ExecutorKeeps DEF IInv
    <2> QED BY <1>3, <2>6, <2>8, <2>9, <2>10 DEF IInv, Parts
<1>9. CASE ~ (apply[a].done < Build)
    <2> DEFINE record == [NoApply EXCEPT !.pc = "start"]
    <2>1. ToApply(a, record) /\ raised' = (raised /\ i # live) /\ UNCHANGED disk
        BY <1>9 DEF MigrateApply
    <2>2. record.pc = "start"
        BY DEF NoApply
    <2> HIDE DEF record, i
    <2>3. apply'[a] = record /\ \A b \in Applies \ {a} : apply'[b] = apply[b]
        BY <1>3, <2>1, ApplySet
    <2>4. Apart' /\ StagedOK' /\ LiveOK' /\ PartOK' /\ UploadOK'
        BY <1>1, <1>7, <2>1, QuietStep DEF files
    <2>5. i = live /\ Own(live) => disk[live].schema = Build
        <3>1. Own(live) => disk[live].schema \in 1 .. Build
            BY DEF IInv, Parts, LiveOK
        <3>2. apply[a].done \in Nat /\ apply[a].done >= Build
            BY <1>3, <1>9, SwapConstants DEF ApplyRecord
        <3> QED BY <1>5, <3>1, <3>2, SwapConstants
    <2>6. ApplyOK'
        <3>1. \A b \in Applies : apply'[b].pc = "migrate" => apply'[b] = apply[b]
            BY <2>2, <2>3
        <3>2. i # live /\ MayLackMigrations => MayLackMigrations'
            <4>1. \A b \in Applies \ {a} : apply'[b] = apply[b]
                BY <2>3
            <4> QED BY <1>1, <2>1, <4>1 DEF MayLackMigrations, i
        <3> QED BY <1>1, <1>2, <1>7, <2>1, <2>5, <3>1, <3>2 DEF IInv, Parts, ApplyOK, Own
    <2>7. ExecutorOK'
        <3>1. executor'.stop => \E b \in Applies : apply'[b].pc = "join"
            BY <1>1, <1>3, <2>1, StopKept DEF IInv
        <3> QED BY <1>1, <1>4, <2>1, <2>2, <3>1, ExecutorKeeps DEF IInv
    <2> QED BY <1>3, <2>4, <2>6, <2>7 DEF IInv, Parts
<1> QED BY <1>8, <1>9

(* A reopen that raises leaves the apply over and the executor as it was; when *)
(* the file it opened is still the live one, that is on record.               *)
LEMMA MigrateRaisesStep == ASSUME IInv, NEW a \in Applies, MigrateRaises(a) PROVE IInv'
<1>1. /\ apply[a].pc = "migrate" /\ ToApply(a, NoApply) /\ raised' = (raised \/ apply[a].inode = live)
      /\ UNCHANGED <<files, app, conn, executor, overlapped, Rest>>
    BY DEF MigrateRaises
<1>2. Up /\ Up' /\ live # 0
    BY <1>1 DEF IInv, Parts, ApplyOK, LiveOK, Up
<1>3. TypeOK'
    BY <1>2, SwapType DEF IInv
<1>4. apply'[a] = NoApply /\ \A b \in Applies \ {a} : apply'[b] = apply[b]
    BY <1>1, ApplySet DEF IInv
<1>5. NoApply.pc = "idle"
    BY DEF NoApply
<1>6. Apart' /\ StagedOK' /\ LiveOK' /\ PartOK' /\ UploadOK'
    BY <1>1, QuietStep DEF Rest
<1>7. ApplyOK'
    <2>1. UNCHANGED <<disk, live, staged, part, shared>>
        BY <1>1 DEF files, Rest
    <2>2. \A b \in Applies : apply'[b].pc = "migrate" => apply'[b] = apply[b]
        BY <1>4, <1>5
    <2>3. MayLackMigrations => MayLackMigrations'
        BY <1>1, <1>4, <2>1 DEF MayLackMigrations
    <2> QED BY <1>2, <2>1, <2>2, <2>3 DEF IInv, Parts, ApplyOK, Own
<1>8. ExecutorOK'
    <2>1. executor'.stop => \E b \in Applies : apply'[b].pc = "join"
        BY <1>1, StopKept
    <2>2. raised' \/ overlapped'
        BY <1>1 DEF IInv, Parts, ExecutorOK
    <2>3. ExecutorOnLive'
        BY <2>2 DEF ExecutorOnLive
    <2> QED BY <1>1, <1>5, <2>1, <2>3, ExecutorKeeps
<1> QED BY <1>3, <1>6, <1>7, <1>8 DEF IInv, Parts

(* An apply that was alone starts a thread on the live file.                  *)
LEMMA StartExecutorStep == ASSUME IInv, NEW a \in Applies, StartExecutor(a) PROVE IInv'
<1>1. /\ apply[a].pc = "start" /\ ToApply(a, NoApply)
      /\ UNCHANGED <<files, app, conn, raises, raised, overlapped, Rest>>
    BY DEF StartExecutor
<1>2. Up /\ Up' /\ live # 0
    BY <1>1 DEF IInv, Parts, ApplyOK, LiveOK, Up
<1>3. TypeOK'
    BY <1>1, <1>2, MigrateType DEF IInv
<1>4. NoApply.pc = "idle"
    BY DEF NoApply
<1>5. Apart' /\ StagedOK' /\ LiveOK' /\ PartOK' /\ UploadOK'
    BY <1>1, QuietStep DEF Rest
<1>6. ApplyOK'
    BY <1>1, <1>2, <1>4, ApplyKeeps DEF Rest
<1>7. ExecutorOK'
    <2> DEFINE id == executor.started + 1
    <2>1. executor \in [thread : Nat, alive : SUBSET ThreadRecord, stop : BOOLEAN, started : Nat]
        BY DEF IInv, TypeOK, ThreadsOK
    <2>2. executor' = IF executor.thread # 0 THEN executor
                      ELSE [executor EXCEPT !.thread = id, !.started = id, !.alive = @ \cup {Thread(id, live)}]
        BY DEF StartExecutor
    <2>3. executor'.stop = executor.stop
        BY <2>1, <2>2
    <2>4. executor'.stop => \E b \in Applies : apply'[b].pc = "join"
        BY <1>1, <2>3, StopKept
    <2>5. ~ overlapped => AtWork(live)'
        <3>1. ~ overlapped => executor.thread = 0
            BY <1>1 DEF IInv, Parts, ExecutorOK
        <3>2. ~ overlapped => executor'.thread = id /\ Thread(id, live) \in executor'.alive
            <4> HIDE DEF id
            <4> QED BY <2>1, <2>2, <3>1
        <3> QED BY <1>1, <3>2 DEF AtWork, Thread, files
    <2>6. ExecutorOnLive'
        BY <1>1, <2>5 DEF ExecutorOnLive
    <2> QED BY <1>1, <1>4, <2>4, <2>6, ExecutorKeeps
<1> QED BY <1>3, <1>5, <1>6, <1>7 DEF IInv, Parts

-------------------------------------------------------------------------------

(* A discard takes the names away, and of the live file nothing.              *)
LEMMA DiscardStep == ASSUME IInv, Discard PROVE IInv'
<1>1. Up /\ staged' = 0 /\ part' = 0 /\ UNCHANGED <<disk, live, upload, shared, Server>>
    BY DEF Discard
<1>2. live # 0
    BY <1>1 DEF IInv, Parts, LiveOK, Up
<1>3. TypeOK'
    <2>1. {live', staged', part'} \subseteq Inode /\ Grows
        BY <1>1, EmptyRecords, DiskGrows DEF IInv, TypeOK, FilesOK
    <2>2. UploadsOK' /\ ThreadsOK' /\ ServerOK' /\ HistoryOK'
        BY <1>1, <2>1, SameUploads, SameThreads, SameServer DEF IInv, Server, TypeOK, HistoryOK
    <2> QED BY <1>1, <2>1, <2>2, QuietType DEF IInv
<1>4. LiveOK' /\ ApplyOK' /\ ExecutorOK' /\ Up'
    <2>1. Own(live)' => Own(live) /\ disk'[live] = disk[live]
        BY <1>1 DEF Own
    <2> QED BY <1>1, <2>1, UploadFrame
<1>5. Apart' /\ StagedOK' /\ PartOK'
    BY <1>1, <1>2 DEF Apart, StagedOK, PartOK, Own
<1>6. UploadOK'
    BY <1>1, <1>4 DEF IInv, Parts, UploadOK, Own
<1> QED BY <1>3, <1>4, <1>5, <1>6 DEF IInv, Parts

(* Requests open and close connections only, and a thread ends only where an  *)
(* apply waits for it.                                                        *)
LEMMA RequestStep ==
    ASSUME IInv, ThreadEnds \/ \E t \in Threads : OpenConn(t) \/ CacheConn(t)
    PROVE  IInv'
<1>1. TypeOK' /\ UNCHANGED Handlers
    BY RequestType DEF IInv, ThreadEnds, OpenConn, CacheConn
<1>2. UNCHANGED <<disk, live, staged, part, app, apply, upload, shared, raised, overlapped>>
    BY <1>1 DEF Handlers, files, Rest
<1>3. Apart' /\ StagedOK' /\ LiveOK' /\ PartOK' /\ UploadOK'
    BY <1>1, <1>2, QuietStep DEF Handlers, Rest
<1>4. ApplyOK'
    BY <1>2 DEF IInv, Parts, ApplyOK, MayLackMigrations, Own, Up
<1>5. ExecutorOK'
    <2>1. CASE ThreadEnds
        <3>1. \E a \in Applies : apply[a].pc = "join"
            BY <2>1 DEF ThreadEnds, IInv, Parts, ExecutorOK
        <3>2. executor'.thread = executor.thread /\ executor'.stop = executor.stop
            BY <2>1 DEF ThreadEnds, IInv, TypeOK, ThreadsOK
        <3>3. ExecutorOnLive'
            BY <1>2, <3>1 DEF ExecutorOnLive, NoApplies
        <3> QED BY <1>2, <3>2, <3>3 DEF IInv, Parts, ExecutorOK
    <2>2. CASE executor' = executor
        BY <1>2, <2>2 DEF IInv, Parts, ExecutorOK, ExecutorOnLive, NoApplies, AtWork, Up
    <2> QED BY <2>1, <2>2 DEF OpenConn, CacheConn
<1> QED BY <1>1, <1>3, <1>4, <1>5 DEF IInv, Parts

(* A process that goes down takes its requests and its executor with it.      *)
LEMMA DownStep == ASSUME IInv, Exit \/ Kill \/ BootRaises PROVE IInv'
<1>1. TypeOK' /\ Down("down")
    BY DownType DEF IInv, Exit, Kill, BootRaises
<1>2. UNCHANGED <<disk, live, staged, part, shared, raised>> /\ app' = "down" /\ executor' = NoExecutor
    BY <1>1 DEF Down, files
<1>3. (\A u \in Uploads : upload'[u].pc = "idle") /\ \A a \in Applies : apply'[a].pc = "idle"
    BY <1>1 DEF Down, NoUpload, NoApply
<1>4. Apart' /\ StagedOK' /\ PartOK'
    BY <1>2 DEF IInv, Parts, Apart, StagedOK, PartOK, Replacement, Own, Whole
<1>5. LiveOK'
    BY <1>2 DEF IInv, Parts, LiveOK, Own
<1>6. UploadOK' /\ ApplyOK'
    BY <1>2, <1>3 DEF UploadOK, ApplyOK, Up
<1>7. ExecutorOK'
    BY <1>2, <1>3 DEF ExecutorOK, ExecutorOnLive, Up, NoExecutor
<1> QED BY <1>1, <1>4, <1>5, <1>6, <1>7 DEF IInv, Parts

(* A boot removes the live file only when a staged one is to take its place,  *)
(* and serves it with every migration.                                        *)
LEMMA BootStep == ASSUME IInv, BootRemove \/ BootMove \/ BootMigrate PROVE IInv'
<1>1. /\ ~ Up /\ (app = "migrate" => live # 0) /\ (live = 0 => staged # 0) /\ (app = "removed" => live = 0)
      /\ UNCHANGED <<upload, apply, conn, restart, kills, raises, shared, overlapped>>
    BY DEF BootRemove, BootMove, BootMigrate, BootTo, IInv, Parts, LiveOK, Up
<1>2. TypeOK /\ TypeOK'
    BY <1>1, BootType DEF IInv
<1>3. (\A u \in Uploads : upload'[u].pc = "idle") /\ \A a \in Applies : apply'[a].pc = "idle"
    BY <1>1 DEF IInv, Parts, UploadOK, ApplyOK
<1>4. UploadOK'
    BY <1>3 DEF UploadOK
<1>5. ~ executor.stop
    BY <1>1, <1>3 DEF IInv, Parts, ExecutorOK
<1>6. CASE BootRemove \/ BootMove
    <2>1. /\ UNCHANGED <<disk, part, executor, raised>> /\ ~ Up'
          /\ \/ app = "down" /\ live' = live /\ staged = 0 /\ staged' = staged /\ app' = "migrate"
             \/ app = "down" /\ live' = 0 /\ staged # 0 /\ staged' = staged /\ app' = "removed"
             \/ app = "removed" /\ live' = staged /\ staged' = 0 /\ app' = "migrate"
        BY <1>6 DEF BootRemove, BootMove, BootTo, Up
    <2>2. Apart' /\ StagedOK' /\ PartOK'
        <3>1. Apart'
            BY <1>1, <2>1 DEF IInv, Parts, Apart
        <3>2. PartOK'
            BY <2>1 DEF IInv, Parts, PartOK, Whole
        <3>3. StagedOK'
            BY <1>1, <2>1 DEF IInv, Parts, StagedOK, Replacement, Own, Whole
        <3> QED BY <3>1, <3>2, <3>3
    <2>3. LiveOK'
        BY <1>1, <2>1 DEF IInv, Parts, LiveOK, StagedOK, Replacement, Own
    <2>4. ApplyOK' /\ ExecutorOK'
        BY <1>3, <1>5, <2>1 DEF ApplyOK, ExecutorOK, ExecutorOnLive
    <2> QED BY <1>2, <1>4, <2>2, <2>3, <2>4 DEF IInv, Parts
<1>7. CASE BootMigrate
    <2>1. app = "migrate" /\ UNCHANGED <<live, staged, part>> /\ live # 0 /\ live \notin {staged, part}
        BY <1>1, <1>7 DEF BootMigrate, IInv, Parts, Apart
    <2>2. Own(live) => disk[live].ops /\ disk[live].schema \in 1 .. Build
        BY DEF IInv, Parts, LiveOK
    <2>3. Apart'
        BY <2>1 DEF IInv, Parts, Apart
    <2>4. CASE disk[live].schema < Build
        <3>1. MigrateOne(live) /\ app' = "migrate" /\ executor' = executor
            BY <1>7, <2>4 DEF BootMigrate, BootTo
        <3>2. /\ \A j \in (1 .. Len(disk)) \ {live} : disk'[j] = disk[j]
              /\ disk'[live].ops = disk[live].ops /\ disk'[live].schema = disk[live].schema + 1
            BY <1>2, <2>1, <3>1, MigratedFile DEF TypeOK, FilesOK
        <3>3. (staged # 0 => disk'[staged] = disk[staged]) /\ (part # 0 => disk'[part] = disk[part])
            BY <1>2, <2>1, <3>2, NamedFile DEF TypeOK, FilesOK
        <3>4. StagedOK' /\ PartOK'
            BY <1>1, <2>1, <3>3 DEF IInv, Parts, StagedOK, PartOK, Replacement, Own, Whole
        <3>5. Own(live) => disk'[live].schema \in 1 .. Build
            BY <2>2, <2>4, <3>2, SwapConstants
        <3>6. LiveOK'
            BY <1>1, <2>1, <2>2, <3>1, <3>2, <3>5 DEF LiveOK, Own
        <3>7. ApplyOK' /\ ExecutorOK'
            BY <1>3, <1>5, <3>1 DEF ApplyOK, ExecutorOK, ExecutorOnLive, Up
        <3> QED BY <1>2, <1>4, <2>3, <3>4, <3>6, <3>7 DEF IInv, Parts
    <2>5. CASE ~ (disk[live].schema < Build)
        <3>1. app' = "up" /\ UNCHANGED disk /\ executor' = NewExecutor(live)
            BY <1>7, <2>5 DEF BootMigrate, BootTo
        <3>2. StagedOK' /\ PartOK'
            BY <1>1, <2>1, <3>1 DEF IInv, Parts, StagedOK, PartOK, Replacement, Own, Whole
        <3>3. LiveOK'
            BY <1>1, <2>1, <2>2, <3>1 DEF LiveOK, Own
        <3>4. Own(live) => disk[live].schema = Build
            BY <2>2, <2>5, SwapConstants
        <3>5. ApplyOK'
            BY <1>1, <1>3, <2>1, <3>1, <3>4 DEF ApplyOK, Own, Up
        <3>6. ExecutorOK'
            <4>1. AtWork(live)' /\ ~ executor'.stop
                BY <2>1, <3>1 DEF AtWork, NewExecutor, Thread
            <4> QED BY <1>3, <4>1 DEF ExecutorOK, ExecutorOnLive
        <3> QED BY <1>2, <1>4, <2>3, <3>2, <3>3, <3>5, <3>6 DEF IInv, Parts
    <2> QED BY <2>4, <2>5
<1> QED BY <1>6, <1>7

(* An installation with its operator, and the executor at work.               *)
LEMMA InitHolds == Init => IInv
<1> SUFFICES ASSUME Init PROVE IInv
    OBVIOUS
<1>1. TypeOK
    BY InitType
<1>2. /\ live = 1 /\ staged = 0 /\ part = 0 /\ app = "up" /\ disk[1].ops /\ disk[1].schema = Build
      /\ \A u \in Uploads : upload[u].pc = "idle"
      /\ \A a \in Applies : apply[a].pc = "idle"
    BY DEF Init, NoUpload, NoApply
<1>3. Apart /\ StagedOK /\ LiveOK /\ PartOK
    BY <1>2, SwapConstants DEF Apart, StagedOK, LiveOK, PartOK, Own
<1>4. UploadOK /\ ApplyOK
    BY <1>2 DEF UploadOK, ApplyOK
<1>5. ExecutorOK
    <2>1. AtWork(live) /\ ~ executor.stop
        BY <1>2 DEF Init, AtWork, NewExecutor, Thread
    <2> QED BY <1>2, <2>1 DEF ExecutorOK, ExecutorOnLive
<1> QED BY <1>1, <1>3, <1>4, <1>5 DEF IInv, Parts

(* Every step keeps the invariant.                                            *)
LEMMA StepHolds == IInv /\ [Next]_vars => IInv'
<1> SUFFICES ASSUME IInv, [Next]_vars PROVE IInv'
    OBVIOUS
<1>1. CASE UNCHANGED vars
    <2>1. UNCHANGED <<disk, live, staged, part, upload, app, apply, conn, executor, restart, kills, raises, shared, raised, overlapped>>
        BY <1>1 DEF vars, files, noted
    <2>2. TypeOK'
        BY <2>1 DEF IInv, TypeOK, FilesOK, UploadsOK, ThreadsOK, ServerOK, HistoryOK, Inode, UploadRecord,
                    ApplyRecord, ConnRecord, ThreadRecord
    <2>3. Apart' /\ StagedOK' /\ LiveOK' /\ PartOK' /\ UploadOK'
        BY <2>1, QuietStep DEF files
    <2>4. ApplyOK'
        BY <2>1 DEF IInv, Parts, ApplyOK, MayLackMigrations, Own, Up
    <2>5. ExecutorOK'
        BY <2>1 DEF IInv, Parts, ExecutorOK, ExecutorOnLive, NoApplies, AtWork, Up
    <2> QED BY <2>2, <2>3, <2>4, <2>5 DEF IInv, Parts
<1>2. ASSUME NEW u \in Uploads, OpenPartial(u) \/ AbortUpload(u) \/ Upload(u) PROVE IInv'
    BY <1>2, OpenPartialStep, AbortStep, WriteBlockStep, VerifyStep, CarryStep, CarryFailsStep, PromoteStep DEF Upload
<1>3. ASSUME NEW a \in Applies, StartApply(a) \/ Apply(a) PROVE IInv'
    BY <1>3, StartApplyStep, StopExecutorStep, JoinThreadStep, CloseAllStep, SwapFilesStep, ReopenStep,
       MigrateApplyStep, MigrateRaisesStep, StartExecutorStep DEF Apply
<1>4. CASE Discard
    BY <1>4, DiscardStep
<1>5. CASE ThreadEnds \/ \E t \in Threads : OpenConn(t) \/ CacheConn(t)
    BY <1>5, RequestStep
<1>6. CASE Exit \/ Kill \/ Boot
    BY <1>6, DownStep, BootStep DEF Boot
<1> QED BY <1>1, <1>2, <1>3, <1>4, <1>5, <1>6 DEF Next

-------------------------------------------------------------------------------

(* The inductive invariant holds, with any number of uploads and applies at   *)
(* once.                                                                      *)
THEOREM Invariant == Spec => []IInv
    BY InitHolds, StepHolds, PTL DEF Spec

(* Names, uploads, applies and connections are of files that exist.           *)
THEOREM TypeCorrect == Spec => []TypeOK
<1>1. IInv => TypeOK
    BY DEF IInv
<1> QED BY <1>1, Invariant, PTL

(* What is staged is a whole file of a known schema with operators, when its  *)
(* upload was alone with it.                                                  *)
THEOREM StagedVerified == Spec => []StagedIsVerified
<1>1. IInv => StagedIsVerified
    BY DEF IInv, Parts, StagedOK, StagedIsVerified, Own, Replacement, Inspected
<1> QED BY <1>1, Invariant, PTL

(* A server that is up has its database, with operators and with every         *)
(* migration outside of an apply and of a reopen that raised.                 *)
THEOREM Serves == Spec => []ServesTheDatabase
<1>1. IInv => ServesTheDatabase
    BY DEF IInv, Parts, LiveOK, ApplyOK, ServesTheDatabase, Own, Up
<1> QED BY <1>1, Invariant, PTL

(* Between applies the executor is at work on the live file, unless a reopen  *)
(* raised or two applies were under way at once.                              *)
THEOREM ExecutorBack == Spec => []ExecutorOnLive
<1>1. IInv => ExecutorOnLive
    BY DEF IInv, Parts, ExecutorOK
<1> QED BY <1>1, Invariant, PTL

-------------------------------------------------------------------------------
(******************************************************************************)
(* OperatorAuth, for any number of browsers, operators, links and credentials.*)
(******************************************************************************)

(* A link that was used has one passkey, any other has none. *)
Links ==
    \A i \in Invites :
        IF invites[i].state = "used" THEN \E c \in Creds : minted[i] = {c} ELSE minted[i] = {}

(* Who signed up without anyone is alone, and has an account. *)
OneSetup == setups = {} \/ \E op \in operators : setups = {op}

AuthIInv == AuthTypeOK /\ Links /\ OneSetup /\ NobodyIsLockedOut

BrowserStep(b) ==
    \/ CookieExpires(b) \/ Logout(b) \/ DevSignIn(b)
    \/ CreateOperator(b) \/ CreateInvite(b) \/ RevokeInvites(b)
    \/ \E i \in Invites \cup {None} : RegisterOptions(b, i)
    \/ RegisterVerify(b) \/ VerifyFails(b)
    \/ LoginOptions(b) \/ LoginReads(b) \/ LoginVerify(b)
    \/ \E c \in Creds : DeletePasskey(b, c)

(* Nothing is stored before the first operator signs up. *)
LEMMA AuthInitHolds == AuthInit => AuthIInv
<1>1. SUFFICES ASSUME AuthInit PROVE AuthIInv
    OBVIOUS
<1>2. AuthTypeOK
    BY <1>1, AuthConstants DEF AuthInit, AuthTypeOK, NoChallenge
<1>3. Links /\ OneSetup /\ NobodyIsLockedOut
    BY <1>1 DEF AuthInit, Links, OneSetup, NobodyIsLockedOut
<1> QED BY <1>2, <1>3 DEF AuthIInv

(* What a challenge cookie may hold. *)
Ceremony == [purpose : {"none", "register", "login"}, op : Handles \cup {None},
             invite : Invites \cup {None}, new : BOOLEAN]
Usable(record) == record \in Ceremony /\ (record.purpose = "register" => record.op # None)
ChallengeOK == \A b \in Browsers : Usable(challenge[b])
TablesOK ==
    /\ admins \subseteq operators /\ operators \subseteq Handles
    /\ passkeys \in [Creds -> operators \cup {None}]
    /\ invites \in [Invites -> [op : operators \cup {None},
                                state : {"free", "open", "expired", "revoked", "used"}]]
    /\ \A i \in Invites : invites[i].state = "free" <=> invites[i].op = None
    /\ session \in [Browsers -> operators \cup {None}]
    /\ reading \in [Browsers -> operators \cup {None}]
    /\ minted \in [Invites -> SUBSET Creds]
    /\ setups \subseteq operators /\ enrolled \subseteq operators

(* The type invariant, apart for the tables and for the challenge cookies. *)
LEMMA TypeParts == AuthTypeOK <=> TablesOK /\ ChallengeOK /\ challenge \in [Browsers -> Ceremony]
    BY DEF AuthTypeOK, TablesOK, ChallengeOK, Usable, Ceremony

(* A challenge that is set is one that register_verify or login_verify can read. *)
LEMMA SetKeeps ==
    ASSUME AuthTypeOK, NEW b \in Browsers, NEW record, Usable(record), SetChallenge(b, record)
    PROVE  ChallengeOK' /\ challenge' \in [Browsers -> Ceremony]
    BY TypeParts DEF SetChallenge, ChallengeOK, Usable

(* What register_options puts in a challenge names an operator. *)
LEMMA RegisterKeeps ==
    ASSUME AuthTypeOK, NEW b \in Browsers, NEW op \in Handles, NEW link \in Invites \cup {None},
           NEW new \in BOOLEAN,
           SetChallenge(b, [purpose |-> "register", op |-> op, invite |-> link, new |-> new])
    PROVE  ChallengeOK' /\ challenge' \in [Browsers -> Ceremony]
<1> DEFINE record == [purpose |-> "register", op |-> op, invite |-> link, new |-> new]
<1>1. Usable(record)
    BY AuthConstants DEF Usable, Ceremony
<1>2. SetChallenge(b, record)
    OBVIOUS
<1> HIDE DEF record
<1> QED BY <1>1, <1>2, SetKeeps

(* No challenge is a usable one, and so is an absent or an untouched cookie. *)
LEMMA NoChallengeUsable == Usable(NoChallenge)
    BY DEF Usable, NoChallenge, Ceremony

(* Deleting the cookie keeps the others. *)
LEMMA ClearKeeps ==
    ASSUME AuthTypeOK, NEW b \in Browsers, ClearChallenge(b)
    PROVE  ChallengeOK' /\ challenge' \in [Browsers -> Ceremony]
    BY SetKeeps, NoChallengeUsable DEF SetChallenge, ClearChallenge

(* A request that leaves the cookies alone. *)
LEMMA SameKeeps ==
    ASSUME AuthTypeOK, UNCHANGED challenge
    PROVE  ChallengeOK' /\ challenge' \in [Browsers -> Ceremony]
    BY TypeParts DEF ChallengeOK

(* Every request keeps the challenges well formed. *)
LEMMA ChallengeStep == AuthTypeOK /\ [AuthNext]_authVars => ChallengeOK' /\ challenge' \in [Browsers -> Ceremony]
<1> SUFFICES ASSUME AuthTypeOK, [AuthNext]_authVars PROVE ChallengeOK' /\ challenge' \in [Browsers -> Ceremony]
    OBVIOUS
<1>1. ASSUME NEW b \in Browsers, BrowserStep(b)
      PROVE  ChallengeOK' /\ challenge' \in [Browsers -> Ceremony]
    <2>1. CASE ClearChallenge(b)
        BY <2>1, ClearKeeps
    <2>2. CASE UNCHANGED challenge
        BY <2>2, SameKeeps
    <2>3. CASE LoginOptions(b)
        <3>1. Usable([NoChallenge EXCEPT !.purpose = "login"])
            BY DEF Usable, NoChallenge, Ceremony
        <3> QED BY <2>3, <3>1, SetKeeps DEF LoginOptions
    <2>4. ASSUME NEW i \in Invites \cup {None}, RegisterOptions(b, i)
          PROVE  ChallengeOK' /\ challenge' \in [Browsers -> Ceremony]
        <3>1. CASE session[b] # None
            <4>1. session[b] \in Handles
                BY <3>1, TypeParts DEF TablesOK
            <4>2. SetChallenge(b, [purpose |-> "register", op |-> session[b], invite |-> None,
                                   new |-> FALSE])
                BY <2>4, <3>1 DEF RegisterOptions, NoChallenge, SetChallenge
            <4> QED BY <4>1, <4>2, RegisterKeeps
        <3>2. CASE session[b] = None /\ i # None
            <4>1. invites[i].op \in Handles
                BY <2>4, <3>2, TypeParts DEF RegisterOptions, TablesOK
            <4>2. SetChallenge(b, [purpose |-> "register", op |-> invites[i].op, invite |-> i,
                                   new |-> FALSE])
                BY <2>4, <3>2 DEF RegisterOptions, NoChallenge, SetChallenge
            <4> QED BY <3>2, <4>1, <4>2, RegisterKeeps
        <3>3. CASE session[b] = None /\ i = None
            <4>1. PICK op \in Handles :
                    SetChallenge(b, [purpose |-> "register", op |-> op, invite |-> None, new |-> TRUE])
                BY <2>4, <3>3 DEF RegisterOptions, NoChallenge, SetChallenge
            <4> QED BY <4>1, RegisterKeeps
        <3> QED BY <3>1, <3>2, <3>3
    <2>5. ClearChallenge(b) \/ UNCHANGED challenge \/ LoginOptions(b)
            \/ \E i \in Invites \cup {None} : RegisterOptions(b, i)
        BY <1>1 DEF BrowserStep, CookieExpires, Logout, DevSignIn, CreateOperator, CreateInvite,
                    RevokeInvites, RegisterVerify, VerifyFails, LoginReads, LoginVerify, DeletePasskey
    <2> QED BY <2>1, <2>2, <2>3, <2>4, <2>5
<1>2. ASSUME NEW i \in Invites, InviteExpires(i)
      PROVE  ChallengeOK' /\ challenge' \in [Browsers -> Ceremony]
    BY <1>2, SameKeeps DEF InviteExpires
<1>3. CASE UNCHANGED authVars
    BY <1>3, SameKeeps DEF authVars
<1> QED BY <1>1, <1>2, <1>3 DEF AuthNext, BrowserStep

(* Every request keeps the tables sound, and the operators that cookies name. *)
LEMMA AuthTypeStep == AuthTypeOK /\ [AuthNext]_authVars => AuthTypeOK'
<1> SUFFICES ASSUME AuthTypeOK, [AuthNext]_authVars PROVE AuthTypeOK'
    OBVIOUS
<1> USE AuthConstants
<1>0. TablesOK /\ ChallengeOK /\ challenge \in [Browsers -> Ceremony]
    BY TypeParts
<1>1. ASSUME NEW b \in Browsers, BrowserStep(b) PROVE TablesOK'
    <2>1. CASE CookieExpires(b) \/ Logout(b)
        BY <1>0, <2>1 DEF CookieExpires, Logout, SignIn, TablesOK, tables, history
    <2>2. CASE DevSignIn(b)
        BY <1>0, <2>2 DEF DevSignIn, SignIn, TablesOK, history
    <2>3. CASE CreateOperator(b)
        BY <1>0, <2>3 DEF CreateOperator, TablesOK, history
    <2>4. CASE CreateInvite(b)
        BY <1>0, <2>4 DEF CreateInvite, TablesOK, history
    <2>5. CASE RevokeInvites(b)
        BY <1>0, <2>5 DEF RevokeInvites, TablesOK, history
    <2>6. CASE \E i \in Invites \cup {None} : RegisterOptions(b, i)
        BY <1>0, <2>6 DEF RegisterOptions, TablesOK, tables, history
    <2>7. CASE RegisterVerify(b)
        <3>1. Usable(challenge[b]) /\ challenge[b].purpose = "register"
            BY <1>0, <2>7 DEF RegisterVerify, ChallengeOK
        <3>2. challenge[b].op \in Handles /\ challenge[b].invite \in Invites \cup {None}
            BY <3>1 DEF Usable, Ceremony
        <3>3. admins' \subseteq operators' /\ operators \subseteq operators'
              /\ operators' \subseteq Handles /\ challenge[b].op \in operators'
            BY <1>0, <2>7, <3>2 DEF RegisterVerify, TablesOK
        <3>4. passkeys' \in [Creds -> operators' \cup {None}]
            BY <1>0, <2>7, <3>3 DEF RegisterVerify, TablesOK
        <3>5. invites' \in [Invites -> [op : operators \cup {None},
                                        state : {"free", "open", "expired", "revoked", "used"}]]
              /\ \A i \in Invites : invites'[i].state = "free" <=> invites'[i].op = None
            BY <1>0, <2>7, <3>2 DEF RegisterVerify, Admitted, UseUp, TablesOK
        <3>6. invites' \in [Invites -> [op : operators' \cup {None},
                                        state : {"free", "open", "expired", "revoked", "used"}]]
            BY <3>3, <3>5
        <3>7. minted' \in [Invites -> SUBSET Creds]
            BY <1>0, <2>7, <3>2 DEF RegisterVerify, TablesOK
        <3>8. session' \in [Browsers -> operators' \cup {None}]
              /\ reading' \in [Browsers -> operators' \cup {None}]
              /\ setups' \subseteq operators' /\ enrolled' \subseteq operators'
            BY <1>0, <2>7, <3>3 DEF RegisterVerify, SignIn, TablesOK
        <3> QED BY <3>3, <3>4, <3>5, <3>6, <3>7, <3>8 DEF TablesOK
    <2>8. CASE VerifyFails(b) \/ LoginOptions(b) \/ LoginReads(b) \/ LoginVerify(b)
        BY <1>0, <2>8 DEF VerifyFails, LoginOptions, LoginReads, LoginVerify, SignIn, TablesOK, tables,
                    history
    <2>9. CASE \E c \in Creds : DeletePasskey(b, c)
        BY <1>0, <2>9 DEF DeletePasskey, TablesOK, history
    <2> QED BY <1>1, <2>1, <2>2, <2>3, <2>4, <2>5, <2>6, <2>7, <2>8, <2>9 DEF BrowserStep
<1>2. ASSUME NEW i \in Invites, InviteExpires(i) PROVE TablesOK'
    BY <1>0, <1>2 DEF InviteExpires, TablesOK, history
<1>3. CASE UNCHANGED authVars
    BY <1>3 DEF authVars, tables, AuthTypeOK
<1>4. TablesOK' => AuthTypeOK'
    BY ChallengeStep, TypeParts DEF AuthTypeOK, TablesOK, ChallengeOK, Usable, Ceremony
<1> QED BY <1>1, <1>2, <1>3, <1>4 DEF AuthNext, BrowserStep

(* A link is used up in the transaction that stores its one passkey. *)
LEMMA LinksStep == AuthTypeOK /\ Links /\ [AuthNext]_authVars => Links'
<1> SUFFICES ASSUME AuthTypeOK, Links, [AuthNext]_authVars PROVE Links'
    OBVIOUS
<1>1. ASSUME NEW b \in Browsers, RegisterVerify(b) PROVE Links'
    <2>1. CASE challenge[b].invite = None
        BY <1>1, <2>1 DEF RegisterVerify, UseUp, Links
    <2>2. CASE challenge[b].invite # None
        <3> DEFINE i == challenge[b].invite
        <3>1. i \in Invites /\ invites[i].state = "open"
            BY <1>1, <2>2, TypeParts DEF RegisterVerify, Admitted, ChallengeOK, Usable, Ceremony
        <3>2. minted[i] = {}
            BY <3>1 DEF Links
        <3>3. PICK c \in Creds : minted' = [minted EXCEPT ![i] = @ \cup {c}]
            BY <1>1, <2>2 DEF RegisterVerify
        <3>4. invites' = [invites EXCEPT ![i].state = "used"]
            BY <1>1, <2>2 DEF RegisterVerify, UseUp
        <3>5. minted'[i] = {c} /\ invites'[i].state = "used"
            BY <3>1, <3>2, <3>3, <3>4, TypeParts DEF TablesOK
        <3>6. \A j \in Invites \ {i} : minted'[j] = minted[j] /\ invites'[j] = invites[j]
            BY <3>3, <3>4, TypeParts DEF TablesOK
        <3> QED BY <3>5, <3>6 DEF Links
    <2> QED BY <2>1, <2>2
<1>2. ASSUME NEW b \in Browsers, CreateInvite(b) PROVE Links'
    BY <1>2, TypeParts DEF CreateInvite, history, Links, TablesOK
<1>3. ASSUME NEW b \in Browsers, RevokeInvites(b) PROVE Links'
    BY <1>3, TypeParts DEF RevokeInvites, history, Links, TablesOK
<1>4. ASSUME NEW i \in Invites, InviteExpires(i) PROVE Links'
    BY <1>4, TypeParts DEF InviteExpires, history, Links, TablesOK
<1>5. CASE UNCHANGED <<invites, minted>>
    BY <1>5 DEF Links
<1>6. UNCHANGED <<invites, minted>>
        \/ (\E b \in Browsers : RegisterVerify(b) \/ CreateInvite(b) \/ RevokeInvites(b))
        \/ \E i \in Invites : InviteExpires(i)
    BY DEF AuthNext, authVars, tables, history, CookieExpires, Logout, DevSignIn, CreateOperator,
           RegisterOptions, VerifyFails, LoginOptions, LoginReads, LoginVerify, DeletePasskey
<1> QED BY <1>1, <1>2, <1>3, <1>4, <1>5, <1>6

(* Setup is checked again in its transaction: no account exists, so none signed up. *)
LEMMA SetupStep == AuthTypeOK /\ OneSetup /\ [AuthNext]_authVars => OneSetup'
<1> SUFFICES ASSUME AuthTypeOK, OneSetup, [AuthNext]_authVars PROVE OneSetup'
    OBVIOUS
<1>1. ASSUME NEW b \in Browsers, RegisterVerify(b) PROVE OneSetup'
    <2>1. CASE challenge[b].new
        <3>1. setups = {}
            BY <1>1, <2>1 DEF RegisterVerify, Admitted, OneSetup
        <3> QED BY <1>1, <2>1, <3>1 DEF RegisterVerify, OneSetup
    <2>2. CASE ~challenge[b].new
        BY <1>1, <2>2 DEF RegisterVerify, OneSetup
    <2> QED BY <2>1, <2>2
<1>2. CASE setups' = setups /\ operators \subseteq operators'
    BY <1>2 DEF OneSetup
<1>3. (setups' = setups /\ operators \subseteq operators') \/ \E b \in Browsers : RegisterVerify(b)
    BY DEF AuthNext, authVars, tables, history, CookieExpires, Logout, DevSignIn, CreateOperator, CreateInvite,
           RevokeInvites, InviteExpires, RegisterOptions, VerifyFails, LoginOptions, LoginReads,
           LoginVerify, DeletePasskey
<1> QED BY <1>1, <1>2, <1>3

(* A passkey is stored free and with its operator; of one's own, the last one stays. *)
LEMMA PasskeysStep == AuthTypeOK /\ NobodyIsLockedOut /\ [AuthNext]_authVars => NobodyIsLockedOut'
<1> SUFFICES ASSUME AuthTypeOK, NobodyIsLockedOut, [AuthNext]_authVars, NEW op \in enrolled'
             PROVE  \E c \in Creds : passkeys'[c] = op
    BY DEF NobodyIsLockedOut, Owned
<1>0. passkeys \in [Creds -> operators \cup {None}] /\ None \notin enrolled
    BY TypeParts, AuthConstants DEF TablesOK
<1>1. ASSUME NEW b \in Browsers, RegisterVerify(b) PROVE \E c \in Creds : passkeys'[c] = op
    <2>1. PICK k \in Creds : passkeys[k] = None /\ passkeys' = [passkeys EXCEPT ![k] = challenge[b].op]
        BY <1>1 DEF RegisterVerify
    <2>2. CASE op = challenge[b].op
        BY <1>0, <2>1, <2>2
    <2>3. CASE op \in enrolled
        <3>1. PICK c \in Creds : passkeys[c] = op
            BY <2>3 DEF NobodyIsLockedOut, Owned
        <3>2. c # k
            BY <1>0, <2>1, <2>3, <3>1
        <3> QED BY <1>0, <2>1, <3>1, <3>2
    <2> QED BY <1>1, <2>2, <2>3 DEF RegisterVerify
<1>2. ASSUME NEW b \in Browsers, NEW k \in Creds, DeletePasskey(b, k)
      PROVE  \E c \in Creds : passkeys'[c] = op
    <2>1. op \in enrolled
        BY <1>2 DEF DeletePasskey, history
    <2>2. PICK c \in Creds : passkeys[c] = op
        BY <2>1 DEF NobodyIsLockedOut, Owned
    <2>3. CASE c # k
        BY <1>0, <1>2, <2>2, <2>3 DEF DeletePasskey
    <2>4. CASE c = k
        <3>1. op = session[b] /\ k \in Owned(op) /\ Cardinality(Owned(op)) # 1
            BY <1>2, <2>2, <2>4 DEF DeletePasskey, Owned
        <3>2. Owned(op) # {k}
            BY <3>1, FS_Singleton
        <3>3. PICK d \in Owned(op) : d # k
            BY <3>1, <3>2
        <3> QED BY <1>0, <1>2, <3>3 DEF DeletePasskey, Owned
    <2> QED BY <2>3, <2>4
<1>3. CASE UNCHANGED <<passkeys, enrolled>>
    BY <1>3 DEF NobodyIsLockedOut, Owned
<1>4. UNCHANGED <<passkeys, enrolled>>
        \/ \E b \in Browsers : RegisterVerify(b) \/ \E k \in Creds : DeletePasskey(b, k)
    BY DEF AuthNext, authVars, tables, history, CookieExpires, Logout, DevSignIn, CreateOperator, CreateInvite,
           RevokeInvites, InviteExpires, RegisterOptions, VerifyFails, LoginOptions, LoginReads,
           LoginVerify
<1> QED BY <1>1, <1>2, <1>3, <1>4

(* The inductive invariant holds in every reachable state. *)
THEOREM AuthInvariance == AuthSpec => []AuthIInv
<1>1. AuthInit => AuthIInv
    BY AuthInitHolds
<1>2. AuthIInv /\ [AuthNext]_authVars => AuthIInv'
    BY AuthTypeStep, LinksStep, SetupStep, PasskeysStep DEF AuthIInv
<1> QED BY <1>1, <1>2, PTL DEF AuthSpec

(* The tables, the cookies and the references between them stay sound. *)
THEOREM AuthTypeCorrect == AuthSpec => []AuthTypeOK
<1>1. AuthIInv => AuthTypeOK
    BY DEF AuthIInv
<1> QED BY <1>1, AuthInvariance, PTL

(* However many browsers opened it, a link makes at most one passkey, and is *)
(* used up exactly when it made one (complete_registration).                 *)
THEOREM LinkOnce == AuthSpec => []LinkMakesOnePasskey
<1>1. AuthIInv => LinkMakesOnePasskey
    <2>1. ASSUME AuthIInv, NEW i \in Invites
          PROVE  Cardinality(minted[i]) <= 1 /\ (minted[i] # {} <=> invites[i].state = "used")
        <3>1. CASE invites[i].state = "used"
            <4>1. PICK c \in Creds : minted[i] = {c}
                BY <2>1, <3>1 DEF AuthIInv, Links
            <4>2. Cardinality(minted[i]) = 1
                BY <4>1, FS_Singleton
            <4> QED BY <3>1, <4>1, <4>2
        <3>2. CASE invites[i].state # "used"
            <4>1. minted[i] = {}
                BY <2>1, <3>2 DEF AuthIInv, Links
            <4>2. Cardinality(minted[i]) = 0
                BY <4>1, FS_EmptySet
            <4> QED BY <3>2, <4>1, <4>2
        <3> QED BY <3>1, <3>2
    <2> QED BY <2>1 DEF LinkMakesOnePasskey
<1> QED BY <1>1, AuthInvariance, PTL

(* Of the browsers that were offered setup, one becomes the first operator. *)
THEOREM SetupOnce == AuthSpec => []SetupHappensOnce
<1>1. AuthIInv => SetupHappensOnce
    <2>1. CASE setups = {}
        BY <2>1, FS_EmptySet DEF SetupHappensOnce
    <2>2. ASSUME NEW op \in operators, setups = {op} PROVE SetupHappensOnce
        <3>1. Cardinality(setups) = 1
            BY <2>2, FS_Singleton
        <3> QED BY <3>1 DEF SetupHappensOnce
    <2> QED BY <2>1, <2>2 DEF AuthIInv, OneSetup
<1> QED BY <1>1, AuthInvariance, PTL

(* No operator who ever had a passkey is left without one (delete_passkey). *)
THEOREM NobodyLockedOut == AuthSpec => []NobodyIsLockedOut
<1>1. AuthIInv => NobodyIsLockedOut
    BY DEF AuthIInv
<1> QED BY <1>1, AuthInvariance, PTL
================================================================================
