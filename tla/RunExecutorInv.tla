---------------------------- MODULE RunExecutorInv ----------------------------
(***************************************************************************)
(* The inductive invariant behind the safety properties of RunExecutor.    *)
(* ControlInv says what is in memory at each program point of the          *)
(* executor; QueueInv that the members it has not come to are the pending  *)
(* ones, as long as nobody wrote the run; ContentInv that what it is about *)
(* to report applied is committed, and that a row id is reused clean.      *)
(***************************************************************************)
EXTENDS RunExecutor

ControlInv ==
    /\ exec \in {"idle", "ready"} <=> cur = NoJob
    /\ cur # NoJob => curStage \in Stages
    /\ exec \in {"idle", "ready", "claimed", "read", "finalize", "release"} => todo = {}
    /\ exec # "record" => unrecorded = {}
    /\ todo \cap unrecorded = {}
    /\ curStage = "parse" => exec \notin {"item", "record"}
    /\ ~up => exec = "idle" /\ req = [c \in Clients |-> Idle]
    /\ \A c \in Clients : req[c].at # "idle" => req[c].job # NoJob

\* The stages whose members cannot vanish.
Lasting == {"parse", "extract"}

QueueInv ==
    cur # NoJob /\ ~touched[cur] =>
        /\ stage[cur] = curStage
        /\ curStage \in Lasting =>
              /\ exec \in {"work", "item", "record"} /\ ~event =>
                    Pending(cur) \subseteq todo \cup unrecorded
              /\ exec = "finalize" /\ verdict = "done" => Pending(cur) = {}

ContentInv ==
    /\ \A j \in Jobs : state[j] = "absent" => \A i \in Entities : member[j][i] = "absent"
    /\ exec = "record" => unrecorded \subseteq content[curStage]

IInv ==
    /\ TypeOK
    /\ ControlInv
    /\ NeverRedecides
    /\ RunningIsOwned
    /\ QueueInv
    /\ UntouchedDoneIsDrained
    /\ ContentInv
    /\ AppliedHasContent
===============================================================================
