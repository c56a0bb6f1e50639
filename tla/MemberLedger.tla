----------------------------- MODULE MemberLedger -----------------------------
(***************************************************************************)
(* What the run ledger promises about the members of a run, whatever the   *)
(* operators, the executor and the crashes of the process do.  A member is *)
(* the job_items row of one entity in one run (`absent' when there is no   *)
(* row).  One run at most is owned by the executor at a time, a member is  *)
(* decided only while its run is owned, a decision is never revised, and   *)
(* only a failed member ever goes back to pending.                         *)
(***************************************************************************)
CONSTANTS Jobs, Entities, NoJob

VARIABLES member, owner

ledgerVars == <<member, owner>>

Decided == {"applied", "flagged", "failed"}
MemberState == {"absent", "pending"} \cup Decided

Init ==
    /\ member \in [Jobs -> [Entities -> {"absent", "pending"}]]
    /\ owner = NoJob

\* Operators add members that are not in the run yet.
Load(j, S) ==
    /\ \A i \in S : member[j][i] = "absent"
    /\ member' = [member EXCEPT ![j] =
                    [i \in Entities |-> IF i \in S THEN "pending" ELSE member[j][i]]]
    /\ UNCHANGED owner

\* The executor decides some pending members of the run it owns.
Decide(j, S, outcome) ==
    /\ owner = j
    /\ \A i \in S : member[j][i] = "pending"
    /\ member' = [member EXCEPT ![j] =
                    [i \in Entities |-> IF i \in S THEN outcome[i] ELSE member[j][i]]]
    /\ UNCHANGED owner

\* A retry sends the failed members back; applied and flagged ones stay.
Reopen(j) ==
    /\ member' = [member EXCEPT ![j] =
                    [i \in Entities |-> IF member[j][i] = "failed" THEN "pending"
                                                                   ELSE member[j][i]]]
    /\ UNCHANGED owner

\* Members are taken out of a run, or the run is deleted.
Drop(j, S) ==
    /\ member' = [member EXCEPT ![j] =
                    [i \in Entities |-> IF i \in S THEN "absent" ELSE member[j][i]]]
    /\ UNCHANGED owner

\* The executor takes a run, and lets it go (or dies).
Acquire(j) == owner = NoJob /\ owner' = j /\ UNCHANGED member
Release    == owner' = NoJob /\ UNCHANGED member

Next ==
    \/ \E j \in Jobs, S \in SUBSET Entities : Load(j, S) \/ Drop(j, S)
    \/ \E j \in Jobs, S \in SUBSET Entities, outcome \in [Entities -> Decided] :
          Decide(j, S, outcome)
    \/ \E j \in Jobs : Reopen(j) \/ Acquire(j)
    \/ Release

Spec == Init /\ [][Next]_ledgerVars
===============================================================================
