----------------------------- MODULE DatabaseSwap_MC ----------------------------
(* DatabaseSwap with an ETL file without operators, built by the first of two  *)
(* migrations, and a file of a newer build.                                    *)
EXTENDS DatabaseSwap, TLC

MCBodySchema == [etl |-> 1, newer |-> 3]
MCBodyOps    == [etl |-> FALSE, newer |-> TRUE]

(* Uploads are alike, and so are applies. *)
MCAlike == Permutations(Uploads) \cup Permutations(Applies)
================================================================================
