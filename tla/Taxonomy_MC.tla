----------------------------- MODULE Taxonomy_MC -----------------------------
(* Taxonomy from every small DAG whose parents have smaller ids than their      *)
(* children.                                                                    *)
EXTENDS Taxonomy

SmallSeeds == SUBSET {e \in Ids \X Ids : e[1] < e[2]}
===============================================================================
