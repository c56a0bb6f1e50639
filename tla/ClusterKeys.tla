---------------------------- MODULE ClusterKeys ----------------------------
(***************************************************************************)
(* What makes two recipes the same drink: the roll-up of a taxonomy node   *)
(* to the curated cut, the role of an ingredient, and the keys of a        *)
(* cluster and of a variant.  A hash of a sorted list is the bag of what   *)
(* it hashes.                                                              *)
(***************************************************************************)
EXTENDS Naturals, SequencesExt

Null == "null"

(* The recursive query climbs no higher. *)
MaxDepth == 10

(* The ancestors of n by their distance.  An edge is <<child, parent>>. *)
Parents(nodes, edges) == {e[2] : e \in {d \in edges : d[1] \in nodes}}
Generations(n, edges) ==
    LET up[d \in 0 .. MaxDepth] == IF d = 0 THEN {n} ELSE Parents(up[d - 1], edges) IN up

Nearest(ds) == CHOOSE d \in ds : \A c \in ds : d <= c
(* Where n may land: the cluster nodes nearest to it, in no order the query
   gives, or n itself above the cut. *)
roll_up_to_antichain(n, edges, cut) ==
    LET up == Generations(n, edges)
        hits == {d \in 0 .. MaxDepth : up[d] \cap cut # {}}
    IN IF hits = {} THEN {n} ELSE up[Nearest(hits)] \cap cut

-----------------------------------------------------------------------------
(* A volume is "trace" (less than a quarter of an ounce), "structural" (an
   ounce and a half or more), "some" (between), or Null. *)
classify_role(ing) ==
    LET base == ing.position = 1 /\ ing.volume = "structural"
    IN IF ing.wash /\ ing.volume = "trace" THEN "wash"
       ELSE IF ing.default_role \in {"bitters", "modifier"} /\ base THEN "base_spirit"
       ELSE IF ing.default_role # Null THEN ing.default_role
       ELSE IF base THEN "base_spirit"
       ELSE "other"

INCLUDED_ROLES ==
    {"base_spirit", "modifier", "citrus", "sweetener", "bitters", "dilution", "wash", "other"}

in_cluster_key(ing) ==
    /\ ing.antichain # Null
    /\ IF ing.role = "garnish" THEN ing.defining ELSE ing.role \in INCLUDED_ROLES

Keyed(ings, members(_)) ==
    LET kept == SelectSeq(ings, in_cluster_key)
    IN ToBag([i \in DOMAIN kept |-> members(kept[i])])

(* A role and a slug for each ingredient that counts, repeats kept. *)
compute_cluster_key(name, ings) ==
    [name |-> name, ingredients |-> Keyed(ings, LAMBDA ing : << ing.role, ing.antichain >>)]

compute_variant_key(cluster_key, ings) ==
    [cluster |-> cluster_key,
     ingredients |-> Keyed(ings, LAMBDA ing : << ing.role, ing.antichain, ing.slug,
                                                ing.amount, ing.amount_max, ing.unit >>)]

(* The seeded bug: every ingredient with a node, garnishes too. *)
ingredient_set_jsonAll(ings) ==
    LET kept == SelectSeq(ings, LAMBDA ing : ing.antichain # Null)
    IN {<< kept[i].role, kept[i].antichain >> : i \in DOMAIN kept}
(* The snapshot stored with the cluster: the same members without repeats. *)
ingredient_set_json(ings) ==
    LET kept == SelectSeq(ings, in_cluster_key)
    IN {<< kept[i].role, kept[i].antichain >> : i \in DOMAIN kept}
=============================================================================
