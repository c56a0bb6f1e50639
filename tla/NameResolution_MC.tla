--------------------------- MODULE NameResolution_MC ---------------------------
(* NameResolution on a taxonomy with one curated node, a name that is minted     *)
(* under a slug of its own, and a name that no slug can be made of.              *)
EXTENDS NameResolutionInv

CONSTANTS lime, dash, limeNode, citrus

SmallSlugOf  == [n \in Names |-> IF n = lime THEN limeNode ELSE NoNode]
SmallNear    == [n \in Names |-> IF n = lime THEN {limeNode, citrus} ELSE {citrus}]
SmallNamedAs == [m \in Nodes |-> IF m = limeNode THEN {lime} ELSE {}]
===============================================================================
