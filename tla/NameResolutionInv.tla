--------------------------- MODULE NameResolutionInv ---------------------------
(***************************************************************************)
(* The inductive invariant behind the properties of NameResolution.  The   *)
(* stage only ever has names at hand that it may write (WorkInv); behind   *)
(* the pin pass the fixes stand (PinInv); and in a history without a cut   *)
(* every name with a current row has a slug, but for those the pass under  *)
(* way has still to mint (LandInv), and what is written as a slug is there *)
(* or was taken away meanwhile (NodeInv).                                  *)
(***************************************************************************)
EXTENDS NameResolution

AtHand == {h.name : h \in hand}

WorkInv ==
    /\ run # "running" => pc = "idle"
    /\ pc \in {"idle", "names"} => todo = {} /\ pending = {}
    /\ pending \cup todo \cup AtHand \subseteq chunk
    /\ pc \in {"idle", "names", "apply", "pin"} => hand = {}
    /\ \A h, g \in hand : h = g
    /\ todo \cap AtHand = {}
    /\ \A n \in todo \cup AtHand : ~Settled(n)
    /\ pc = "pin" => \A n \in todo : pin[n] # NoNode
    /\ pc = "mint" => \A h \in hand : h.slug \in Nodes

PinInv ==
    pc = "pin" => \A n \in chunk \ todo :
        pin[n] # NoNode /\ pin[n] \notin absorbed => slug[n] = pin[n]

\* The names with a current row that the pass under way may still have to mint.
Unfinished == CASE pc \in {"resolve", "apply"} -> pending
                [] pc = "mint" -> todo \cup AtHand
                [] OTHER -> {}

HasSlug(n) == SlugOf[n] # NoNode => slug[n] \in Nodes
LandInv ==
    failures + restarts = 0 =>
        /\ \A n \in current \ Unfinished : HasSlug(n)
        /\ pc \in {"resolve", "apply", "mint", "pin"} => chunk \subseteq current \cup Unfinished
        /\ pc \in {"resolve", "apply"} => todo \cup AtHand \subseteq pending

\* A node that a row, a fix or the stage's memory names is there, or was merged away, or
\* was deleted under a run: when none is under way, each fix is on its row, and what a row
\* names is not deleted.
Stamped(n) == pin[n] # NoNode /\ pin[n] \notin absorbed => slug[n] = pin[n]
NodeInv ==
    failures + restarts = 0 =>
        /\ \A n \in Names : slug[n] \in There \cup {NoNode}
        /\ \A n \in Names : pin[n] \in There \cup {NoNode}
        /\ \A h \in hand : h.slug \in There \cup {NoNode}
        /\ pc = "apply" => \A n \in Names : shown[n] \subseteq There
        /\ \A n \in Names : run # "running" \/ n \notin chunk => Stamped(n)

IInv == TypeOK /\ WorkInv /\ PinInv /\ LandInv /\ NodeInv
===============================================================================
