---------------------------- MODULE ScraperPages_MC ----------------------------
(* ScraperPages with four contents: a drink recipe, two pages without      *)
(* structured data that one validator version takes for a challenge page   *)
(* and the other does not, and a page both call blocked.                   *)
EXTENDS ScraperPages

PlainPage ==
    [canonical |-> "same", jsonld |-> <<>>, microdata |-> <<>>, recipes |-> <<>>,
     small |-> FALSE, shortText |-> FALSE, notFound |-> FALSE, marks |-> {}]

MCContent ==
    [recipe  |-> [PlainPage EXCEPT !.jsonld = <<"Article", "Recipe">>, !.recipes = <<7>>],
     cleared |-> [PlainPage EXCEPT !.marks = {"challenge"}],
     trap    |-> [PlainPage EXCEPT !.marks = {"captcha"}],
     blocked |-> [PlainPage EXCEPT !.small = TRUE]]

MCFingerprints == <<{"challenge"}, {"captcha"}>>

OneSite == [u \in 1 .. 3 |-> 1]

(* The first validator may find any of the three blocked.                  *)
MixedServes == <<{"recipe", "cleared"}, {"trap", "blocked"}, {"blocked"}>>
================================================================================
