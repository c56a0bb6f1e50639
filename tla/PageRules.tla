------------------------------- MODULE PageRules -------------------------------
(***************************************************************************)
(* What the scraper decides about one fetched page: validate() of          *)
(* scraper/validation.py and the scored drink classifier of                *)
(* scraper/classify_drink.py, over the structured data that                *)
(* scraper/structured.py takes from the page.  How the words of a recipe   *)
(* add up to its score is left out: a score is an input here.              *)
(*                                                                         *)
(* A page is the record of what these rules look at:                       *)
(*   canonical  where the canonical link points: "none", "same", "other"   *)
(*   jsonld     the @type names of its JSON-LD objects, in order;          *)
(*              microdata likewise                                         *)
(*   recipes    the scores of its recipes, the objects of both kinds that  *)
(*              are scored, in order                                       *)
(*   small, shortText, notFound   the size, text and soft-404 tests        *)
(*   marks      the blocker fingerprints that occur in the text            *)
(***************************************************************************)
EXTENDS Integers, Sequences, FiniteSets, FiniteSetsExt, Functions

CONSTANT None     \* no type, no label, no row

-------------------------------------------------------------------------------
(* The type of a page. *)

TypePriority == <<"Recipe", "NewsArticle", "Article", "WebPage", "WebSite">>

TypeRank(t) ==
    IF t \in Range(TypePriority)
    THEN CHOOSE i \in DOMAIN TypePriority : TypePriority[i] = t
    ELSE Len(TypePriority) + 1

(* type_names() takes the schema.org prefix off.  It is used for microdata   *)
(* and to recognise recipes, not for the types of JSON-LD objects.           *)
BareName(t) == IF t = "http://schema.org/Recipe" THEN "Recipe" ELSE t

(* The first name of lowest rank, in the order in which the objects and     *)
(* their names come.                                                        *)
FirstBest(names) ==
    IF names = <<>> THEN None
    ELSE names[CHOOSE i \in DOMAIN names : \A j \in DOMAIN names :
                 \/ TypeRank(names[i]) < TypeRank(names[j])
                 \/ TypeRank(names[i]) = TypeRank(names[j]) /\ i <= j]

JsonLdType(page)    == FirstBest(page.jsonld)
MicrodataType(page) == FirstBest([i \in DOMAIN page.microdata |-> BareName(page.microdata[i])])

(* JSON-LD comes first and wins a tie. *)
BestType(page) ==
    FirstBest(SelectSeq(<<JsonLdType(page), MicrodataType(page)>>, LAMBDA t : t # None))

(* validate(): a page served from another host is blocked, structured data  *)
(* is believed, and only a page without any is held against the blockers.   *)
Validate(page, fingerprints) ==
    CASE page.canonical = "other"                        -> "blocked"
      [] page.canonical # "other" /\ BestType(page) # None -> BestType(page)
      [] OTHER -> IF \/ page.small
                     \/ page.marks \cap fingerprints # {}
                     \/ page.notFound
                     \/ page.shortText
                  THEN "blocked" ELSE "unverified"

-------------------------------------------------------------------------------
(* The label of a page, by the score that score_recipe() gives each recipe. *)

LabelForScore(score) ==
    IF score >= 2 THEN "confirmed_drink"
    ELSE IF score <= -2 THEN "confirmed_food" ELSE None

(* classify_drink_scored: the best score of the page's recipes. *)
ClassifyDrink(page) ==
    IF page.recipes = <<>> THEN None
    ELSE LabelForScore(Max(Range(page.recipes)))
================================================================================
