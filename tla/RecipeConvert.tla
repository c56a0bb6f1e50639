--------------------------- MODULE RecipeConvert ---------------------------
(***************************************************************************)
(* The converter: from the ingredients of a recipe and the technique its   *)
(* instructions name to the equipment and the steps of a RecipeGF recipe,  *)
(* or to the first reason why it cannot.  And the bundle of a recipe, put  *)
(* together from its rows whenever it is asked for.                        *)
(*                                                                         *)
(* An ingredient is a record with slug, role, unit, amount and topper (its *)
(* name or text hints at an effervescent pour).  Instructions are the set  *)
(* of the keyword families their text mentions.                            *)
(***************************************************************************)
EXTENDS Naturals, SequencesExt

NoValue == "null"

Techniques == << "blend", "shake", "stir", "build" >>

(* The first family of keywords that appears. *)
infer_technique(text) ==
    LET i == SelectInSeq(Techniques, LAMBDA t : t \in text)
    IN IF i = 0 THEN NoValue ELSE Techniques[i]

mentions_muddle(text) == "muddle" \in text

(* Units of the registry; the ones that count single pieces. *)
CountUnits == {"each", "wedge", "wheel"}
RegistryUnits == CountUnits \cup {"oz", "pinch", "bottle"}
DefaultOneRoles == {"garnish", "bitters"}

Bucket(role) == IF role \in {"ice", "garnish"} THEN role ELSE "body"

UnitOf(ing) ==
    IF ing.unit \in RegistryUnits THEN ing.unit
    ELSE IF Bucket(ing.role) # "body" THEN "each"
    ELSE NoValue

(* A garnish or ice without a usable unit counts one when it has no amount,
   and so does what comes in pieces or as an accent. *)
AmountOf(ing) ==
    IF ing.amount # NoValue THEN ing.amount
    ELSE IF UnitOf(ing) \in CountUnits \/ ing.role \in DefaultOneRoles THEN "1"
    ELSE NoValue

Repeats(ings, i) == \E j \in 1 .. i - 1 : ings[j].slug = ings[i].slug

(* Why an ingredient stops the conversion, in the order of the checks. *)
Blocker(ings, i) ==
    LET ing == ings[i]
    IN CASE ing.slug = NoValue                          -> "unresolved_ingredient"
         [] ing.role = NoValue                          -> "missing_roles"
         [] UnitOf(ing) = NoValue /\ ing.unit # NoValue -> "unknown_unit"
         [] UnitOf(ing) = NoValue                       -> "missing_amount"
         [] AmountOf(ing) = NoValue                     -> "missing_amount"
         [] Repeats(ings, i)                            -> "duplicate_ingredient"
         [] OTHER                                       -> NoValue

(* The first blocker of the first ingredient that has one. *)
FirstBlocker(ings) ==
    LET i == SelectInSeq([k \in DOMAIN ings |-> Blocker(ings, k)], LAMBDA b : b # NoValue)
    IN IF i = 0 THEN NoValue ELSE Blocker(ings, i)

prepare_ingredients(ings) ==
    [i \in DOMAIN ings |->
        [name |-> ings[i].slug, amount |-> AmountOf(ings[i]), unit |-> UnitOf(ings[i]),
         bucket |-> Bucket(ings[i].role),
         topper |-> Bucket(ings[i].role) = "body" /\ ings[i].topper]]

-----------------------------------------------------------------------------
Step(verb, input, to, using, result) ==
    [verb |-> verb, input |-> input, to |-> to, using |-> using, result |-> result]

InBucket(prepared, bucket) ==
    LET those == SelectSeq(prepared, LAMBDA p : p.bucket = bucket)
    IN [i \in DOMAIN those |-> those[i].name]

(* What the steps of a chain result in; no recipe here is longer. *)
Garnished == << "garnished_0", "garnished_1", "garnished_2" >>
Topped == << "topped_0", "topped_1", "topped_2" >>

(* One step for each name of the chain, each onto the result of the one before. *)
Chain(names, verb, start, result(_)) ==
    [i \in DOMAIN names |->
        Step(verb, << names[i] >>, IF i = 1 THEN start ELSE result(i - 1), NoValue, result(i))]

garnish_steps(garnishes, start) ==
    LET result(i) == IF i = Len(garnishes) THEN "finished_drink" ELSE Garnished[i]
    IN Chain(garnishes, "garnish", start, result)

Stir(body, ice) ==
    LET glass == IF ice = << >> THEN "rocks_glass" ELSE "iced_glass"
    IN << Step("add", body, "mixing_glass", NoValue, "combined"),
          Step("stir", << "combined" >>, NoValue, "bar_spoon", "stirred") >>
       \o (IF ice = << >> THEN << >>
           ELSE << Step("add", ice, "rocks_glass", NoValue, "iced_glass") >>)
       \o << Step("strain", << "stirred" >>, glass, "bar_spoon", "poured") >>

Shake(body, ice) ==
    << Step("add", body \o ice, "shaker", NoValue, "combined"),
       Step("shake", << "combined" >>, NoValue, NoValue, "shaken"),
       Step("strain", << "shaken" >>, "coupe_glass", "strainer", "poured") >>

Blend(body, ice) ==
    << Step("add", body \o ice, "blender", NoValue, "blend_base"),
       Step("spiritolo/blend", << "blend_base" >>, NoValue, "blender", "blended") >>

(* The seeded bug: the toppers go on the glass and not on the drink. *)
BuildOnGlass(body, toppers, ice) ==
    LET glass == IF ice = << >> THEN "highball_glass" ELSE "iced_glass"
    IN (IF ice = << >> THEN << >>
        ELSE << Step("add", ice, "highball_glass", NoValue, "iced_glass") >>)
       \o (IF body = << >> THEN << >> ELSE << Step("add", body, glass, NoValue, "built") >>)
       \o Chain(toppers, "spiritolo/top", glass, LAMBDA i : Topped[i])
Build(body, toppers, ice) ==
    LET glass == IF ice = << >> THEN "highball_glass" ELSE "iced_glass"
        drink == IF body = << >> THEN glass ELSE "built"
    IN (IF ice = << >> THEN << >>
        ELSE << Step("add", ice, "highball_glass", NoValue, "iced_glass") >>)
       \o (IF body = << >> THEN << >> ELSE << Step("add", body, glass, NoValue, "built") >>)
       \o Chain(toppers, "spiritolo/top", drink, LAMBDA i : Topped[i])

Equipment(technique) ==
    CASE technique = "stir"  -> {"mixing_glass", "bar_spoon", "rocks_glass"}
      [] technique = "shake" -> {"shaker", "strainer", "coupe_glass"}
      [] technique = "blend" -> {"blender"}
      [] technique = "build" -> {"highball_glass"}

(* The steps of a technique, and the garnish on what they end with. *)
build_steps(technique, prepared) ==
    LET body == InBucket(prepared, "body")
        ice == InBucket(prepared, "ice")
        tops == InBucket(SelectSeq(prepared, LAMBDA p : p.topper), "body")
        base == InBucket(SelectSeq(prepared, LAMBDA p : ~p.topper), "body")
        mixed == CASE technique = "stir"  -> Stir(body, ice)
                   [] technique = "shake" -> Shake(body, ice)
                   [] technique = "blend" -> Blend(body, ice)
                   [] technique = "build" -> Build(base, tops, ice)
    IN mixed \o garnish_steps(InBucket(prepared, "garnish"), mixed[Len(mixed)].result)

(* What RecipeGF's validator asks of a recipe: it has steps, a step takes
   ingredients and results of earlier steps, and pours onto equipment or an
   earlier result. *)
Valid(names, equipment, steps) ==
    /\ steps # << >>
    /\ \A i \in DOMAIN steps :
        LET earlier == {steps[j].result : j \in 1 .. i - 1}
        IN /\ ToSet(steps[i].input) \subseteq names \cup earlier
           /\ {steps[i].to, steps[i].using} \subseteq equipment \cup earlier \cup {NoValue}

Uncertain(reason) == [reason |-> reason, technique |-> NoValue, steps |-> << >>, prepared |-> << >>]

(* The reasons in the order of the checks; none of them is an Ok. *)
convert_recipe(name, text, ings) ==
    LET technique == infer_technique(text)
        prepared == prepare_ingredients(ings)
        steps == build_steps(technique, prepared)
    IN IF name = NoValue THEN Uncertain("no_slug")
       ELSE IF mentions_muddle(text) THEN Uncertain("muddle_unsupported")
       ELSE IF technique = NoValue THEN Uncertain("no_technique")
       ELSE IF FirstBlocker(ings) # NoValue THEN Uncertain(FirstBlocker(ings))
       ELSE IF InBucket(prepared, "body") = << >> THEN Uncertain("no_body")
       ELSE IF ~Valid({p.name : p \in ToSet(prepared)}, Equipment(technique), steps)
       THEN Uncertain("validation_failed")
       ELSE [reason |-> NoValue, technique |-> technique, prepared |-> prepared, steps |-> steps]

-----------------------------------------------------------------------------
(* The seeded bug: of the bundle it is only checked that it has steps. *)
generate_bundleUnvalidated(slug, slugs, equipment, steps) ==
    IF slug = NoValue THEN [error |-> "bundle_error", bundle |-> << >>]
    ELSE IF NoValue \in ToSet(slugs) THEN [error |-> "unresolved", bundle |-> << >>]
    ELSE IF steps = << >> THEN [error |-> "bundle_error", bundle |-> << >>]
    ELSE [error |-> NoValue, bundle |-> << slug, slugs, steps >>]
(* The bundle of a recipe from its rows: slugs of the ingredients as they
   resolve now, steps and equipment as they were stored. *)
generate_bundle(slug, slugs, equipment, steps) ==
    IF slug = NoValue THEN [error |-> "bundle_error", bundle |-> << >>]
    ELSE IF NoValue \in ToSet(slugs) THEN [error |-> "unresolved", bundle |-> << >>]
    ELSE IF ~Valid(ToSet(slugs), equipment, steps) THEN [error |-> "bundle_error", bundle |-> << >>]
    ELSE [error |-> NoValue, bundle |-> << slug, slugs, steps >>]
=============================================================================
