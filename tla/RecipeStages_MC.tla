-------------------------- MODULE RecipeStages_MC --------------------------
(***************************************************************************)
(* Two recipes over four nodes, and bounded inputs for the algorithms the  *)
(* stages are made of.                                                     *)
(***************************************************************************)
EXTENDS RecipeStages

MCLines ==
    << << << "2", "oz", "vermouth" >>, << "1", "oz", "gin" >> >>,
       << << "2", "oz", "gin" >>, << "garnish:", "lemon" >> >> >>
MCRevised ==
    << << << "2", "oz", "vermouth" >>, << "1", "oz", "gin" >>, << "1", "oz", "spirit" >> >>,
       << << "1", "oz", "vermouth" >> >> >>
MCText == << {"stir"}, {"shake"} >>
MCTitle == << "martini", "gin sour" >>
MCNames == {<< "gin" >>, << "vermouth" >>, << "lemon" >>, << "spirit" >>}
MCSlugs == {"spirit", "gin", "vermouth", "lemon"}
MCEdges == {<< "gin", "spirit" >>}
MCDefaultRole == [s \in MCSlugs |->
    CASE s = "vermouth" -> "modifier" [] s = "lemon" -> "garnish" [] OTHER -> Null]

(* The garnish is unknown or not reviewed yet, the rest resolved and live; the
   gins are one spirit. *)
MCInit ==
    /\ Init
    /\ \/ status["lemon"] = "absent" /\ resolution[<< "lemon" >>] = NoValue
       \/ status["lemon"] = "provisional" /\ resolution[<< "lemon" >>] = "lemon"
    /\ \A s \in MCSlugs \ {"lemon"} : status[s] = "live"
    /\ \A n \in MCNames \ {<< "lemon" >>} : resolution[n] = n[1]
    /\ cut = {"spirit", "vermouth"}
MCSpec == MCInit /\ [][Next]_vars

-----------------------------------------------------------------------------
(* What the lines of the parser's checks are put together from. *)
Amounts == {<< "1" >>, << "1", "to", "2" >>, << "1", "-", "2" >>}
Units == {<< "oz" >>, << "ounce" >>, << "fluid", "ounce" >>, << "pinch" >>}
Words == {<< "gin" >>, << "lemon" >>, << "fresh", "lemon" >>, << "egg", "whites" >>, << "amaro3" >>,
          << "port" >>, << "wedge" >>, << "lemon", "wheels," >>, << "gin", "(cold)" >>}

(* What is said of bounded inputs is checked once, before anything happened. *)
Fresh == passes = 0 /\ edits = 0

Ounces == {u \in Units : UnitSurface[u] = "oz"}
OneToTwo == << "1", "2", "oz" >>
Reads(line, w) ==
    LET p == parse(line)
    IN << p.amount, p.amount_max, p.unit >> = OneToTwo /\ p.name = TrimEnd(w)

(* Ways to write 1 to 2 ounces of w, with u and v for the unit: between two bare
   numbers `to', `or' or a dash, between a number with its unit and another only
   `to'.  A unit of one word may be doubled where it comes first, or glued to the
   first number, and to both numbers of `1- to 2-oz'. *)
Ranges(u, v, w) ==
    { << "1", sep, "2" >> \o u \o w : sep \in Separators }
    \cup { << "1" >> \o v \o << "to", "2" >> \o u \o w, << "1", "-", "to", "2", "-" >> \o u \o w }
    \cup (IF Len(u) > 1 \/ Len(v) > 1 THEN {}
          ELSE { << "1", sep, "2" >> \o v \o u \o w : sep \in Separators }
               \cup { << "1" >> \o v \o u \o << "to", "2" >> \o u \o w,
                      << "1", "-" >> \o v \o << "to", "2" >> \o u \o w })

(* A range in one of these forms is read as 1 to 2 ounces of the same thing.  The
   clean-up rewrites them all into one, in an order that matters, before a rule
   sees them. *)
RangesReadAlike ==
    Fresh => \A u, v \in Ounces, w \in Words : \A line \in Ranges(u, v, w) : Reads(line, w)

(* And forms as usual where the second number has the unit glued to it, where the
   second unit is doubled, or where `or' or a dash is between two measures. *)
OtherRanges(u, v, w) ==
    { << "1", "to", "2", "-" >> \o u \o w,
      << "1" >> \o v \o << "to", "2", "-" >> \o u \o w,
      << "1" >> \o v \o << "to", "2" >> \o u \o u \o w,
      << "1" >> \o v \o << "or", "2" >> \o u \o w,
      << "1" >> \o v \o << "-", "2" >> \o u \o w }
(* One would expect these to be read alike as well.  The code does not keep this:
   `1 oz to 2-oz gin' is one ounce of `to 2-oz gin'. *)
OtherRangesReadAlike ==
    Fresh => \A u, v \in Ounces, w \in Words : \A line \in OtherRanges(u, v, w) : Reads(line, w)

(* Two lines that ran into one, `0.5 oz Amaro3 oz Lambrusco'. *)
RunTogether ==
    UNION {{ a \o u \o w \o << "amaro3" >> \o v \o x, a \o u \o << "amaro3" >> \o v \o x,
             a \o w \o << "amaro3" >> \o v \o x } :
           a \in Amounts, u \in Units, v \in Units, w \in Words, x \in Words}

(* What follows the quantity begins with something that is counted in pieces, or
   ends with that or with something whole: `1 oz gin amaro3 oz egg whites'. *)
CountedAtAnEnd(line) ==
    LET t == StripAll(Rest(pre_clean(line)), Qualifiers)
    IN \E n \in 1 .. 2 : \/ First(t, n) \in DOMAIN CountSurface
                         \/ n <= Len(t) /\ Final(t, n) \in QtyNouns

(* Such a line abstains: none of the rules reads the first of the two out of it,
   or keeps it whole as an annotated name.  This is what the parser's comments
   and its test ask for, and two of its rules look for it; the two that count
   pieces do not, so the lines these take are excepted. *)
RunTogetherAbstains ==
    Fresh => \A line \in RunTogether : CountedAtAnEnd(line) \/ parse(line).rule = "unparseable"

(* The comments and the test have every such line abstain.  The code does not
   keep this: `1 oz gin amaro3 oz egg whites' is one `oz gin amaro3 oz egg whites'. *)
EveryRunTogetherAbstains ==
    Fresh => \A line \in RunTogether : parse(line).rule = "unparseable"

(* Bodies, toppers, ice and garnishes, three at most and one to drink. *)
Kinds == {<< "body", FALSE >>, << "body", TRUE >>, << "ice", FALSE >>, << "garnish", FALSE >>}
Preparations ==
    {p \in UNION {[1 .. n -> Kinds] : n \in 1 .. 3} : \E i \in DOMAIN p : p[i][1] = "body"}
Prepared(p) ==
    [i \in DOMAIN p |-> [name |-> << "a", "b", "c" >>[i], bucket |-> p[i][1], topper |-> p[i][2]]]

(* The steps of every technique are a recipe: each ingredient goes in once, no
   two results have one name, and what a step results in is taken up by a later
   one until the drink.  A base left behind under its topper is a plausible and
   wrong recipe the validator lets pass. *)
TemplatesAreSound ==
    Fresh => \A technique \in ToSet(Techniques), p \in Preparations :
        LET steps == build_steps(technique, Prepared(p))
            names == {Prepared(p)[i].name : i \in DOMAIN p}
            takers(x) == {i \in DOMAIN steps : x \in ToSet(steps[i].input) \cup {steps[i].to}}
        IN /\ Valid(names, Equipment(technique), steps)
           /\ \A n \in names : Cardinality(takers(n)) = 1
           /\ IsInjective([i \in DOMAIN steps |-> steps[i].result])
           /\ \A i \in DOMAIN steps : i < Len(steps) => \E j \in takers(steps[i].result) : j > i

(* Up to two ingredients, of every kind the keys tell apart. *)
Keyables ==
    [role : {"modifier", "garnish", "ice"}, antichain : {"gin", "lemon", Null}, defining : BOOLEAN]
IngredientLists == {<< >>} \cup {<< a >> : a \in Keyables} \cup {<< a, b >> : a, b \in Keyables}

(* The snapshot of a cluster is the cluster's: every recipe with its key
   overwrites it, so recipes with one key must have one snapshot, whatever
   garnishes and ice their keys leave out. *)
OneKeyOneSnapshot ==
    LET of == [l \in IngredientLists |-> compute_cluster_key("sour", l)]
    IN Fresh => \A k, l \in IngredientLists :
        of[k] = of[l] => ingredient_set_json(k) = ingredient_set_json(l)
=============================================================================
