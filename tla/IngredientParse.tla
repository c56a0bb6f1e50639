-------------------------- MODULE IngredientParse --------------------------
(***************************************************************************)
(* The ingredient line parser: the clean-up of a line, its quantity, the   *)
(* eight rules and the ladder that tries them in order.                    *)
(*                                                                         *)
(* A line is a sequence of tokens: numerals, words and a "-" that glues a  *)
(* numeral, a unit or a size to the numeral before it.  The characters of  *)
(* a word stand for themselves: a word with a comma, a parenthesis or a    *)
(* hyphen in it is a word of the set of that name.  The vocabularies are   *)
(* cut to one or two words of each table, with an overlap wherever two     *)
(* tables overlap.                                                         *)
(***************************************************************************)
EXTENDS Naturals, SequencesExt

None == "none"

(* Numerals: integers, decimals, fractions and mixed numbers alike. *)
Numerals == {"1", "2"}

(* What a measurement unit is called, and its name in the registry. *)
UnitSurface ==
    << "oz" >> :> "oz" @@ << "ounce" >> :> "oz" @@ << "fluid", "ounce" >> :> "oz"
    @@ << "pinch" >> :> "pinch" @@ << "bottle" >> :> "bottle"

(* Shapes and containers that count pieces. *)
CountSurface ==
    << "wedge" >> :> "wedge" @@ << "wheels" >> :> "wheel" @@ << "bottle" >> :> "bottle"

(* Whole things one counts, and what they are called then. *)
Countables ==
    << "lemon" >> :> << "lemon" >> @@ << "egg" >> :> << "egg" >>
    @@ << "egg", "whites" >> :> << "egg", "white" >>

(* Things nobody counts. *)
BareIngredients == {<< "ice" >>, << "gin" >>}

QtyNouns == DOMAIN CountSurface \cup DOMAIN Countables
KnownNouns == QtyNouns \cup BareIngredients
QtyNoun(span) == 
    IF span \in DOMAIN CountSurface THEN << CountSurface[span] >> ELSE Countables[span]

Qualifiers == {"fresh"}
UnitQualifiers == {"heaping"}
LexicalHeads == {"pinch"}
HyphenUnits == {"oz", "ounce"}
SizeWords == {"inch"}
Separators == {"to", "or", "-"}

(* Words by the characters in them. *)
WithComma == {"wheels,"}
InParens == {"(cold)"}
HyphenSizes == {"750-ml"}
WithHyphen == HyphenSizes \cup {"-"}
EndsInDigit == {"amaro3"}

(* A word without the punctuation at its end. *)
Plain(w) == IF w = "wheels," THEN "wheels" ELSE w

-----------------------------------------------------------------------------
(* The text ahead of a span of words: their number, or 0 when s does not
   start with a numeral.  A range takes three tokens. *)
IsNumeral(s, i) == i <= Len(s) /\ s[i] \in Numerals
IsRange(s) == IsNumeral(s, 1) /\ IsNumeral(s, 3) /\ s[2] \in Separators
QtyLength(s) == IF IsRange(s) THEN 3 ELSE IF IsNumeral(s, 1) THEN 1 ELSE 0
After(s, n) == SubSeq(s, n + 1, Len(s))
First(s, n) == SubSeq(s, 1, IF n < Len(s) THEN n ELSE Len(s))
Final(s, n) == SubSeq(s, Len(s) - n + 1, Len(s))

(* `1/4- to 1/2-inch': both dashes go. *)
HangingRange(s) ==
    IF /\ Len(s) >= 5 /\ s[2] = "-" /\ s[3] \in {"to", "or"} /\ s[5] = "-"
       /\ IsNumeral(s, 1) /\ IsNumeral(s, 4)
    THEN << s[1], s[3], s[4] >> \o After(s, 5)
    ELSE s

(* `1/2-ounce': the dash between a numeral and a unit goes. *)
HyphenQtyUnit(s) ==
    IF Len(s) >= 3 /\ IsNumeral(s, 1) /\ s[2] = "-" /\ s[3] \in HyphenUnits
    THEN << s[1] >> \o After(s, 2)
    ELSE s

(* `3-inch cinnamon stick': the numeral is the size of the thing, it goes. *)
LeadingSize(s) ==
    LET n == QtyLength(s)
        m == IF Len(s) > n /\ s[n + 1] = "-" THEN n + 1 ELSE n
    IN IF n > 0 /\ Len(s) > m + 1 /\ s[m + 1] \in SizeWords THEN After(s, m + 1) ELSE s

SameUnit(v, w) ==
    /\ << v >> \in DOMAIN UnitSurface /\ << w >> \in DOMAIN UnitSurface
    /\ UnitSurface[<< v >>] = UnitSurface[<< w >>]

(* `1/2 ounce ounce': the second unit goes. *)
DropDoubledUnit(s) ==
    LET n == QtyLength(s)
    IN IF n > 0 /\ Len(s) >= n + 2 /\ SameUnit(s[n + 1], s[n + 2])
       THEN RemoveAt(s, n + 2) ELSE s

(* `3/4 cup to 1 cup': where the first unit may end, and the second. *)
UnitRanges(s) ==
    {r \in (1 .. 2) \X (1 .. 2) :
        LET m == r[1]
            k == r[2]
            v == SubSeq(s, 2, m + 1)
            w == SubSeq(s, m + 4, m + k + 3)
        IN /\ Len(s) >= m + k + 3
           /\ IsNumeral(s, 1) /\ s[m + 2] = "to" /\ IsNumeral(s, m + 3)
           /\ {v, w} \subseteq DOMAIN UnitSurface /\ UnitSurface[v] = UnitSurface[w]}
(* The seeded bug: the upper end goes with the second unit. *)
CollapseUnitRangeLow(s) ==
    IF UnitRanges(s) = {} THEN s
    ELSE LET r == CHOOSE r \in UnitRanges(s) : TRUE
         IN First(s, r[1] + 1) \o After(s, r[1] + r[2] + 3)
CollapseUnitRange(s) ==
    IF UnitRanges(s) = {} THEN s
    ELSE LET r == CHOOSE r \in UnitRanges(s) : TRUE
         IN << s[1], "to", s[r[1] + 3] >> \o SubSeq(s, 2, r[1] + 1) \o After(s, r[1] + r[2] + 3)

TrimEnd(s) == IF s = << >> THEN s ELSE [s EXCEPT ![Len(s)] = Plain(@)]

pre_clean(s) ==
    TrimEnd(CollapseUnitRange(DropDoubledUnit(LeadingSize(HyphenQtyUnit(HangingRange(s))))))

-----------------------------------------------------------------------------
parse_quantity(s) ==
    [amount |-> s[1], amount_max |-> IF IsRange(s) THEN s[3] ELSE None]
HasQuantity(s) == QtyLength(s) > 0

(* The words behind the quantity. *)
Rest(s) == After(s, QtyLength(s))

HasWord(t, words) == \E i \in DOMAIN t : t[i] \in words
SizeWithin(t) ==
    \/ HasWord(t, HyphenSizes)
    \/ \E i \in DOMAIN t : IsNumeral(t, i) /\ i < Len(t) /\ t[i + 1] \in SizeWords \cup HyphenUnits

(* A word that ends in a digit before a unit: two lines run into one. *)
Concatenated(t) ==
    LET u == SelectSeq(t, LAMBDA w : w \notin InParens)
    IN \E i \in DOMAIN u : /\ u[i] \in EndsInDigit
                           /\ \E n \in 1 .. 2 : First(After(u, i), n) \in DOMAIN UnitSurface

(* How many leading words of t, 3 at most and never all, are a unit. *)
UnitLengths(t) == {n \in 1 .. 3 : n < Len(t) /\ First(t, n) \in DOMAIN UnitSurface}
Longest(ns) == CHOOSE n \in ns : \A m \in ns : m <= n
StripFirst(t, words) == IF t # << >> /\ t[1] \in words THEN Tail(t) ELSE t
(* The qualifiers ahead of t are all taken off. *)
StripAll(t, words) ==
    LET n == Longest({k \in 0 .. Len(t) : \A i \in 1 .. k : t[i] \in words}) IN After(t, n)

Parsed(rule, qty, unit, name) ==
    [rule |-> rule, amount |-> qty.amount, amount_max |-> qty.amount_max,
     unit |-> unit, name |-> name]
NoQty == [amount |-> None, amount_max |-> None]
Unparseable == Parsed("unparseable", NoQty, None, << >>)
Declined == Parsed("declined", NoQty, None, << >>)

garnish_prefix(s) ==
    IF Len(s) > 1 /\ s[1] = "garnish:" THEN Parsed("garnish_prefix", NoQty, None, Tail(s))
    ELSE Declined

topup(s) ==
    IF Len(s) > 1 /\ s[1] = "top up with" THEN Parsed("topup", NoQty, None, Tail(s))
    ELSE Declined

(* The seeded bug: without the guard for two lines in one. *)
qty_unitUnguarded(s) ==
    LET t == StripFirst(Rest(s), UnitQualifiers)
        n == Longest(UnitLengths(t))
    IN IF ~HasQuantity(s) \/ UnitLengths(t) = {}
       THEN Declined
       ELSE Parsed("qty_unit", parse_quantity(s), UnitSurface[First(t, n)], After(t, n))
qty_unit(s) ==
    LET t == StripFirst(Rest(s), UnitQualifiers)
        n == Longest(UnitLengths(t))
    IN IF ~HasQuantity(s) \/ UnitLengths(t) = {} \/ Concatenated(After(t, n))
       THEN Declined
       ELSE Parsed("qty_unit", parse_quantity(s), UnitSurface[First(t, n)], After(t, n))
(* A count noun at the end before one at the start, two words before one,
   and always with a name left over. *)
count_noun(s) ==
    LET t == StripAll(Rest(s), Qualifiers)
        tails == {n \in 1 .. 2 : n < Len(t) /\ Final(t, n) \in DOMAIN CountSurface}
        heads == {n \in 1 .. 2 : n < Len(t) /\ First(t, n) \in DOMAIN CountSurface}
        as(span, name) == Parsed("count_noun", parse_quantity(s), CountSurface[span], name)
    IN IF \/ ~HasQuantity(s) \/ t = << >> \/ t \in QtyNouns
          \/ HasWord(Rest(s), InParens \cup WithComma) \/ SizeWithin(Rest(s))
       THEN Declined
       ELSE IF tails # {}
       THEN as(Final(t, Longest(tails)), First(t, Len(t) - Longest(tails)))
       ELSE IF heads # {}
       THEN as(First(t, Longest(heads)), After(t, Longest(heads)))
       ELSE Declined

qty_known_noun(s) ==
    LET t == StripAll(Rest(s), Qualifiers)
        as(name) == Parsed("qty_known_noun", parse_quantity(s), "each", name)
    IN IF ~HasQuantity(s) \/ t = << >> THEN Declined
       ELSE IF t \in QtyNouns THEN as(QtyNoun(t))
       ELSE IF \E n \in 1 .. 2 : n <= Len(t) /\ Final(t, n) \in QtyNouns THEN as(t)
       ELSE Declined

qty_annotated_name(s) ==
    LET t == Rest(s)
    IN IF /\ HasQuantity(s) /\ (HasWord(t, InParens \cup WithComma \cup WithHyphen) \/ SizeWithin(t))
          /\ UnitLengths(t) = {} /\ ~Concatenated(t)
       THEN Parsed("qty_annotated_name", parse_quantity(s), None, t)
       ELSE Declined

lexical_qty(s) ==
    IF ~HasQuantity(s) /\ Len(s) > 1 /\ s[1] \in LexicalHeads
    THEN Parsed("lexical_qty", NoQty, UnitSurface[<< s[1] >>],
                IF Len(s) > 2 /\ s[2] = "of" THEN After(s, 2) ELSE Tail(s))
    ELSE Declined

no_qty_known_noun(s) ==
    LET plain == [i \in DOMAIN s |-> Plain(s[i])]
        window == First(StripFirst(plain, Qualifiers), 3)
        spans == {SubSeq(window, i, j) : i, j \in DOMAIN window}
    IN IF ~HasQuantity(s) /\ spans \cap KnownNouns # {}
       THEN Parsed("no_qty_known_noun", NoQty, None, s)
       ELSE Declined

(* The first rule of the ladder that does not decline. *)
parse(raw) ==
    LET s == pre_clean(raw)
        ladder == << garnish_prefix(s), topup(s), qty_unit(s), count_noun(s), qty_known_noun(s),
                     qty_annotated_name(s), lexical_qty(s), no_qty_known_noun(s), Unparseable >>
    IN IF s = << >> THEN Unparseable ELSE ladder[SelectInSeq(ladder, LAMBDA r : r # Declined)]
=============================================================================
