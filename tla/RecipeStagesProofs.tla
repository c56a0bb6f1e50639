--------------------------- MODULE RecipeStagesProofs ---------------------------
(******************************************************************************)
(* Theorems about RecipeStages and the converter it runs, for every set of    *)
(* recipes, lines, texts and titles, every vocabulary and every size of a     *)
(* chunk, for any edits of curators between the steps of a pass. The          *)
(* inductive invariant says what a row, a pin, a chunk in hand, a rolled-up   *)
(* ingredient and a cluster can be; each part is kept by its own argument, so *)
(* that each has a lemma of its own for a step. The last part is about the    *)
(* templates of the techniques: whatever goes into them, what they make is a  *)
(* recipe the validator lets pass.                                            *)
(******************************************************************************)
EXTENDS RecipeStages_MC, SequenceTheorems, WellFoundedInduction, TLAPS

(* The rows of a recipe are counted from 1, and the first has a name.         *)
RowsOK ==
    /\ DOMAIN rows = Recipes
    /\ \A r \in Recipes : rows[r] # << >> =>
         /\ \E n \in Nat : DOMAIN rows[r] = 1 .. n
         /\ 1 \in DOMAIN rows[r] /\ "name" \in DOMAIN rows[r][1]
(* If a pinned recipe has rows, its first row has the name of the pin.        *)
PinsOK == \A r \in Recipes : pin[r] # << >> /\ rows[r] # << >> => rows[r][1].name = pin[r]
(* A pass that is over, or has no recipe left, holds nothing of a chunk.      *)
ChunkOK ==
    /\ stage = Idle => todo = {}
    /\ todo = {} => gate = Unread /\ made = << >>
    /\ made # << >> => gate # Unread
(* The nodes of ingredients were rolled up in this pass, to what cache says.  *)
Rolled(ings, up) ==
    \A i \in DOMAIN ings : ings[i].antichain # Null =>
        ings[i].slug \in DOMAIN up /\ ings[i].antichain = up[ings[i].slug]
(* So are the ingredients of the chunk and of the recipes the pass has keyed. *)
CutOK ==
    /\ made # << >> => \A r \in Chunk : Keyable(r) => Rolled(made[r], cache)
    /\ \A r \in keyed : Rolled(identity[r].ingredients, cache)
(* An identity is of the recipe's title and the ingredients it was made from, *)
(* and its cluster has a row.                                                 *)
IdentitiesOK ==
    \A r \in Recipes : identity[r] # NoIdentity =>
        /\ identity[r].cluster = compute_cluster_key(Title[r], identity[r].ingredients)
        /\ identity[r].cluster \in DOMAIN clusters
(* The inductive invariant.                                                   *)
IInv == TypeOK /\ RowsOK /\ PinsOK /\ ChunkOK /\ CutOK /\ IdentitiesOK

-------------------------------------------------------------------------------
(* What the ledger may say of a recipe.                                       *)
Outcomes == {NoValue, "resolved", "abstain", "pending", "proposes_new", "failed"}

(* What is recorded of a chunk leaves the ledger typed.                       *)
LEMMA LedgerType ==
    ASSUME TypeOK, NEW outcome, stage \in Stages, \A r \in Chunk : outcome[r] \in Outcomes,
           ledger' = [ledger EXCEPT ![stage] =
                        [r \in Recipes |-> IF r \in Chunk THEN outcome[r] ELSE @[r]]]
    PROVE  ledger' \in [Stages -> [Recipes -> Outcomes]]
    BY DEF TypeOK, Outcomes

(* The recipes of a chunk are recipes the pass has still to take.             *)
LEMMA ChunkType == TypeOK => Chunk \subseteq todo /\ Chunk \subseteq Recipes
    BY DEF TypeOK, Chunk

(* The invariant holds at the start: no rows, no pins, nothing exported.      *)
LEMMA InitHolds == Init => IInv
<1> SUFFICES ASSUME Init PROVE IInv
    OBVIOUS
<1>1. TypeOK
    BY RecipeAssumption DEF Init, TypeOK, Outcomes, Idle, Unread, Stages
<1>2. RowsOK /\ PinsOK /\ ChunkOK /\ CutOK
    BY DEF Init, RowsOK, PinsOK, ChunkOK, CutOK
<1>3. IdentitiesOK
    BY DEF Init, IdentitiesOK
<1> QED BY <1>1, <1>2, <1>3 DEF IInv

(* Whatever a stage makes of a recipe, it is an outcome the ledger knows.     *)
LEMMA OutcomesAre ==
    \A r \in Recipes : {ConvertOutcome(r), ClusterOutcome(r), ExportOutcome(r)} \subseteq Outcomes
<1> TAKE r \in Recipes
<1>1. ConvertOutcome(r) \in Outcomes
    <2>1. CASE Provisional(r)
        BY <2>1 DEF ConvertOutcome, Outcomes
    <2>2. CASE ~Provisional(r)
        <3> DEFINE reason == Convert(r).reason
        <3> HIDE DEF reason
        <3>1. CASE reason = NoValue
            BY <2>2, <3>1 DEF ConvertOutcome, Outcomes, reason, NoValue
        <3>2. CASE reason \in {"unresolved_ingredient", "missing_roles"}
            BY <2>2, <3>2 DEF ConvertOutcome, Outcomes, reason, NoValue
        <3>3. CASE reason \notin {NoValue, "unresolved_ingredient", "missing_roles"}
            BY <2>2, <3>3 DEF ConvertOutcome, Outcomes, reason
        <3> QED BY <3>1, <3>2, <3>3
    <2> QED BY <2>1, <2>2
<1>2. ClusterOutcome(r) \in Outcomes
    BY DEF ClusterOutcome, Outcomes
<1>3. ExportOutcome(r) \in Outcomes
    <2> DEFINE error == Bundle(r).error
    <2> HIDE DEF error
    <2>1. CASE r \in gate
        BY <2>1 DEF ExportOutcome, Outcomes
    <2>2. CASE r \notin gate /\ error = NoValue
        BY <2>2 DEF ExportOutcome, Outcomes, error, NoValue
    <2>3. CASE r \notin gate /\ error = "unresolved"
        BY <2>3 DEF ExportOutcome, Outcomes, error, NoValue
    <2>4. CASE r \notin gate /\ error \notin {NoValue, "unresolved"}
        BY <2>4 DEF ExportOutcome, Outcomes, error
    <2> QED BY <2>1, <2>2, <2>3, <2>4
<1> QED BY <1>1, <1>2, <1>3

(* The parse stage keeps every variable typed.      *)
LEMMA ParseType == ASSUME TypeOK, ParseChunk PROVE TypeOK'
<1> DEFINE outcome == [r \in Recipes |-> IF \E i \in DOMAIN ParsedRows(r) : ParsedRows(r)[i].name # << >>
                                        THEN "resolved" ELSE "abstain"]
<1>1. /\ stage \in Stages /\ \A r \in Chunk : outcome[r] \in Outcomes
      /\ ledger' = [ledger EXCEPT ![stage] =
                       [r \in Recipes |-> IF r \in Chunk THEN outcome[r] ELSE @[r]]]
    BY ChunkType DEF ParseChunk, Record, Stages, Outcomes
<1> HIDE DEF outcome
<1>2. ledger' \in [Stages -> [Recipes -> Outcomes]]
    BY <1>1, LedgerType
<1>3. UNCHANGED << resolution, status, edges, cut, revised, pin, stage, keyed >> /\ todo' \subseteq todo /\ gate' = Unread
    BY DEF ParseChunk, Record
<1> QED BY <1>2, <1>3 DEF TypeOK, Outcomes, HasNode

(* So does the convert stage.                                                 *)
LEMMA ConvertType == ASSUME TypeOK, ConvertChunk PROVE TypeOK'
<1> DEFINE outcome == [r \in Recipes |-> ConvertOutcome(r)]
<1>1. /\ stage \in Stages /\ \A r \in Chunk : outcome[r] \in Outcomes
      /\ ledger' = [ledger EXCEPT ![stage] =
                       [r \in Recipes |-> IF r \in Chunk THEN outcome[r] ELSE @[r]]]
    BY ChunkType, OutcomesAre DEF ConvertChunk, Record, Stages
<1> HIDE DEF outcome
<1>2. ledger' \in [Stages -> [Recipes -> Outcomes]]
    BY <1>1, LedgerType
<1>3. UNCHANGED << resolution, status, edges, cut, revised, pin, stage, keyed >> /\ todo' \subseteq todo /\ gate' = Unread
    BY DEF ConvertChunk, Record
<1> QED BY <1>2, <1>3 DEF TypeOK, Outcomes, HasNode

(* So does the cluster stage; the recipes it has keyed are recipes.           *)
LEMMA ClusterType == ASSUME TypeOK, ClusterChunk PROVE TypeOK'
<1> DEFINE outcome == [r \in Recipes |-> ClusterOutcome(r)]
<1>1. /\ stage \in Stages /\ \A r \in Chunk : outcome[r] \in Outcomes
      /\ ledger' = [ledger EXCEPT ![stage] =
                       [r \in Recipes |-> IF r \in Chunk THEN outcome[r] ELSE @[r]]]
    BY ChunkType, OutcomesAre DEF ClusterChunk, Record, Stages
<1> HIDE DEF outcome
<1>2. ledger' \in [Stages -> [Recipes -> Outcomes]]
    BY <1>1, LedgerType
<1>3. UNCHANGED << resolution, status, edges, cut, revised, pin, stage >> /\ todo' \subseteq todo /\ gate' = Unread
      /\ keyed' \subseteq keyed \cup Chunk
    BY DEF ClusterChunk, Record
<1> QED BY <1>2, <1>3, ChunkType DEF TypeOK, Outcomes, HasNode

(* So does the export stage.                                                  *)
LEMMA ExportType == ASSUME TypeOK, ExportChunk PROVE TypeOK'
<1> DEFINE outcome == [r \in Recipes |-> ExportOutcome(r)]
<1>1. /\ stage \in Stages /\ \A r \in Chunk : outcome[r] \in Outcomes
      /\ ledger' = [ledger EXCEPT ![stage] =
                       [r \in Recipes |-> IF r \in Chunk THEN outcome[r] ELSE @[r]]]
    BY ChunkType, OutcomesAre DEF ExportChunk, Record, Stages
<1> HIDE DEF outcome
<1>2. ledger' \in [Stages -> [Recipes -> Outcomes]]
    BY <1>1, LedgerType
<1>3. UNCHANGED << resolution, status, edges, cut, revised, pin, stage, keyed >> /\ todo' \subseteq todo /\ gate' = Unread
    BY DEF ExportChunk, Record
<1> QED BY <1>2, <1>3 DEF TypeOK, Outcomes, HasNode

(* So do the steps of a pass that record nothing: its begin, what it reads for*)
(* a chunk, its end and its crash.                                            *)
LEMMA PassType ==
    ASSUME TypeOK, \/ \E s \in Stages : Begin(s)
                   \/ ReadGate \/ ReadIngredients \/ Finish \/ Crash
    PROVE  TypeOK'
<1>1. ASSUME NEW s \in Stages, Begin(s) PROVE TypeOK'
    BY <1>1 DEF Begin, TypeOK, data, HasNode
<1>2. CASE ReadGate \/ ReadIngredients
    BY <1>2, ChunkType DEF ReadGate, ReadIngredients, TypeOK, data, HasNode
<1>3. CASE Finish \/ Crash
    BY <1>3 DEF Finish, Crash, TypeOK, data, HasNode, Idle, Unread
<1> QED BY <1>1, <1>2, <1>3

(* The steps of curators, which come between any two steps of a pass.         *)
EditStep ==
    \/ \E n \in Names, s \in Slugs : Resolve(n, s) \/ Mint(n, s)
    \/ \E s \in Slugs : Promote(s) \/ Recut(s)
    \/ \E s, t \in Slugs : Merge(s, t)
    \/ \E r \in Recipes, n \in Names : FixRow(r, n)
    \/ \E r \in Recipes : Rewrite(r)

(* They keep every variable typed.                                            *)
LEMMA EditType == ASSUME TypeOK, EditStep PROVE TypeOK'
<1>1. ASSUME NEW n \in Names, NEW s \in Slugs, Resolve(n, s) \/ Mint(n, s) PROVE TypeOK'
    BY <1>1 DEF Resolve, Mint, Edit, TypeOK, pass, HasNode
<1>2. ASSUME NEW s \in Slugs, Promote(s) \/ Recut(s) PROVE TypeOK'
    BY <1>2 DEF Promote, Recut, Edit, TypeOK, pass, HasNode
<1>3. ASSUME NEW s \in Slugs, NEW t \in Slugs, Merge(s, t) PROVE TypeOK'
    BY <1>3 DEF Merge, Edit, TypeOK, pass, HasNode
<1>4. ASSUME NEW r \in Recipes, NEW n \in Names, FixRow(r, n) PROVE TypeOK'
    BY <1>4 DEF FixRow, Edit, TypeOK, pass, HasNode
<1>5. ASSUME NEW r \in Recipes, Rewrite(r) PROVE TypeOK'
    BY <1>5 DEF Rewrite, Edit, TypeOK, pass, HasNode
<1> QED BY <1>1, <1>2, <1>3, <1>4, <1>5 DEF EditStep

(* So does every step.                                                        *)
LEMMA TypeStep == TypeOK /\ [Next]_vars => TypeOK'
<1> SUFFICES ASSUME TypeOK, [Next]_vars PROVE TypeOK'
    OBVIOUS
<1>1. CASE UNCHANGED vars
    BY <1>1 DEF vars, data, pass, TypeOK, HasNode
<1>2. CASE Next
    BY <1>2, ParseType, ConvertType, ClusterType, ExportType, PassType, EditType DEF Next, Work, EditStep
<1> QED BY <1>1, <1>2
-------------------------------------------------------------------------------
(* The fresh rows of a recipe with lines: the first of them has a name, and   *)
(* with the pin put back it is the pinned one.                                *)
LEMMA FreshRows ==
    ASSUME NEW r \in Recipes, TypeOK, Pinned(r, ParsedRows(r)) # << >>
    PROVE  LET fresh == Pinned(r, ParsedRows(r))
           IN /\ \E n \in Nat : DOMAIN fresh = 1 .. n
              /\ 1 \in DOMAIN fresh /\ "name" \in DOMAIN fresh[1]
              /\ pin[r] # << >> => fresh[1].name = pin[r]
<1> DEFINE parsed == ParsedRows(r)
           fresh == Pinned(r, parsed)
<1>1. LinesOf(r) \in Seq(Seq(STRING))
    BY RecipeAssumption DEF LinesOf
<1>2. \E n \in Nat : DOMAIN parsed = 1 .. n
    BY <1>1 DEF ParsedRows
<1>3. parsed # << >> => 1 \in DOMAIN parsed
    BY <1>1 DEF ParsedRows
<1>4. 1 \in DOMAIN parsed => "name" \in DOMAIN parsed[1]
    BY DEF ParsedRows, RowOf
<1> HIDE DEF parsed
<1>5. CASE pin[r] = << >> \/ parsed = << >>
    BY <1>2, <1>3, <1>4, <1>5 DEF Pinned, parsed
<1>6. CASE ~(pin[r] = << >> \/ parsed = << >>)
    <2>1. fresh = [parsed EXCEPT ![1].name = pin[r]]
        BY <1>6 DEF Pinned
    <2>2. DOMAIN fresh = DOMAIN parsed /\ fresh[1] = [parsed[1] EXCEPT !.name = pin[r]]
        BY <1>3, <1>6, <2>1
    <2>3. fresh[1].name = pin[r] /\ "name" \in DOMAIN fresh[1]
        BY <1>3, <1>4, <1>6, <2>2
    <2> QED BY <1>2, <1>3, <1>6, <2>2, <2>3 DEF parsed
<1> QED BY <1>5, <1>6

(* No rows have no first row.                                                 *)
LEMMA NoRows == 1 \notin DOMAIN << >>
    OBVIOUS

(* Rows and pins stay as they are described: parsing writes a row for each    *)
(* line and puts the pin back on the first, and a fix changes row and pin at  *)
(* once.                                                                      *)
LEMMA RowsStep == ASSUME TypeOK, RowsOK, PinsOK, [Next]_vars PROVE RowsOK' /\ PinsOK'
<1>1. CASE ParseChunk
    <2>1. UNCHANGED pin
        BY <1>1 DEF ParseChunk
    <2>2. ASSUME NEW r \in Recipes, r \in Chunk
          PROVE  rows'[r] # << >> => /\ \E n \in Nat : DOMAIN rows'[r] = 1 .. n
                                     /\ 1 \in DOMAIN rows'[r] /\ "name" \in DOMAIN rows'[r][1]
                                     /\ pin[r] # << >> => rows'[r][1].name = pin[r]
        <3>1. rows'[r] = Pinned(r, ParsedRows(r))
            BY <1>1, <2>2 DEF ParseChunk
        <3> QED BY <3>1, FreshRows
    <2>3. ASSUME NEW r \in Recipes, r \notin Chunk PROVE rows'[r] = rows[r]
        BY <1>1, <2>3 DEF ParseChunk
    <2>4. DOMAIN rows' = Recipes
        BY <1>1 DEF ParseChunk
    <2> QED BY <2>1, <2>2, <2>3, <2>4 DEF RowsOK, PinsOK
<1>2. ASSUME NEW r \in Recipes, NEW n \in Names, FixRow(r, n) PROVE RowsOK' /\ PinsOK'
    <2>1. /\ rows[r] # << >> /\ 1 \in DOMAIN rows[r] /\ "name" \in DOMAIN rows[r][1]
          /\ \E k \in Nat : DOMAIN rows[r] = 1 .. k
        BY <1>2 DEF FixRow, RowsOK
    <2>2. rows' = [rows EXCEPT ![r][1].name = n] /\ pin' = [pin EXCEPT ![r] = n]
        BY <1>2 DEF FixRow
    <2>3. \A q \in Recipes \ {r} : rows'[q] = rows[q] /\ pin'[q] = pin[q]
        BY <2>2 DEF TypeOK
    <2>4. DOMAIN rows = Recipes /\ DOMAIN rows' = Recipes
        BY <2>2 DEF RowsOK
    <2>5. DOMAIN rows'[r] = DOMAIN rows[r] /\ rows'[r][1] = [rows[r][1] EXCEPT !.name = n] /\ pin'[r] = n
        BY <2>1, <2>2, <2>4 DEF TypeOK
    <2>6. rows'[r][1].name = n /\ "name" \in DOMAIN rows'[r][1] /\ 1 \in DOMAIN rows'[r] /\ rows'[r] # << >>
        BY <2>1, <2>5, NoRows
    <2> QED BY <2>1, <2>3, <2>4, <2>5, <2>6 DEF RowsOK, PinsOK
<1>3. CASE UNCHANGED << rows, pin >>
    BY <1>3 DEF RowsOK, PinsOK
<1>4. ParseChunk \/ (\E r \in Recipes, n \in Names : FixRow(r, n)) \/ UNCHANGED << rows, pin >>
    BY DEF Next, Work, vars, data, Begin, ConvertChunk, ReadGate, ReadIngredients, ClusterChunk, ExportChunk,
           Finish, Crash, Resolve, Mint, Promote, Merge, Recut, Rewrite
<1> QED BY <1>1, <1>2, <1>3, <1>4
-------------------------------------------------------------------------------
(* The four steps that record a chunk let go of what was read for it.         *)
LEMMA ChunkDone ==
    ASSUME ParseChunk \/ ConvertChunk \/ ClusterChunk \/ ExportChunk
    PROVE  gate' = Unread /\ made' = << >> /\ UNCHANGED stage /\ stage \in Stages
    BY DEF ParseChunk, ConvertChunk, ClusterChunk, ExportChunk, Record, Stages

(* What was read for a chunk is let go of with the chunk.                     *)
LEMMA ChunkStep == ASSUME TypeOK, ChunkOK, [Next]_vars PROVE ChunkOK'
<1>1. CASE ParseChunk \/ ConvertChunk \/ ClusterChunk \/ ExportChunk
    BY <1>1, ChunkDone DEF ChunkOK, Idle, Stages
<1>2. ASSUME NEW s \in Stages, Begin(s) PROVE ChunkOK'
    BY <1>2 DEF Begin, ChunkOK, Idle, Stages
<1>3. CASE ReadGate \/ ReadIngredients
    BY <1>3 DEF ReadGate, ReadIngredients, ChunkOK, Idle
<1>4. CASE Finish \/ Crash
    BY <1>4 DEF Finish, Crash, ChunkOK
<1>5. CASE UNCHANGED pass
    BY <1>5 DEF pass, ChunkOK
<1>6. EditStep \/ UNCHANGED vars => UNCHANGED pass
    BY DEF EditStep, Resolve, Mint, Promote, Recut, Merge, FixRow, Rewrite, Edit, vars
<1> QED BY <1>1, <1>2, <1>3, <1>4, <1>5, <1>6 DEF Next, Work, EditStep

(* ReadIngredients: every ingredient with a node is rolled up, in this chunk  *)
(* or by an earlier one of the pass, and the cache keeps the earlier.         *)
LEMMA CutRead == ASSUME TypeOK, CutOK, ReadIngredients PROVE CutOK'
<1> DEFINE keyable == {r \in Chunk : Keyable(r)}
           slugs == UNION {{SlugOf(row.name) : row \in ToSet(rows[r])} : r \in keyable}
<1>1. PICK up \in [Unrolled(slugs) -> Slugs] :
            /\ cache' = Filled(up, cache)
            /\ made' = [r \in Chunk |-> IF Keyable(r) THEN ClusterIngredients(r, Filled(up, cache)) ELSE << >>]
    BY DEF ReadIngredients
<1>2. /\ DOMAIN cache' = Unrolled(slugs) \cup DOMAIN cache
      /\ \A s \in DOMAIN cache : cache'[s] = cache[s]
    <2>1. DOMAIN up = Unrolled(slugs) /\ Unrolled(slugs) \cap DOMAIN cache = {}
        BY DEF Unrolled
    <2> HIDE DEF slugs
    <2>2. cache' = Filled(up, cache)
        BY <1>1
    <2> QED BY <2>1, <2>2 DEF Filled
<1>3. UNCHANGED << rows, resolution, status, identity, keyed, todo, gate >>
    BY DEF ReadIngredients, data
<1>4. Chunk' = Chunk /\ \A r : Keyable(r)' = Keyable(r)
    BY <1>3 DEF Chunk, Keyable
<1>5. ASSUME NEW r \in Chunk, Keyable(r) PROVE Rolled(made'[r], cache')
    <2>1. made'[r] = ClusterIngredients(r, cache')
        BY <1>1, <1>5
    <2>2. DOMAIN made'[r] = DOMAIN rows[r]
        BY <2>1 DEF ClusterIngredients
    <2>3. ASSUME NEW i \in DOMAIN rows[r], made'[r][i].antichain # Null
          PROVE  made'[r][i].slug \in DOMAIN cache' /\ made'[r][i].antichain = cache'[made'[r][i].slug]
        <3> DEFINE slug == SlugOf(rows[r][i].name)
        <3>1. made'[r][i].slug = slug /\ made'[r][i].antichain = IF HasNode(slug) THEN cache'[slug] ELSE Null
            BY <2>1 DEF ClusterIngredients
        <3>2. HasNode(slug)
            BY <2>3, <3>1
        <3>3. slug \in slugs
            BY <1>5 DEF ToSet
        <3>4. slug \in Unrolled(slugs) \cup DOMAIN cache
            BY <3>2, <3>3 DEF Unrolled
        <3> QED BY <1>2, <3>1, <3>2, <3>4
    <2> QED BY <2>2, <2>3 DEF Rolled
<1>6. ASSUME NEW r \in keyed PROVE Rolled(identity'[r].ingredients, cache')
    BY <1>2, <1>3, <1>6 DEF CutOK, Rolled
<1> QED BY <1>3, <1>4, <1>5, <1>6 DEF CutOK
(* The rolled-up nodes stay those of the cache: a pass adds to its cache and  *)
(* never changes what is in it, and starts with no recipe keyed.              *)
LEMMA CutStep == ASSUME TypeOK, ChunkOK, CutOK, [Next]_vars PROVE CutOK'
<1>1. CASE ReadIngredients
    BY <1>1, CutRead
<1>2. CASE ClusterChunk
    <2> DEFINE now == {r \in Chunk : Keyable(r)}
    <2>1. /\ made' = << >> /\ UNCHANGED cache /\ keyed' = keyed \cup now
          /\ identity' = [r \in Recipes |-> IF r \in now THEN Identity(r) ELSE identity[r]]
        BY <1>2 DEF ClusterChunk, Record
    <2>2. ASSUME NEW r \in now PROVE Rolled(identity'[r].ingredients, cache)
        <3>1. identity'[r].ingredients = made[r]
            BY <2>1, <2>2, ChunkType DEF Identity
        <3> QED BY <1>2, <2>2, <3>1 DEF ClusterChunk, CutOK
    <2>3. ASSUME NEW r \in keyed, r \notin now PROVE Rolled(identity'[r].ingredients, cache)
        BY <2>1, <2>3 DEF CutOK, TypeOK
    <2> QED BY <2>1, <2>2, <2>3 DEF CutOK
<1>3. CASE ParseChunk \/ ConvertChunk \/ ExportChunk
    <2>1. made' = << >>
        BY <1>3, ChunkDone
    <2>2. UNCHANGED << identity, keyed, cache >>
        BY <1>3 DEF ParseChunk, ConvertChunk, ExportChunk
    <2> QED BY <2>1, <2>2 DEF CutOK
<1>4. ASSUME NEW s \in Stages, Begin(s) PROVE CutOK'
    BY <1>4 DEF Begin, CutOK, ChunkOK
<1>5. CASE ReadGate
    BY <1>5 DEF ReadGate, data, CutOK, ChunkOK
<1>6. CASE Finish \/ Crash
    BY <1>6 DEF Finish, Crash, CutOK, ChunkOK
<1>7. CASE UNCHANGED << pass, identity >>
    BY <1>7 DEF pass, CutOK, Chunk, Keyable
<1>8. EditStep \/ UNCHANGED vars => UNCHANGED << pass, identity >>
    BY DEF EditStep, Resolve, Mint, Promote, Recut, Merge, FixRow, Rewrite, Edit, vars, data
<1> QED BY <1>1, <1>2, <1>3, <1>4, <1>5, <1>6, <1>7, <1>8 DEF Next, Work, EditStep

(* An identity stays the key of what it was made from, and the cluster stage  *)
(* inserts the row of a cluster with its first member; a recount drops no     *)
(* cluster.                                                                   *)
LEMMA IdentitiesStep == ASSUME TypeOK, IdentitiesOK, [Next]_vars PROVE IdentitiesOK'
<1>1. CASE ClusterChunk
    <2> DEFINE now == {r \in Chunk : Keyable(r)}
               keys == {Identity(r).cluster : r \in now}
    <2>1. identity' = [r \in Recipes |-> IF r \in now THEN Identity(r) ELSE identity[r]]
        BY <1>1 DEF ClusterChunk
    <2>2. DOMAIN clusters' = DOMAIN clusters \cup keys
        BY <1>1 DEF ClusterChunk, Filled
    <2>3. ASSUME NEW r \in now
          PROVE  /\ identity'[r].cluster = compute_cluster_key(Title[r], identity'[r].ingredients)
                 /\ identity'[r].cluster \in keys
        <3>1. identity'[r] = Identity(r)
            BY <2>1, ChunkType
        <3>2. Identity(r).cluster = compute_cluster_key(Title[r], Identity(r).ingredients)
            BY DEF Identity
        <3> QED BY <3>1, <3>2
    <2>4. ASSUME NEW r \in Recipes, r \notin now PROVE identity'[r] = identity[r]
        BY <2>1, <2>4
    <2> HIDE DEF now, keys
    <2> QED BY <2>2, <2>3, <2>4 DEF IdentitiesOK
<1>2. CASE Finish
    <2>1. UNCHANGED identity /\ DOMAIN clusters' = DOMAIN clusters
        BY <1>2 DEF Finish, Recounted
    <2> QED BY <2>1 DEF IdentitiesOK
<1>3. CASE UNCHANGED << identity, clusters >>
    BY <1>3 DEF IdentitiesOK
<1>4. ClusterChunk \/ Finish \/ UNCHANGED << identity, clusters >>
    BY DEF Next, Work, vars, data, Begin, ParseChunk, ConvertChunk, ReadGate, ReadIngredients, ExportChunk,
           Crash, Resolve, Mint, Promote, Merge, Recut, FixRow, Rewrite, Edit
<1> QED BY <1>1, <1>2, <1>3, <1>4
-------------------------------------------------------------------------------
(* The inductive invariant holds in every reachable state. *)
THEOREM Invariance == Spec => []IInv
<1>1. Init => IInv
    BY InitHolds
<1>2. IInv /\ [Next]_vars => IInv'
    BY TypeStep, RowsStep, ChunkStep, CutStep, IdentitiesStep DEF IInv
<1> QED BY <1>1, <1>2, PTL DEF Spec

(* Every variable keeps its type, in every reachable state.                   *)
THEOREM TypeCorrect == Spec => []TypeOK
<1>1. IInv => TypeOK
    BY DEF IInv
<1> QED BY <1>1, Invariance, PTL

(* What a curator fixed stands: however often a recipe is parsed again, of    *)
(* whatever lines, its first row has the name of the pin.                     *)
THEOREM PinnedStand == Spec => []PinnedRowsStand
<1>1. IInv => PinnedRowsStand
    BY DEF IInv, PinsOK, PinnedRowsStand
<1> QED BY <1>1, Invariance, PTL

(* The recipes keyed in one pass agree on what each node rolls up to, although*)
(* curators recut the taxonomy between its chunks.                            *)
THEOREM OneCut == Spec => []OnePassOneCut
<1>1. IInv => OnePassOneCut
    <2>1. SUFFICES ASSUME IInv, NEW q \in keyed, NEW r \in keyed,
                          NEW i \in DOMAIN identity[q].ingredients, NEW j \in DOMAIN identity[r].ingredients,
                          identity[q].ingredients[i].slug = identity[r].ingredients[j].slug,
                          identity[q].ingredients[i].antichain # Null,
                          identity[r].ingredients[j].antichain # Null
                   PROVE  identity[q].ingredients[i].antichain = identity[r].ingredients[j].antichain
        BY DEF OnePassOneCut, ToSet
    <2> QED BY <2>1 DEF IInv, CutOK, Rolled
<1> QED BY <1>1, Invariance, PTL

(* A key determines the snapshot, whatever ingredients it was made from.      *)
LEMMA KeyAndSnapshot ==
    ASSUME NEW title, NEW ings
    PROVE  DOMAIN compute_cluster_key(title, ings).ingredients = ingredient_set_json(ings)
<1> DEFINE kept == SelectSeq(ings, in_cluster_key)
           members == [i \in DOMAIN kept |-> << kept[i].role, kept[i].antichain >>]
<1>1. compute_cluster_key(title, ings).ingredients = ToBag(members)
    BY DEF compute_cluster_key, Keyed
<1>2. DOMAIN ToBag(members) = Range(members)
    BY DEF ToBag
<1>3. Range(members) = {<< kept[i].role, kept[i].antichain >> : i \in DOMAIN kept}
    BY DEF Range
<1>4. ingredient_set_json(ings) = {<< kept[i].role, kept[i].antichain >> : i \in DOMAIN kept}
    BY DEF ingredient_set_json
<1> QED BY <1>1, <1>2, <1>3, <1>4

(* Ingredients that give one cluster key give one snapshot, whatever the      *)
(* garnish and ice that a key leaves out, for lists of any length.            *)
THEOREM SnapshotOfKey ==
    ASSUME NEW title, NEW name, NEW k, NEW l, compute_cluster_key(title, k) = compute_cluster_key(name, l)
    PROVE  ingredient_set_json(k) = ingredient_set_json(l)
    BY KeyAndSnapshot

(* So the lists that the runs compare agree too.                              *)
THEOREM OneSnapshot == Spec => []OneKeyOneSnapshot
<1>1. OneKeyOneSnapshot
    BY SnapshotOfKey DEF OneKeyOneSnapshot
<1> QED BY <1>1, PTL

(* Two recipes of one cluster have one snapshot, whenever each was clustered. *)
ClusterHasOneSnapshot ==
    \A q, r \in Recipes :
        identity[q].cluster = identity[r].cluster =>
            ingredient_set_json(identity[q].ingredients) = ingredient_set_json(identity[r].ingredients)
(* Two recipes of one cluster have one snapshot, whichever pass put each of   *)
(* them there, so it does not matter which of them wrote the row of the       *)
(* cluster last.                                                              *)
THEOREM ClusterSnapshot == Spec => []ClusterHasOneSnapshot
<1>1. IInv => ClusterHasOneSnapshot
    <2> SUFFICES ASSUME IInv, NEW q \in Recipes, NEW r \in Recipes, identity[q].cluster = identity[r].cluster
                 PROVE  ingredient_set_json(identity[q].ingredients) = ingredient_set_json(identity[r].ingredients)
        BY DEF ClusterHasOneSnapshot
    <2>1. \A p \in Recipes : identity[p] # NoIdentity =>
            identity[p].cluster = compute_cluster_key(Title[p], identity[p].ingredients)
        BY DEF IInv, IdentitiesOK
    <2>2. NoIdentity.cluster = << >> /\ \A title, ings : compute_cluster_key(title, ings) # << >>
        <3>1. \A title, ings : "name" \in DOMAIN compute_cluster_key(title, ings)
            BY DEF compute_cluster_key
        <3>2. "name" \notin DOMAIN << >>
            OBVIOUS
        <3> QED BY <3>1, <3>2 DEF NoIdentity
    <2>3. CASE identity[q] # NoIdentity /\ identity[r] # NoIdentity
        BY <2>1, <2>3, SnapshotOfKey
    <2>4. CASE identity[q] = NoIdentity /\ identity[r] = NoIdentity
        BY <2>4
    <2> QED BY <2>1, <2>2, <2>3, <2>4
<1> QED BY <1>1, Invariance, PTL
-------------------------------------------------------------------------------
(* A set of natural numbers with a member has a least one.                    *)
LEMMA LeastIsIn == ASSUME NEW S \in SUBSET Nat, S # {} PROVE Min(S) \in S /\ \A y \in S : Min(S) <= y
<1>1. PICK x \in S : \A y \in S : ~(<< y, x >> \in OpToRel(<, Nat))
    BY NatLessThanWellFounded, WFMin
<1>2. \A y \in S : x <= y
    <2> TAKE y \in S
    <2>1. ~(y < x)
        BY <1>1 DEF OpToRel
    <2> QED BY <2>1
<1> QED BY <1>2 DEF Min

(* No first blocker, no blocker.                                              *)
LEMMA NothingBlocks ==
    ASSUME NEW n \in Nat, NEW ings, DOMAIN ings = 1 .. n, FirstBlocker(ings) = NoValue
    PROVE  \A k \in 1 .. n : Blocker(ings, k) = NoValue
<1> DEFINE found == [k \in DOMAIN ings |-> Blocker(ings, k)]
           places == {k \in 1 .. Len(found) : found[k] # NoValue}
<1>1. Len(found) = n
    OBVIOUS
<1>2. places \in SUBSET Nat /\ \A k \in places : Blocker(ings, k) # NoValue
    BY <1>1
<1>3. SelectInSeq(found, LAMBDA b : b # NoValue) = IF places # {} THEN Min(places) ELSE 0
    BY DEF SelectInSeq
<1>4. FirstBlocker(ings) = LET i == SelectInSeq(found, LAMBDA b : b # NoValue)
                           IN IF i = 0 THEN NoValue ELSE Blocker(ings, i)
    BY DEF FirstBlocker
<1>5. CASE places # {}
    <2>1. 0 \notin places
        OBVIOUS
    <2> HIDE DEF places
    <2>2. Min(places) \in places
        BY <1>2, <1>5, LeastIsIn
    <2> QED BY <1>2, <1>3, <1>4, <1>5, <2>1, <2>2
<1>6. CASE places = {}
    BY <1>1, <1>6
<1> QED BY <1>5, <1>6
(* The rows of a recipe are counted from 1.                                   *)
LEMMA RowsAreCounted == ASSUME RowsOK, NEW r \in Recipes PROVE \E n \in Nat : DOMAIN rows[r] = 1 .. n
<1>1. CASE rows[r] = << >>
    BY <1>1
<1>2. CASE rows[r] # << >>
    BY <1>2 DEF RowsOK
<1> QED BY <1>1, <1>2

(* An Ok of the converter means that no ingredient was in the way.            *)
LEMMA OkHasSlugs ==
    ASSUME RowsOK, NEW r \in Recipes, Convert(r).reason = NoValue
    PROVE  \A i \in DOMAIN rows[r] : SlugOf(rows[r][i].name) # NoValue
<1> DEFINE ings == SourceIngredients(r)
<1>1. PICK n \in Nat : DOMAIN rows[r] = 1 .. n
    BY RowsAreCounted
<1>2. DOMAIN ings = 1 .. n /\ \A i \in 1 .. n : ings[i].slug = SlugOf(rows[r][i].name)
    BY <1>1 DEF SourceIngredients
<1> HIDE DEF ings
<1>3. FirstBlocker(ings) = NoValue
    <2>1. Convert(r) = convert_recipe(Title[r], Text[r], ings)
        BY DEF Convert, ings
    <2>2. Uncertain(FirstBlocker(ings)).reason = FirstBlocker(ings)
        BY DEF Uncertain
    <2> QED BY <2>1, <2>2 DEF convert_recipe, Uncertain, NoValue
<1>4. \A i \in 1 .. n : Blocker(ings, i) = NoValue
    BY <1>2, <1>3, NothingBlocks
<1>5. \A i \in 1 .. n : ings[i].slug # NoValue
    BY <1>4 DEF Blocker, NoValue
<1> QED BY <1>1, <1>2, <1>5

(* A conversion is stored only of a recipe none of whose names is resolved to *)
(* a node under review and each of whose names has a slug (not null; whether  *)
(* its node is still there is not asked).                                     *)
THEOREM ConversionsWait == Spec => ConvertWaitsForReview
<1> DEFINE Waits ==
        \A r \in Recipes : plan'[r] # plan[r] =>
            /\ ~Provisional(r)
            /\ \A row \in ToSet(rows[r]) : SlugOf(row.name) # NoValue
<1>1. IInv /\ [Next]_vars => [Waits]_vars
    <2> SUFFICES ASSUME IInv, Next PROVE Waits
        OBVIOUS
    <2>1. CASE ConvertChunk
        <3> SUFFICES ASSUME NEW r \in Recipes, plan'[r] # plan[r]
                     PROVE  ~Provisional(r) /\ \A row \in ToSet(rows[r]) : SlugOf(row.name) # NoValue
            OBVIOUS
        <3>1. ConvertOutcome(r) = "resolved"
            BY <2>1 DEF ConvertChunk
        <3>2. ~Provisional(r)
            BY <3>1 DEF ConvertOutcome
        <3>3. Convert(r).reason = NoValue
            <4>1. CASE Convert(r).reason \in {"unresolved_ingredient", "missing_roles"}
                BY <3>1, <3>2, <4>1 DEF ConvertOutcome, NoValue
            <4>2. CASE Convert(r).reason \notin {NoValue, "unresolved_ingredient", "missing_roles"}
                BY <3>1, <3>2, <4>2 DEF ConvertOutcome
            <4> QED BY <4>1, <4>2
        <3> QED BY <3>2, <3>3, OkHasSlugs DEF IInv, ToSet
    <2>2. CASE UNCHANGED plan
        BY <2>2
    <2>3. ConvertChunk \/ UNCHANGED plan
        BY DEF Next, Work, data, Begin, ParseChunk, ReadGate, ReadIngredients, ClusterChunk, ExportChunk,
               Finish, Crash, Resolve, Mint, Promote, Merge, Recut, FixRow, Rewrite, Edit
    <2> QED BY <2>1, <2>2, <2>3
<1> QED BY <1>1, Invariance, PTL DEF Spec, ConvertWaitsForReview
-------------------------------------------------------------------------------
(* What the steps before the i-th result in.                                  *)
Earlier(steps, i) == {steps[j].result : j \in 1 .. i - 1}
(* What the validator asks of a step, given the results so far.               *)
Fits(step, names, equipment, earlier) ==
    /\ ToSet(step.input) \subseteq names \cup earlier
    /\ step.to \in equipment \cup earlier \cup {NoValue}
    /\ step.using \in equipment \cup earlier \cup {NoValue}
(* A step takes up a result that it lists or that it pours onto.              *)
Takes(step, result) == result \in ToSet(step.input) \cup {step.to}
(* Each step fits, and what a step results in goes into a later one: nothing  *)
(* is left behind on the counter but the drink.                               *)
Flows(names, equipment, steps) ==
    \A i \in 1 .. Len(steps) :
        /\ Fits(steps[i], names, equipment, Earlier(steps, i))
        /\ i < Len(steps) => \E j \in i + 1 .. Len(steps) : Takes(steps[j], steps[i].result)

(* A chain of steps, each onto the result of the one before, the first onto   *)
(* the given start, each with ingredients of the recipe.                      *)
Follows(names, start, chain) ==
    \A i \in 1 .. Len(chain) :
        /\ ToSet(chain[i].input) \subseteq names /\ chain[i].using = NoValue
        /\ chain[i].to = IF i = 1 THEN start ELSE chain[i - 1].result

(* Steps that flow and end with the start of a chain flow on through the      *)
(* chain; with no steps before it the chain starts on a piece of equipment.   *)
LEMMA FlowsOn ==
    ASSUME NEW S, NEW mixed \in Seq(S), NEW chain \in Seq(S), NEW names, NEW equipment, NEW start,
           Flows(names, equipment, mixed), Follows(names, start, chain),
           IF mixed = << >> THEN start \in equipment ELSE start = mixed[Len(mixed)].result
    PROVE  Flows(names, equipment, mixed \o chain)
<1> DEFINE m == Len(mixed)
           n == Len(chain)
           steps == mixed \o chain
<1>1. m \in Nat /\ n \in Nat /\ Len(steps) = m + n
    OBVIOUS
<1>2. /\ \A i \in 1 .. m : steps[i] = mixed[i]
      /\ \A i \in 1 .. n : steps[m + i] = chain[i]
    OBVIOUS
<1>3. IF m = 0 THEN start \in equipment ELSE start = mixed[m].result
    OBVIOUS
<1>4. \A i \in 1 .. m :
        /\ Fits(mixed[i], names, equipment, Earlier(mixed, i))
        /\ i < m => \E j \in i + 1 .. m : Takes(mixed[j], mixed[i].result)
    BY DEF Flows
<1>5. \A i \in 1 .. n :
        /\ ToSet(chain[i].input) \subseteq names /\ chain[i].using = NoValue
        /\ chain[i].to = IF i = 1 THEN start ELSE chain[i - 1].result
    BY DEF Follows
<1> HIDE DEF steps, m, n
<1>6. ASSUME NEW i \in 1 .. m PROVE Fits(steps[i], names, equipment, Earlier(steps, i))
    <2>1. Earlier(steps, i) = Earlier(mixed, i)
        <3>1. \A j \in 1 .. i - 1 : steps[j] = mixed[j]
            BY <1>1, <1>2
        <3> QED BY <3>1 DEF Earlier
    <2>2. steps[i] = mixed[i]
        BY <1>2
    <2> QED BY <1>4, <2>1, <2>2
<1>7. ASSUME NEW i \in 1 .. n PROVE Fits(steps[m + i], names, equipment, Earlier(steps, m + i))
    <2>1. /\ ToSet(steps[m + i].input) \subseteq names /\ steps[m + i].using = NoValue
          /\ steps[m + i].to = IF i = 1 THEN start ELSE chain[i - 1].result
        BY <1>2, <1>5
    <2>2. steps[m + i].to \in equipment \cup Earlier(steps, m + i)
        <3>1. CASE i = 1 /\ m = 0
            BY <1>3, <2>1, <3>1
        <3>2. CASE i = 1 /\ m # 0
            <4>1. start = steps[m].result /\ m \in 1 .. (m + i) - 1
                BY <1>1, <1>2, <1>3, <3>2
            <4> QED BY <2>1, <3>2, <4>1 DEF Earlier
        <3>3. CASE i # 1
            <4> DEFINE k == i - 1
            <4>1. k \in 1 .. n /\ m + k \in 1 .. (m + i) - 1
                BY <1>1, <3>3
            <4>2. steps[m + k] = chain[k] /\ steps[m + i].to = chain[k].result
                BY <1>2, <2>1, <3>3, <4>1
            <4> HIDE DEF k
            <4> QED BY <4>1, <4>2 DEF Earlier
        <3> QED BY <1>1, <3>1, <3>2, <3>3
    <2> QED BY <2>1, <2>2 DEF Fits
<1>8. ASSUME NEW i \in 1 .. m + n, i < m + n
      PROVE  \E j \in i + 1 .. m + n : Takes(steps[j], steps[i].result)
    <2>1. CASE i < m
        <3>1. i \in 1 .. m
            BY <1>1, <2>1
        <3>2. PICK j \in i + 1 .. m : Takes(mixed[j], mixed[i].result)
            BY <1>4, <2>1, <3>1
        <3>3. j \in 1 .. m /\ j \in i + 1 .. m + n
            BY <1>1, <3>1
        <3> QED BY <1>2, <3>1, <3>2, <3>3
    <2>2. CASE i = m
        <3>1. m \in 1 .. m /\ 1 \in 1 .. n /\ i + 1 \in i + 1 .. m + n
            BY <1>1, <1>8, <2>2
        <3>2. steps[i] = mixed[m] /\ steps[i + 1] = chain[1]
            BY <1>2, <2>2, <3>1
        <3>3. chain[1].to = start /\ start = mixed[m].result
            BY <1>1, <1>3, <1>5, <3>1
        <3>4. Takes(steps[i + 1], steps[i].result)
            BY <3>2, <3>3 DEF Takes
        <3> QED BY <3>1, <3>4
    <2>3. CASE i > m
        <3>1. PICK k \in 1 .. n : i = m + k /\ k + 1 \in 1 .. n /\ k + 1 # 1 /\ i + 1 = m + (k + 1)
            <4>1. i - m \in 1 .. n /\ i = m + (i - m) /\ (i - m) + 1 \in 1 .. n /\ i + 1 = m + ((i - m) + 1)
                  /\ (i - m) + 1 # 1
                BY <1>1, <1>8, <2>3
            <4> QED BY <4>1
        <3>2. steps[m + k] = chain[k] /\ steps[m + (k + 1)] = chain[k + 1]
            BY <1>2, <3>1
        <3>3. chain[k + 1].to = chain[k].result
            <4>1. (k + 1) - 1 = k
                BY <1>1
            <4> QED BY <1>5, <3>1, <4>1
        <3>4. Takes(steps[i + 1], steps[i].result)
            BY <3>1, <3>2, <3>3 DEF Takes
        <3>5. i + 1 \in i + 1 .. m + n
            BY <1>1, <1>8
        <3> QED BY <3>4, <3>5
    <2> QED BY <1>1, <2>1, <2>2, <2>3
<1>9. ASSUME NEW i \in 1 .. m + n PROVE Fits(steps[i], names, equipment, Earlier(steps, i))
    <2>1. CASE i <= m
        <3>1. i \in 1 .. m
            BY <1>1, <2>1
        <3> QED BY <1>6, <3>1
    <2>2. CASE i > m
        <3>1. PICK k \in 1 .. n : i = m + k
            <4>1. i - m \in 1 .. n /\ i = m + (i - m)
                BY <1>1, <2>2
            <4> QED BY <4>1
        <3> QED BY <1>7, <3>1
    <2> QED BY <1>1, <2>1, <2>2
<1>10. Flows(names, equipment, steps)
    BY <1>1, <1>8, <1>9 DEF Flows
<1> QED BY <1>10 DEF steps

(* A function on the first n numbers is a sequence of n.                      *)
LEMMA IsChain == ASSUME NEW S, NEW n \in Nat, NEW f \in [1 .. n -> S] PROVE f \in Seq(S) /\ Len(f) = n
    OBVIOUS

(* The members of a sequence are of its set.                                  *)
LEMMA ToSetOf == ASSUME NEW S, NEW s \in Seq(S) PROVE ToSet(s) \subseteq S
    BY DEF ToSet
(* A sequence of one has one member.                                          *)
LEMMA ToSetOfOne == ASSUME NEW x PROVE ToSet(<< x >>) = {x}
    BY DEF ToSet

(* The chains of the converter, with their results in a function.             *)
ChainOf(names, verb, start, result) ==
    [i \in DOMAIN names |->
        Step(verb, << names[i] >>, IF i = 1 THEN start ELSE result[i - 1], NoValue, result[i])]

(* They are chains, one step for each name.                                   *)
LEMMA ChainFollows ==
    ASSUME NEW names, NEW added \in Seq(names), NEW verb, NEW start, NEW result
    PROVE  /\ Follows(names, start, ChainOf(added, verb, start, result))
           /\ \E S : ChainOf(added, verb, start, result) \in Seq(S)
           /\ Len(ChainOf(added, verb, start, result)) = Len(added)
<1> DEFINE chain == ChainOf(added, verb, start, result)
           n == Len(added)
           S == {chain[i] : i \in 1 .. n}
<1>1. n \in Nat /\ DOMAIN added = 1 .. n /\ \A i \in 1 .. n : added[i] \in names
    OBVIOUS
<1>2. chain = [i \in 1 .. n |-> Step(verb, << added[i] >>, IF i = 1 THEN start ELSE result[i - 1],
                                     NoValue, result[i])]
    BY <1>1 DEF ChainOf
<1> HIDE DEF n, chain
<1>3. chain \in [1 .. n -> S]
    BY <1>2
<1> HIDE DEF S
<1>4. chain \in Seq(S) /\ Len(chain) = n
    BY <1>1, <1>3, IsChain
<1>5. ASSUME NEW i \in 1 .. n
      PROVE  /\ ToSet(chain[i].input) \subseteq names /\ chain[i].using = NoValue
             /\ chain[i].to = IF i = 1 THEN start ELSE chain[i - 1].result
    <2>1. /\ chain[i].input = << added[i] >> /\ chain[i].using = NoValue
          /\ chain[i].to = IF i = 1 THEN start ELSE result[i - 1]
        BY <1>2 DEF Step
    <2>2. ToSet(<< added[i] >>) = {added[i]}
        BY ToSetOfOne
    <2>3. i # 1 => i - 1 \in 1 .. n
        BY <1>1
    <2>4. i # 1 => chain[i - 1].result = result[i - 1]
        BY <1>2, <2>3 DEF Step
    <2> QED BY <1>1, <2>1, <2>2, <2>4
<1>6. Follows(names, start, chain)
    BY <1>4, <1>5 DEF Follows
<1>7. \E T : chain \in Seq(T)
    BY <1>4
<1> QED BY <1>4, <1>6, <1>7 DEF chain, n

(* Joined sequences of steps, written out: two and one.                       *)
LEMMA TwoAndOne == ASSUME NEW a, NEW b, NEW c PROVE << a, b >> \o << c >> = << a, b, c >>
<1> DEFINE S == {a, b, c}
           s == << a, b >> \o << c >>
           t == << a, b, c >>
<1>1. << a, b >> \in Seq(S) /\ << c >> \in Seq(S) /\ t \in Seq(S)
    OBVIOUS
<1>2. Len(<< a, b >>) = 2 /\ Len(<< c >>) = 1 /\ Len(t) = 3
    OBVIOUS
<1>3. /\ s \in Seq(S) /\ Len(s) = 3
      /\ \A i \in 1 .. 3 : s[i] = IF i <= 2 THEN << a, b >>[i] ELSE << c >>[i - 2]
    BY <1>1, <1>2, ConcatProperties
<1>4. s[1] = t[1] /\ s[2] = t[2] /\ s[3] = t[3]
    <2>1. s[1] = << a, b >>[1] /\ s[2] = << a, b >>[2] /\ s[3] = << c >>[1]
        BY <1>3
    <2> QED BY <2>1
<1> HIDE DEF s, t
<1>5. \A i \in 1 .. 3 : s[i] = t[i]
    BY <1>4
<1>6. s = t
    BY <1>1, <1>2, <1>3, <1>5, SeqEqual
<1> QED BY <1>6 DEF s, t

(* Three and one.                                                             *)
LEMMA ThreeAndOne == ASSUME NEW a, NEW b, NEW c, NEW d PROVE << a, b, c >> \o << d >> = << a, b, c, d >>
<1> DEFINE S == {a, b, c, d}
           s == << a, b, c >> \o << d >>
           t == << a, b, c, d >>
<1>1. << a, b, c >> \in Seq(S) /\ << d >> \in Seq(S) /\ t \in Seq(S)
    OBVIOUS
<1>2. Len(<< a, b, c >>) = 3 /\ Len(<< d >>) = 1 /\ Len(t) = 4
    OBVIOUS
<1>3. /\ s \in Seq(S) /\ Len(s) = 4
      /\ \A i \in 1 .. 4 : s[i] = IF i <= 3 THEN << a, b, c >>[i] ELSE << d >>[i - 3]
    BY <1>1, <1>2, ConcatProperties
<1>4. s[1] = t[1] /\ s[2] = t[2] /\ s[3] = t[3] /\ s[4] = t[4]
    <2>1. /\ s[1] = << a, b, c >>[1] /\ s[2] = << a, b, c >>[2] /\ s[3] = << a, b, c >>[3]
          /\ s[4] = << d >>[1]
        BY <1>3
    <2> QED BY <2>1
<1> HIDE DEF s, t
<1>5. \A i \in 1 .. 4 : s[i] = t[i]
    BY <1>4
<1>6. s = t
    BY <1>1, <1>2, <1>3, <1>5, SeqEqual
<1> QED BY <1>6 DEF s, t

(* One and one.                                                               *)
LEMMA OneAndOne == ASSUME NEW a, NEW b PROVE << a >> \o << b >> = << a, b >>
<1> DEFINE S == {a, b}
           s == << a >> \o << b >>
           t == << a, b >>
<1>1. << a >> \in Seq(S) /\ << b >> \in Seq(S) /\ t \in Seq(S)
    OBVIOUS
<1>2. Len(<< a >>) = 1 /\ Len(<< b >>) = 1 /\ Len(t) = 2
    OBVIOUS
<1>3. /\ s \in Seq(S) /\ Len(s) = 2
      /\ \A i \in 1 .. 2 : s[i] = IF i <= 1 THEN << a >>[i] ELSE << b >>[i - 1]
    BY <1>1, <1>2, ConcatProperties
<1>4. s[1] = t[1] /\ s[2] = t[2]
    <2>1. s[1] = << a >>[1] /\ s[2] = << b >>[1]
        BY <1>3
    <2> QED BY <2>1
<1> HIDE DEF s, t
<1>5. \A i \in 1 .. 2 : s[i] = t[i]
    BY <1>4
<1>6. s = t
    BY <1>1, <1>2, <1>3, <1>5, SeqEqual
<1> QED BY <1>6 DEF s, t

(* Two and none.                                                              *)
LEMMA NothingBetween == ASSUME NEW a, NEW b PROVE << a, b >> \o << >> = << a, b >>
<1>1. << a, b >> \in Seq({a, b})
    OBVIOUS
<1> QED BY <1>1, ConcatEmptySeq

(* When three steps flow.                                                     *)
LEMMA ThreeFlow ==
    ASSUME NEW names, NEW equipment, NEW a, NEW b, NEW c,
           Fits(a, names, equipment, {}), Fits(b, names, equipment, {a.result}),
           Fits(c, names, equipment, {a.result, b.result}),
           Takes(b, a.result) \/ Takes(c, a.result), Takes(c, b.result)
    PROVE  Flows(names, equipment, << a, b, c >>)
<1> DEFINE s == << a, b, c >>
<1>1. Len(s) = 3 /\ s[1] = a /\ s[2] = b /\ s[3] = c
    OBVIOUS
<1> HIDE DEF s
<1>2. Earlier(s, 1) = {} /\ Earlier(s, 2) = {a.result} /\ Earlier(s, 3) = {a.result, b.result}
    <2>1. 1 .. 1 - 1 = {} /\ 1 .. 2 - 1 = {1} /\ 1 .. 3 - 1 = {1, 2}
        OBVIOUS
    <2> QED BY <1>1, <2>1 DEF Earlier
<1>3. 1 .. 3 = {1, 2, 3} /\ 2 \in 1 + 1 .. 3 /\ 3 \in 1 + 1 .. 3 /\ 3 \in 2 + 1 .. 3
    OBVIOUS
<1>4. \A i \in 1 .. 3 : Fits(s[i], names, equipment, Earlier(s, i))
    BY <1>1, <1>2, <1>3 DEF Fits
<1>5. \A i \in 1 .. 3 : i < 3 => \E j \in i + 1 .. 3 : Takes(s[j], s[i].result)
    BY <1>1, <1>3
<1> QED BY <1>1, <1>4, <1>5 DEF Flows, s

(* When two do.                                                               *)
LEMMA TwoFlow ==
    ASSUME NEW names, NEW equipment, NEW a, NEW b,
           Fits(a, names, equipment, {}), Fits(b, names, equipment, {a.result}), Takes(b, a.result)
    PROVE  Flows(names, equipment, << a, b >>)
<1> DEFINE s == << a, b >>
<1>1. Len(s) = 2 /\ s[1] = a /\ s[2] = b
    OBVIOUS
<1> HIDE DEF s
<1>2. Earlier(s, 1) = {} /\ Earlier(s, 2) = {a.result}
    <2>1. 1 .. 1 - 1 = {} /\ 1 .. 2 - 1 = {1}
        OBVIOUS
    <2> QED BY <1>1, <2>1 DEF Earlier
<1>3. 1 .. 2 = {1, 2} /\ 2 \in 1 + 1 .. 2
    OBVIOUS
<1>4. \A i \in 1 .. 2 : Fits(s[i], names, equipment, Earlier(s, i))
    BY <1>1, <1>2, <1>3 DEF Fits
<1>5. \A i \in 1 .. 2 : i < 2 => \E j \in i + 1 .. 2 : Takes(s[j], s[i].result)
    BY <1>1, <1>3
<1> QED BY <1>1, <1>4, <1>5 DEF Flows, s

(* When four do, of which the last takes up two results.                      *)
LEMMA FourFlow ==
    ASSUME NEW names, NEW equipment, NEW a, NEW b, NEW c, NEW d,
           Fits(a, names, equipment, {}), Fits(b, names, equipment, {a.result}),
           Fits(c, names, equipment, {a.result, b.result}),
           Fits(d, names, equipment, {a.result, b.result, c.result}),
           Takes(b, a.result), Takes(d, b.result), Takes(d, c.result)
    PROVE  Flows(names, equipment, << a, b, c, d >>)
<1> DEFINE s == << a, b, c, d >>
<1>1. Len(s) = 4 /\ s[1] = a /\ s[2] = b /\ s[3] = c /\ s[4] = d
    OBVIOUS
<1> HIDE DEF s
<1>2. /\ Earlier(s, 1) = {} /\ Earlier(s, 2) = {a.result} /\ Earlier(s, 3) = {a.result, b.result}
      /\ Earlier(s, 4) = {a.result, b.result, c.result}
    <2>1. 1 .. 1 - 1 = {} /\ 1 .. 2 - 1 = {1} /\ 1 .. 3 - 1 = {1, 2} /\ 1 .. 4 - 1 = {1, 2, 3}
        OBVIOUS
    <2> QED BY <1>1, <2>1 DEF Earlier
<1>3. /\ 1 .. 4 = {1, 2, 3, 4} /\ 2 \in 1 + 1 .. 4 /\ 4 \in 2 + 1 .. 4 /\ 4 \in 3 + 1 .. 4
    OBVIOUS
<1>4. \A i \in 1 .. 4 : Fits(s[i], names, equipment, Earlier(s, i))
    BY <1>1, <1>2, <1>3 DEF Fits
<1>5. \A i \in 1 .. 4 : i < 4 => \E j \in i + 1 .. 4 : Takes(s[j], s[i].result)
    BY <1>1, <1>3
<1> QED BY <1>1, <1>4, <1>5 DEF Flows, s

(* Steps that flow, of which there are some.                                  *)
Mixture(names, equipment, steps) ==
    /\ \E S : steps \in Seq(S)
    /\ steps # << >>
    /\ Flows(names, equipment, steps)

(* The template of a stirred drink flows, over ice or without.                *)
LEMMA StirFlows ==
    ASSUME NEW names, NEW body \in Seq(names), NEW ice \in Seq(names)
    PROVE  Mixture(names, Equipment("stir"), Stir(body, ice))
<1>1. ToSet(body) \subseteq names /\ ToSet(ice) \subseteq names
    BY ToSetOf
<1> DEFINE equipment == Equipment("stir")
           glass == IF ice = << >> THEN "rocks_glass" ELSE "iced_glass"
           add == Step("add", body, "mixing_glass", NoValue, "combined")
           stir == Step("stir", << "combined" >>, NoValue, "bar_spoon", "stirred")
           iced == Step("add", ice, "rocks_glass", NoValue, "iced_glass")
           strain == Step("strain", << "stirred" >>, glass, "bar_spoon", "poured")
<1>2. equipment = {"mixing_glass", "bar_spoon", "rocks_glass"}
    BY DEF Equipment
<1>3. /\ add.input = body /\ add.to = "mixing_glass" /\ add.using = NoValue /\ add.result = "combined"
      /\ stir.input = << "combined" >> /\ stir.to = NoValue /\ stir.using = "bar_spoon" /\ stir.result = "stirred"
      /\ iced.input = ice /\ iced.to = "rocks_glass" /\ iced.using = NoValue /\ iced.result = "iced_glass"
      /\ strain.input = << "stirred" >> /\ strain.to = glass /\ strain.using = "bar_spoon"
    BY DEF Step
<1>4. Stir(body, ice) = << add, stir >> \o (IF ice = << >> THEN << >> ELSE << iced >>) \o << strain >>
    BY DEF Stir
<1>5. ToSet(<< "combined" >>) = {"combined"} /\ ToSet(<< "stirred" >>) = {"stirred"}
    BY ToSetOfOne
<1> HIDE DEF equipment, add, stir, iced, strain
<1>6. CASE ice = << >>
    <2>1. Stir(body, ice) = << add, stir, strain >>
        BY <1>4, <1>6, NothingBetween, TwoAndOne
    <2>2. Flows(names, equipment, << add, stir, strain >>)
        <3>1. Fits(add, names, equipment, {})
            BY <1>1, <1>2, <1>3 DEF Fits
        <3>2. Fits(stir, names, equipment, {add.result})
            BY <1>2, <1>3, <1>5 DEF Fits
        <3>3. Fits(strain, names, equipment, {add.result, stir.result})
            BY <1>2, <1>3, <1>5, <1>6 DEF Fits
        <3>4. Takes(stir, add.result) /\ Takes(strain, stir.result)
            BY <1>3, <1>5 DEF Takes
        <3> QED BY <3>1, <3>2, <3>3, <3>4, ThreeFlow
    <2>3. << add, stir, strain >> \in Seq({add, stir, strain}) /\ << add, stir, strain >> # << >>
        OBVIOUS
    <2> QED BY <2>1, <2>2, <2>3 DEF Mixture, equipment
<1>7. CASE ice # << >>
    <2>1. Stir(body, ice) = << add, stir, iced, strain >>
        <3>1. Stir(body, ice) = << add, stir >> \o << iced >> \o << strain >>
            BY <1>4, <1>7
        <3>2. << add, stir >> \o << iced >> = << add, stir, iced >>
            BY TwoAndOne
        <3>3. << add, stir, iced >> \o << strain >> = << add, stir, iced, strain >>
            BY ThreeAndOne
        <3> QED BY <3>1, <3>2, <3>3
    <2>2. Flows(names, equipment, << add, stir, iced, strain >>)
        <3>1. Fits(add, names, equipment, {})
            BY <1>1, <1>2, <1>3 DEF Fits
        <3>2. Fits(stir, names, equipment, {add.result})
            BY <1>2, <1>3, <1>5 DEF Fits
        <3>3. Fits(iced, names, equipment, {add.result, stir.result})
            BY <1>1, <1>2, <1>3 DEF Fits
        <3>4. Fits(strain, names, equipment, {add.result, stir.result, iced.result})
            BY <1>2, <1>3, <1>5, <1>7 DEF Fits
        <3>5. Takes(stir, add.result) /\ Takes(strain, stir.result) /\ Takes(strain, iced.result)
            BY <1>3, <1>5, <1>7 DEF Takes
        <3> QED BY <3>1, <3>2, <3>3, <3>4, <3>5, FourFlow
    <2>3. << add, stir, iced, strain >> \in Seq({add, stir, iced, strain}) /\ << add, stir, iced, strain >> # << >>
        OBVIOUS
    <2> QED BY <2>1, <2>2, <2>3 DEF Mixture, equipment
<1> QED BY <1>6, <1>7

(* So does that of a shaken one.                                              *)
LEMMA ShakeFlows ==
    ASSUME NEW names, NEW body \in Seq(names), NEW ice \in Seq(names)
    PROVE  Mixture(names, Equipment("shake"), Shake(body, ice))
<1>1. ToSet(body \o ice) \subseteq names
    <2>1. body \o ice \in Seq(names)
        OBVIOUS
    <2> QED BY <2>1, ToSetOf
<1> DEFINE equipment == Equipment("shake")
           add == Step("add", body \o ice, "shaker", NoValue, "combined")
           shake == Step("shake", << "combined" >>, NoValue, NoValue, "shaken")
           strain == Step("strain", << "shaken" >>, "coupe_glass", "strainer", "poured")
<1>2. equipment = {"shaker", "strainer", "coupe_glass"}
    BY DEF Equipment
<1>3. /\ add.input = body \o ice /\ add.to = "shaker" /\ add.using = NoValue /\ add.result = "combined"
      /\ shake.input = << "combined" >> /\ shake.to = NoValue /\ shake.using = NoValue /\ shake.result = "shaken"
      /\ strain.input = << "shaken" >> /\ strain.to = "coupe_glass" /\ strain.using = "strainer"
    BY DEF Step
<1>4. Shake(body, ice) = << add, shake, strain >>
    BY DEF Shake
<1>5. ToSet(<< "combined" >>) = {"combined"} /\ ToSet(<< "shaken" >>) = {"shaken"}
    BY ToSetOfOne
<1> HIDE DEF equipment, add, shake, strain
<1>6. Flows(names, equipment, << add, shake, strain >>)
    <2>1. Fits(add, names, equipment, {})
        BY <1>1, <1>2, <1>3 DEF Fits
    <2>2. Fits(shake, names, equipment, {add.result})
        BY <1>2, <1>3, <1>5 DEF Fits
    <2>3. Fits(strain, names, equipment, {add.result, shake.result})
        BY <1>2, <1>3, <1>5 DEF Fits
    <2>4. Takes(shake, add.result) /\ Takes(strain, shake.result)
        BY <1>3, <1>5 DEF Takes
    <2> QED BY <2>1, <2>2, <2>3, <2>4, ThreeFlow
<1>7. << add, shake, strain >> \in Seq({add, shake, strain}) /\ << add, shake, strain >> # << >>
    OBVIOUS
<1> QED BY <1>4, <1>6, <1>7 DEF Mixture, equipment

(* And that of a blended one.                                                 *)
LEMMA BlendFlows ==
    ASSUME NEW names, NEW body \in Seq(names), NEW ice \in Seq(names)
    PROVE  Mixture(names, Equipment("blend"), Blend(body, ice))
<1>1. ToSet(body \o ice) \subseteq names
    <2>1. body \o ice \in Seq(names)
        OBVIOUS
    <2> QED BY <2>1, ToSetOf
<1> DEFINE equipment == Equipment("blend")
           add == Step("add", body \o ice, "blender", NoValue, "blend_base")
           blend == Step("spiritolo/blend", << "blend_base" >>, NoValue, "blender", "blended")
<1>2. equipment = {"blender"}
    BY DEF Equipment
<1>3. /\ add.input = body \o ice /\ add.to = "blender" /\ add.using = NoValue /\ add.result = "blend_base"
      /\ blend.input = << "blend_base" >> /\ blend.to = NoValue /\ blend.using = "blender"
    BY DEF Step
<1>4. Blend(body, ice) = << add, blend >>
    BY DEF Blend
<1>5. ToSet(<< "blend_base" >>) = {"blend_base"}
    BY ToSetOfOne
<1> HIDE DEF equipment, add, blend
<1>6. Flows(names, equipment, << add, blend >>)
    <2>1. Fits(add, names, equipment, {})
        BY <1>1, <1>2, <1>3 DEF Fits
    <2>2. Fits(blend, names, equipment, {add.result})
        BY <1>2, <1>3, <1>5 DEF Fits
    <2>3. Takes(blend, add.result)
        BY <1>3, <1>5 DEF Takes
    <2> QED BY <2>1, <2>2, <2>3, TwoFlow
<1>7. << add, blend >> \in Seq({add, blend}) /\ << add, blend >> # << >>
    OBVIOUS
<1> QED BY <1>4, <1>6, <1>7 DEF Mixture, equipment

(* When one step flows.                                                       *)
LEMMA OneFlows ==
    ASSUME NEW names, NEW equipment, NEW a, Fits(a, names, equipment, {})
    PROVE  Flows(names, equipment, << a >>)
<1> DEFINE s == << a >>
<1>1. Len(s) = 1 /\ s[1] = a /\ 1 .. 1 = {1} /\ 1 .. 1 - 1 = {}
    OBVIOUS
<1> HIDE DEF s
<1>2. Earlier(s, 1) = {}
    BY <1>1 DEF Earlier
<1>3. Fits(s[1], names, equipment, Earlier(s, 1))
    BY <1>1, <1>2 DEF Fits
<1> QED BY <1>1, <1>3 DEF Flows, s

(* Steps and a chain on them are a mixture, unless both are empty.            *)
LEMMA Continued ==
    ASSUME NEW names, NEW equipment, NEW mixed, NEW chain, NEW start,
           \E S : mixed \in Seq(S), \E S : chain \in Seq(S),
           Flows(names, equipment, mixed), Follows(names, start, chain),
           IF mixed = << >> THEN start \in equipment ELSE start = mixed[Len(mixed)].result,
           mixed # << >> \/ chain # << >>
    PROVE  Mixture(names, equipment, mixed \o chain)
<1>1. PICK S : mixed \in Seq(S)
    OBVIOUS
<1>2. PICK T : chain \in Seq(T)
    OBVIOUS
<1> DEFINE U == S \cup T
<1>3. mixed \in Seq(U) /\ chain \in Seq(U)
    BY <1>1, <1>2
<1> HIDE DEF U
<1>4. mixed \o chain \in Seq(U) /\ mixed \o chain # << >>
    BY <1>3, ConcatEqualIffEmpty
<1>5. Flows(names, equipment, mixed \o chain)
    BY <1>3, FlowsOn
<1> QED BY <1>4, <1>5 DEF Mixture

(* The template of a built drink flows: with ice or without, with a base or   *)
(* with nothing but toppers on the glass or the ice.                          *)
LEMMA BuildFlows ==
    ASSUME NEW names, NEW base \in Seq(names), NEW tops \in Seq(names), NEW ice \in Seq(names),
           base # << >> \/ tops # << >>
    PROVE  Mixture(names, Equipment("build"), Build(base, tops, ice))
<1>1. ToSet(base) \subseteq names /\ ToSet(ice) \subseteq names
    BY ToSetOf
<1> DEFINE equipment == Equipment("build")
           glass == IF ice = << >> THEN "highball_glass" ELSE "iced_glass"
           drink == IF base = << >> THEN glass ELSE "built"
           iced == Step("add", ice, "highball_glass", NoValue, "iced_glass")
           built == Step("add", base, glass, NoValue, "built")
           first == IF ice = << >> THEN << >> ELSE << iced >>
           second == IF base = << >> THEN << >> ELSE << built >>
           chain == ChainOf(tops, "spiritolo/top", drink, Topped)
<1>2. equipment = {"highball_glass"}
    BY DEF Equipment
<1>3. /\ iced.input = ice /\ iced.to = "highball_glass" /\ iced.using = NoValue /\ iced.result = "iced_glass"
      /\ built.input = base /\ built.to = glass /\ built.using = NoValue /\ built.result = "built"
    BY DEF Step
<1>4. Build(base, tops, ice) = first \o second \o chain
    BY DEF Build, Chain, ChainOf
<1>5. /\ Follows(names, drink, chain) /\ \E S : chain \in Seq(S)
      /\ Len(chain) = Len(tops)
    BY ChainFollows
<1>6. tops # << >> => chain # << >>
    <2>1. Len(<< >>) = 0 /\ (tops # << >> => Len(tops) # 0)
        OBVIOUS
    <2> QED BY <1>5, <2>1
<1> HIDE DEF equipment, iced, built, chain
<1>7. Fits(iced, names, equipment, {})
    BY <1>1, <1>2, <1>3 DEF Fits
<1>8. CASE ice = << >> /\ base = << >>
    <2>1. first \o second = << >> /\ drink \in equipment
        <3>1. << >> \in Seq({}) /\ << >> \o << >> = << >>
            BY ConcatEmptySeq
        <3> QED BY <1>2, <1>8, <3>1
    <2>2. Flows(names, equipment, << >>) /\ << >> \in Seq({})
        BY DEF Flows
    <2> HIDE DEF first, second, drink
    <2> QED BY <1>4, <1>5, <1>6, <1>8, <2>1, <2>2, Continued DEF equipment
<1>9. CASE ice # << >> /\ base = << >>
    <2>1. first \o second = << iced >> /\ << iced >> \in Seq({iced}) /\ drink = iced.result
        <3>1. << iced >> \in Seq({iced})
            OBVIOUS
        <3>2. << iced >> \o << >> = << iced >>
            BY <3>1, ConcatEmptySeq
        <3> QED BY <1>3, <1>9, <3>1, <3>2
    <2>2. Flows(names, equipment, << iced >>)
        BY <1>7, OneFlows
    <2>3. << iced >> # << >> /\ << iced >>[Len(<< iced >>)] = iced
        OBVIOUS
    <2> HIDE DEF first, second, drink
    <2> QED BY <1>4, <1>5, <2>1, <2>2, <2>3, Continued DEF equipment
<1>10. CASE ice = << >> /\ base # << >>
    <2>1. first \o second = << built >> /\ << built >> \in Seq({built}) /\ drink = built.result
        <3>1. << built >> \in Seq({built})
            OBVIOUS
        <3>2. << >> \o << built >> = << built >>
            BY <3>1, ConcatEmptySeq
        <3> QED BY <1>3, <1>10, <3>1, <3>2
    <2>2. Flows(names, equipment, << built >>)
        <3>1. Fits(built, names, equipment, {})
            BY <1>1, <1>2, <1>3, <1>10 DEF Fits
        <3> QED BY <3>1, OneFlows
    <2>3. << built >> # << >> /\ << built >>[Len(<< built >>)] = built
        OBVIOUS
    <2> HIDE DEF first, second, drink
    <2> QED BY <1>4, <1>5, <2>1, <2>2, <2>3, Continued DEF equipment
<1>11. CASE ice # << >> /\ base # << >>
    <2>1. first \o second = << iced, built >> /\ drink = built.result
        <3>1. << iced >> \o << built >> = << iced, built >>
            BY OneAndOne
        <3> QED BY <1>3, <1>11, <3>1
    <2>2. Flows(names, equipment, << iced, built >>)
        <3>1. Fits(built, names, equipment, {iced.result})
            BY <1>1, <1>2, <1>3, <1>11 DEF Fits
        <3>2. Takes(built, iced.result)
            BY <1>3, <1>11 DEF Takes
        <3> QED BY <1>7, <3>1, <3>2, TwoFlow
    <2>3. /\ << iced, built >> \in Seq({iced, built}) /\ << iced, built >> # << >>
          /\ << iced, built >>[Len(<< iced, built >>)] = built
        OBVIOUS
    <2> HIDE DEF first, second, drink
    <2> QED BY <1>4, <1>5, <2>1, <2>2, <2>3, Continued DEF equipment
<1> QED BY <1>8, <1>9, <1>10, <1>11

(* The garnish is a chain on whatever drink it starts with.                   *)
LEMMA Garnishes ==
    ASSUME NEW names, NEW garnishes \in Seq(names), NEW start
    PROVE  Follows(names, start, garnish_steps(garnishes, start)) /\ \E S : garnish_steps(garnishes, start) \in Seq(S)
<1> DEFINE n == Len(garnishes)
           name(i) == IF i = n THEN "finished_drink" ELSE Garnished[i]
           result == [i \in 1 .. n |-> name(i)]
<1>1. n \in Nat /\ DOMAIN garnishes = 1 .. n
    OBVIOUS
<1>2. garnish_steps(garnishes, start) =
        [i \in 1 .. n |-> Step("garnish", << garnishes[i] >>, IF i = 1 THEN start ELSE name(i - 1), NoValue, name(i))]
    BY <1>1 DEF garnish_steps, Chain
<1> HIDE DEF n, name
<1>3. \A i \in 1 .. n : result[i] = name(i) /\ (i # 1 => result[i - 1] = name(i - 1))
    BY <1>1
<1> HIDE DEF result
<1>4. garnish_steps(garnishes, start) = ChainOf(garnishes, "garnish", start, result)
    BY <1>1, <1>2, <1>3 DEF ChainOf
<1> QED BY <1>4, ChainFollows

(* The ingredients of a recipe in their buckets: each bucket holds names of   *)
(* the recipe, and a body has a topper or a base. Every list that             *)
(* prepare_ingredients returns is like this, by what SelectSeq does; the      *)
(* theorems below assume it because the provers cannot unfold SelectSeq.      *)
Sorted(names, prepared) ==
    LET tops == InBucket(SelectSeq(prepared, LAMBDA p : p.topper), "body")
        base == InBucket(SelectSeq(prepared, LAMBDA p : ~p.topper), "body")
    IN /\ \A bucket \in {"body", "ice", "garnish"} : InBucket(prepared, bucket) \in Seq(names)
       /\ tops \in Seq(names) /\ base \in Seq(names)
       /\ InBucket(prepared, "body") # << >> => tops # << >> \/ base # << >>

(* Whatever the technique and however many ingredients there are, build_steps *)
(* makes steps that flow to the drink: each one takes what there is by then,  *)
(* pours onto equipment of the technique or an earlier result, and none but   *)
(* the last results in something no later step takes up.                      *)
THEOREM StepsFlow ==
    ASSUME NEW names, NEW prepared, Sorted(names, prepared), InBucket(prepared, "body") # << >>,
           NEW technique \in {"stir", "shake", "blend", "build"}
    PROVE  LET steps == build_steps(technique, prepared)
           IN Mixture(names, Equipment(technique), steps)
<1> DEFINE body == InBucket(prepared, "body")
           ice == InBucket(prepared, "ice")
           garnishes == InBucket(prepared, "garnish")
           tops == InBucket(SelectSeq(prepared, LAMBDA p : p.topper), "body")
           base == InBucket(SelectSeq(prepared, LAMBDA p : ~p.topper), "body")
           mixed == CASE technique = "stir"  -> Stir(body, ice)
                      [] technique = "shake" -> Shake(body, ice)
                      [] technique = "blend" -> Blend(body, ice)
                      [] technique = "build" -> Build(base, tops, ice)
           steps == build_steps(technique, prepared)
<1>1. /\ body \in Seq(names) /\ ice \in Seq(names) /\ garnishes \in Seq(names)
      /\ tops \in Seq(names) /\ base \in Seq(names) /\ (tops # << >> \/ base # << >>)
    BY DEF Sorted
<1>2. steps = mixed \o garnish_steps(garnishes, mixed[Len(mixed)].result)
    BY DEF build_steps
<1> HIDE DEF body, ice, garnishes, tops, base, steps
<1>3. Mixture(names, Equipment(technique), mixed)
    <2>1. CASE technique = "stir"
        BY <1>1, <2>1, StirFlows
    <2>2. CASE technique = "shake"
        BY <1>1, <2>2, ShakeFlows
    <2>3. CASE technique = "blend"
        BY <1>1, <2>3, BlendFlows
    <2>4. CASE technique = "build"
        BY <1>1, <2>4, BuildFlows
    <2> QED BY <2>1, <2>2, <2>3, <2>4
<1> HIDE DEF mixed
<1> DEFINE start == mixed[Len(mixed)].result
           chain == garnish_steps(garnishes, start)
<1>4. Follows(names, start, chain) /\ \E S : chain \in Seq(S)
    BY <1>1, Garnishes
<1>5. /\ \E S : mixed \in Seq(S)
      /\ mixed # << >> /\ Flows(names, Equipment(technique), mixed)
    BY <1>3 DEF Mixture
<1> HIDE DEF chain
<1>6. Mixture(names, Equipment(technique), mixed \o chain)
    BY <1>4, <1>5, Continued
<1> QED BY <1>2, <1>6 DEF Mixture, steps, chain

(* Steps that flow pass the validator.                                        *)
LEMMA FlowsAreValid ==
    ASSUME NEW S, NEW steps \in Seq(S), NEW names, NEW equipment, steps # << >>, Flows(names, equipment, steps)
    PROVE  Valid(names, equipment, steps)
<1>1. DOMAIN steps = 1 .. Len(steps)
    OBVIOUS
<1> QED BY <1>1 DEF Flows, Fits, Earlier, Valid

(* A technique that was inferred is one of the four with a template.          *)
LEMMA InferredIsKnown ==
    ASSUME NEW text, infer_technique(text) # NoValue
    PROVE  infer_technique(text) \in {"stir", "shake", "blend", "build"}
<1> DEFINE places == {i \in 1 .. Len(Techniques) : Techniques[i] \in text}
           i == SelectInSeq(Techniques, LAMBDA t : t \in text)
<1>1. i = IF places # {} THEN Min(places) ELSE 0
    BY DEF SelectInSeq
<1>2. infer_technique(text) = IF i = 0 THEN NoValue ELSE Techniques[i]
    BY DEF infer_technique
<1>3. Len(Techniques) = 4
    BY DEF Techniques
<1> HIDE DEF i
<1>4. i \in 1 .. 4
    <2>1. places \in SUBSET Nat /\ places \subseteq 1 .. 4
        BY <1>3
    <2> HIDE DEF places
    <2>2. places # {}
        BY <1>1, <1>2
    <2>3. Min(places) \in places
        BY <2>1, <2>2, LeastIsIn
    <2> QED BY <1>1, <2>1, <2>2, <2>3
<1>5. i # 0 /\ i \in {1, 2, 3, 4}
    BY <1>4
<1> QED BY <1>2, <1>5 DEF Techniques

(* The converter never reports validation_failed: the check it makes of its   *)
(* own steps (convert_recipe's last) is a guard that no recipe trips, for a   *)
(* validator that asks what Valid says.                                       *)
THEOREM NothingFailsValidation ==
    ASSUME NEW name, NEW text, NEW ings,
           LET prepared == prepare_ingredients(ings) IN Sorted({p.name : p \in ToSet(prepared)}, prepared)
    PROVE  convert_recipe(name, text, ings).reason # "validation_failed"
<1> DEFINE technique == infer_technique(text)
           prepared == prepare_ingredients(ings)
           names == {p.name : p \in ToSet(prepared)}
           steps == build_steps(technique, prepared)
           blocker == FirstBlocker(ings)
<1>1. blocker # "validation_failed"
    <2>1. \A k : Blocker(ings, k) # "validation_failed"
        BY DEF Blocker, NoValue
    <2> QED BY <2>1 DEF FirstBlocker, NoValue
<1>2. technique # NoValue /\ InBucket(prepared, "body") # << >> => Valid(names, Equipment(technique), steps)
    <2> SUFFICES ASSUME technique # NoValue, InBucket(prepared, "body") # << >>
                 PROVE  Valid(names, Equipment(technique), steps)
        OBVIOUS
    <2>1. technique \in {"stir", "shake", "blend", "build"}
        BY InferredIsKnown
    <2> HIDE DEF technique, names, prepared, blocker
    <2>2. Sorted(names, prepared)
        BY DEF names, prepared
    <2>3. Mixture(names, Equipment(technique), steps)
        BY <2>1, <2>2, StepsFlow
    <2>4. PICK S : steps \in Seq(S)
        BY <2>3 DEF Mixture
    <2> HIDE DEF steps
    <2> QED BY <2>3, <2>4, FlowsAreValid DEF Mixture
<1>3. convert_recipe(name, text, ings) =
        IF name = NoValue THEN Uncertain("no_slug")
        ELSE IF mentions_muddle(text) THEN Uncertain("muddle_unsupported")
        ELSE IF technique = NoValue THEN Uncertain("no_technique")
        ELSE IF blocker # NoValue THEN Uncertain(blocker)
        ELSE IF InBucket(prepared, "body") = << >> THEN Uncertain("no_body")
        ELSE IF ~Valid(names, Equipment(technique), steps) THEN Uncertain("validation_failed")
        ELSE [reason |-> NoValue, technique |-> technique, prepared |-> prepared, steps |-> steps]
    BY DEF convert_recipe
<1> HIDE DEF technique, names, prepared, blocker, steps
<1>4. \A reason : Uncertain(reason).reason = reason
    BY DEF Uncertain
<1> QED BY <1>1, <1>2, <1>3, <1>4 DEF NoValue
===============================================================================
