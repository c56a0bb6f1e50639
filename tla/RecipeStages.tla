---------------------------- MODULE RecipeStages ----------------------------
(***************************************************************************)
(* From the lines of a page to a frozen bundle: the parse, convert,        *)
(* cluster and export stages over the recipes, with the resolutions and    *)
(* the taxonomy that curators go on editing meanwhile.                     *)
(*                                                                         *)
(* The executor is one thread and runs one pass at a time; a pass takes    *)
(* its recipes in chunks.  Parse and convert read and write a chunk in one *)
(* transaction.  Cluster and export read the gate on provisional nodes     *)
(* ahead of theirs, so an edit may fall between.                           *)
(*                                                                         *)
(* A name is the sequence of its words; a node is its slug.  A page that   *)
(* is extracted again may bring other lines; its title does not change, so *)
(* a recipe's canonical name and slug are its title.                       *)
(***************************************************************************)
EXTENDS IngredientParse, ClusterKeys, RecipeConvert, FiniteSets, Integers

CONSTANTS
    NumRecipes,     \* recipes are 1 .. NumRecipes
    Lines,          \* the ingredient lines of a recipe as they were first extracted
    Revised,        \* bound: the one other list of lines its page may bring later
    Text,           \* the keyword families its instructions mention
    Title,          \* its canonical name
    Names,          \* the ingredient names the map stage may meet
    Slugs,          \* the taxonomy nodes there are or may be
    Edges,          \* the taxonomy to begin with, <<child, parent>>
    DefaultRole,    \* the default role of a node
    Toppers,        \* nodes with an effervescent name
    ChunkSize,
    MaxPasses,      \* bound: passes of a stage
    MaxEdits        \* bound: edits of curators

Recipes == 1 .. NumRecipes
Stages == {"parse", "convert", "cluster", "export"}

ASSUME RecipeAssumption ==
    /\ NumRecipes \in Nat /\ ChunkSize \in Nat \ {0} /\ {MaxPasses, MaxEdits} \subseteq Nat
    /\ {Lines, Revised} \subseteq [Recipes -> Seq(Seq(STRING))] /\ Text \in [Recipes -> SUBSET STRING]
    /\ Title \in [Recipes -> STRING]
    /\ Edges \subseteq Slugs \X Slugs /\ Toppers \subseteq Slugs

VARIABLES
    rows,       \* recipe_ingredients of a recipe, in order
    resolution, \* ingredient_resolutions: the slug of a name
    status,     \* taxonomy_nodes.status, or "absent"
    edges,      \* taxonomy_edges, <<child, parent>>
    cut,        \* the nodes with is_cluster_node
    revised,    \* the recipes whose page was extracted again with other lines
    plan,       \* recipe_steps and equipment: the technique and the steps
    identity,   \* cluster_id and variant_key
    clusters,   \* recipe_clusters: recipe_count by cluster key
    exports,    \* recipe_exports: the frozen bundle
    ledger,     \* the outcome job_items has for a recipe at a stage
    pin,        \* resolved reviews of the first parsed row: its name
    stage,      \* the stage of the pass at work
    todo,       \* what the pass has still to take
    gate,       \* the recipes of the chunk with a provisional ingredient, once read
    made,       \* the ingredients cluster computed for the chunk
    cache,      \* the roll-ups of the pass
    keyed,      \* history: the recipes the pass has given an identity
    passes, edits

data == << rows, resolution, status, edges, cut, revised, plan, identity, clusters, exports, ledger, pin >>
pass == << stage, todo, gate, made, cache, keyed >>
vars == << data, pass, passes, edits >>

NoPlan == [technique |-> NoValue, steps |-> << >>]
NoIdentity == [cluster |-> << >>, variant |-> << >>, ingredients |-> << >>]
Unread == {0}
Idle == "idle"

-----------------------------------------------------------------------------
(* The row of a line.  Its position counts from 0, as enumerate does. *)
RowOf(line, position) ==
    LET p == parse(line)
    IN [name |-> p.name, amount |-> p.amount, amount_max |-> p.amount_max, unit |-> p.unit,
        wash |-> "rinse" \in ToSet(line), position |-> position]
LinesOf(r) == IF r \in revised THEN Revised[r] ELSE Lines[r]
ParsedRows(r) == [i \in DOMAIN LinesOf(r) |-> RowOf(LinesOf(r)[i], i - 1)]

(* The seeded bug: the fresh rows go in as they were parsed. *)
PinnedNot(r, parsed) == parsed
(* apply_review: a curator's name is put on the row it was given for. *)
Pinned(r, parsed) ==
    IF pin[r] = << >> \/ parsed = << >> THEN parsed ELSE [parsed EXCEPT ![1].name = pin[r]]

SlugOf(name) == IF name \in Names THEN resolution[name] ELSE NoValue
HasNode(slug) == slug \in Slugs /\ status[slug] # "absent"
RoleOfNode(slug) == IF HasNode(slug) THEN DefaultRole[slug] ELSE Null

(* Ounces as the registry converts them; what has no amount has no volume. *)
VolumeOf(row) ==
    CASE row.amount = None -> Null
      [] row.unit = "oz"   -> IF row.amount = "2" THEN "structural" ELSE "some"
      [] row.unit = "pinch" -> "trace"
      [] OTHER             -> Null

RoleOf(row) ==
    classify_role([position |-> row.position, volume |-> VolumeOf(row), wash |-> row.wash,
                   default_role |-> RoleOfNode(SlugOf(row.name))])

(* recipes_with_provisional_ingredients *)
Provisional(r) ==
    \E i \in DOMAIN rows[r] : /\ HasNode(SlugOf(rows[r][i].name))
                              /\ status[SlugOf(rows[r][i].name)] = "provisional"

SourceIngredients(r) ==
    [i \in DOMAIN rows[r] |->
        LET row == rows[r][i]
        IN [slug |-> SlugOf(row.name), role |-> RoleOf(row), topper |-> SlugOf(row.name) \in Toppers,
            unit |-> IF row.unit = None THEN NoValue ELSE row.unit,
            amount |-> IF row.amount = None THEN NoValue ELSE row.amount]]

(* The ingredients of a recipe as cluster sees them, with up as its roll-ups. *)
ClusterIngredients(r, up) ==
    [i \in DOMAIN rows[r] |->
        LET row == rows[r][i]
            slug == SlugOf(row.name)
        IN [role |-> RoleOf(row), slug |-> slug, defining |-> FALSE,
            antichain |-> IF HasNode(slug) THEN up[slug] ELSE Null,
            amount |-> row.amount, amount_max |-> row.amount_max, unit |-> row.unit]]

-----------------------------------------------------------------------------
Chunk == {r \in todo : Cardinality({s \in todo : s < r}) < ChunkSize}

(* f, and g where f has nothing. *)
Filled(f, g) == [x \in DOMAIN f \cup DOMAIN g |-> IF x \in DOMAIN f THEN f[x] ELSE g[x]]

(* What is recorded of a chunk, and the chunk is done. *)
Record(outcome(_)) ==
    /\ ledger' = [ledger EXCEPT ![stage] = [r \in Recipes |-> IF r \in Chunk THEN outcome(r) ELSE @[r]]]
    /\ todo' = todo \ Chunk
    /\ gate' = Unread /\ made' = << >>

(* A pass over the members of a run, whatever an operator loaded, or over the
   recipes of the cold build without a row at this version. *)
Begin(s) ==
    /\ stage = Idle /\ passes < MaxPasses
    /\ stage' = s /\ passes' = passes + 1
    /\ \/ todo' \in SUBSET Recipes
       \/ todo' = {r \in Recipes : ledger[s][r] = NoValue}
    /\ todo' # {}
    /\ cache' = << >> /\ keyed' = {}
    /\ UNCHANGED << data, gate, made, edits >>

ParseChunk ==
    /\ stage = "parse" /\ todo # {}
    /\ rows' = [r \in Recipes |-> IF r \in Chunk THEN Pinned(r, ParsedRows(r)) ELSE rows[r]]
    /\ Record(LAMBDA r : IF \E i \in DOMAIN ParsedRows(r) : ParsedRows(r)[i].name # << >>
                         THEN "resolved" ELSE "abstain")
    /\ UNCHANGED << resolution, status, edges, cut, revised, plan, identity, clusters, exports, pin,
                    stage, cache, keyed, passes, edits >>

Convert(r) == convert_recipe(Title[r], Text[r], SourceIngredients(r))
(* The seeded bug: no gate. *)
ConvertOutcomeUngated(r) ==
    CASE Convert(r).reason = NoValue -> "resolved"
      [] Convert(r).reason \in {"unresolved_ingredient", "missing_roles"} -> "pending"
      [] OTHER -> "proposes_new"
ConvertOutcome(r) ==
    CASE Provisional(r) -> "pending"
      [] ~Provisional(r) /\ Convert(r).reason = NoValue -> "resolved"
      [] ~Provisional(r) /\ Convert(r).reason \in {"unresolved_ingredient", "missing_roles"} -> "pending"
      [] OTHER -> "proposes_new"

(* Only an Ok replaces the steps a recipe has. *)
ConvertChunk ==
    /\ stage = "convert" /\ todo # {}
    /\ plan' = [r \in Recipes |->
                    IF r \in Chunk /\ ConvertOutcome(r) = "resolved"
                    THEN [technique |-> Convert(r).technique, steps |-> Convert(r).steps]
                    ELSE plan[r]]
    /\ Record(ConvertOutcome)
    /\ UNCHANGED << rows, resolution, status, edges, cut, revised, identity, clusters, exports, pin,
                    stage, cache, keyed, passes, edits >>

(* Cluster and export read which recipes of the chunk are blocked. *)
ReadGate ==
    /\ stage \in {"cluster", "export"} /\ todo # {} /\ gate = Unread
    /\ gate' = {r \in Chunk : Provisional(r)}
    /\ UNCHANGED << data, stage, todo, made, cache, keyed, passes, edits >>

Keyable(r) == r \notin gate /\ Title[r] # NoValue

(* The seeded bug: every chunk rolls its nodes up anew. *)
UnrolledAnew(slugs) == {s \in slugs : HasNode(s)}
(* The nodes the pass has not met before. *)
Unrolled(slugs) == {s \in slugs : HasNode(s)} \ DOMAIN cache

(* Then cluster reads the ingredients and rolls their nodes up, each once a pass. *)
ReadIngredients ==
    /\ stage = "cluster" /\ gate # Unread /\ made = << >>
    /\ LET keyable == {r \in Chunk : Keyable(r)}
           slugs == UNION {{SlugOf(row.name) : row \in ToSet(rows[r])} : r \in keyable}
       IN \E up \in [Unrolled(slugs) -> Slugs] :
            /\ \A s \in DOMAIN up : up[s] \in roll_up_to_antichain(s, edges, cut)
            /\ cache' = Filled(up, cache)
            /\ made' = [r \in Chunk |-> IF Keyable(r) THEN ClusterIngredients(r, Filled(up, cache))
                                    ELSE << >>]
    /\ UNCHANGED << data, stage, todo, gate, keyed, passes, edits >>

ClusterOutcome(r) ==
    IF r \in gate THEN "pending" ELSE IF Title[r] = NoValue THEN "abstain" ELSE "resolved"
Identity(r) ==
    LET key == compute_cluster_key(Title[r], made[r])
    IN [cluster |-> key, variant |-> compute_variant_key(key, made[r]), ingredients |-> made[r]]

(* An upsert leaves the count of a cluster there already; a new one has none yet. *)
ClusterChunk ==
    /\ stage = "cluster" /\ made # << >>
    /\ LET now == {r \in Chunk : Keyable(r)}
           keys == {Identity(r).cluster : r \in now}
       IN /\ identity' = [r \in Recipes |-> IF r \in now THEN Identity(r) ELSE identity[r]]
          /\ clusters' = Filled(clusters, [k \in keys |-> 0])
          /\ keyed' = keyed \cup now
    /\ Record(ClusterOutcome)
    /\ UNCHANGED << rows, resolution, status, edges, cut, revised, plan, exports, pin, stage, cache, passes, edits >>

Bundle(r) ==
    generate_bundle(Title[r], [i \in DOMAIN rows[r] |-> SlugOf(rows[r][i].name)],
                    IF plan[r] = NoPlan THEN {} ELSE Equipment(plan[r].technique), plan[r].steps)
ExportOutcome(r) ==
    CASE r \in gate                                            -> "pending"
      [] r \notin gate /\ Bundle(r).error = NoValue            -> "resolved"
      [] r \notin gate /\ Bundle(r).error = "unresolved"       -> "pending"
      [] OTHER                                                 -> "failed"

ExportChunk ==
    /\ stage = "export" /\ gate # Unread
    /\ exports' = [r \in Recipes |-> IF r \in Chunk /\ ExportOutcome(r) = "resolved"
                                     THEN Bundle(r).bundle ELSE exports[r]]
    /\ Record(ExportOutcome)
    /\ UNCHANGED << rows, resolution, status, edges, cut, revised, plan, identity, clusters, pin,
                    stage, cache, keyed, passes, edits >>

(* _recompute_counts: clusters with recipes get their number. *)
Recounted ==
    [k \in DOMAIN clusters |->
        LET n == Cardinality({r \in Recipes : identity[r].cluster = k})
        IN IF n = 0 THEN clusters[k] ELSE n]

Finish ==
    /\ stage # Idle /\ todo = {}
    /\ clusters' = IF stage = "cluster" THEN Recounted ELSE clusters
    /\ stage' = Idle /\ cache' = << >> /\ keyed' = {}
    /\ UNCHANGED << rows, resolution, status, edges, cut, revised, plan, identity, exports, ledger, pin,
                    todo, gate, made, passes, edits >>

(* The process stops: what is committed stays. *)
Crash ==
    /\ stage # Idle
    /\ stage' = Idle /\ todo' = {} /\ gate' = Unread /\ made' = << >> /\ cache' = << >> /\ keyed' = {}
    /\ UNCHANGED << data, passes, edits >>

-----------------------------------------------------------------------------
(* Curators and the stages between, one committed statement or transaction each. *)
Edit ==
    /\ edits < MaxEdits /\ edits' = edits + 1
    /\ UNCHANGED << plan, identity, clusters, exports, ledger, pass, passes >>

(* A name gets a slug: a fix, or the map stage when no pass of these is at work. *)
Resolve(n, s) ==
    /\ Edit
    /\ resolution' = [resolution EXCEPT ![n] = s]
    /\ UNCHANGED << rows, status, edges, cut, revised, pin >>

(* The map stage mints a provisional node for a name it cannot place. *)
Mint(n, s) ==
    /\ Edit /\ stage = Idle
    /\ resolution[n] = NoValue /\ status[s] = "absent"
    /\ resolution' = [resolution EXCEPT ![n] = s]
    /\ status' = [status EXCEPT ![s] = "provisional"]
    /\ UNCHANGED << rows, edges, cut, revised, pin >>

Promote(s) ==
    /\ Edit
    /\ status[s] = "provisional"
    /\ status' = [status EXCEPT ![s] = "live"]
    /\ UNCHANGED << rows, resolution, edges, cut, revised, pin >>

(* combine_merge: the names and the edges of the absorbed node go to the survivor,
   but for an edge between the two. *)
Merge(absorbed, survivor) ==
    /\ Edit
    /\ absorbed # survivor /\ HasNode(absorbed) /\ HasNode(survivor)
    /\ resolution' = [n \in Names |-> IF resolution[n] = absorbed THEN survivor ELSE resolution[n]]
    /\ status' = [status EXCEPT ![absorbed] = "absent"]
    /\ LET heir(s) == IF s = absorbed THEN survivor ELSE s
       IN edges' = {<< heir(e[1]), heir(e[2]) >> :
                       e \in {f \in edges : {f[1], f[2]} # {absorbed, survivor}}}
    /\ cut' = cut \ {absorbed}
    /\ UNCHANGED << rows, revised, pin >>

(* The taxonomy editor sets or clears is_cluster_node. *)
Recut(s) ==
    /\ Edit
    /\ HasNode(s)
    /\ cut' = IF s \in cut THEN cut \ {s} ELSE cut \cup {s}
    /\ UNCHANGED << rows, resolution, status, edges, revised, pin >>

(* A curator resolves the review of a parsed row: the review and the row. *)
FixRow(r, n) ==
    /\ Edit
    /\ rows[r] # << >>
    /\ pin' = [pin EXCEPT ![r] = n]
    /\ rows' = [rows EXCEPT ![r][1].name = n]
    /\ UNCHANGED << resolution, status, edges, cut, revised >>

(* The page of a recipe is extracted again between two passes and brings other
   lines; the rows are those of the old ones until the recipe is parsed again. *)
Rewrite(r) ==
    /\ Edit /\ stage = Idle
    /\ r \notin revised
    /\ revised' = revised \cup {r}
    /\ UNCHANGED << rows, resolution, status, edges, cut, pin >>

-----------------------------------------------------------------------------
Init ==
    /\ rows = [r \in Recipes |-> << >>]
    /\ resolution \in [Names -> Slugs \cup {NoValue}]
    /\ status \in [Slugs -> {"live", "provisional", "absent"}]
    /\ \A n \in Names : resolution[n] # NoValue => HasNode(resolution[n])
    /\ edges = Edges /\ cut \in SUBSET {s \in Slugs : HasNode(s)}
    /\ revised = {}
    /\ plan = [r \in Recipes |-> NoPlan]
    /\ identity = [r \in Recipes |-> NoIdentity]
    /\ clusters = << >>
    /\ exports = [r \in Recipes |-> << >>]
    /\ ledger = [s \in Stages |-> [r \in Recipes |-> NoValue]]
    /\ pin = [r \in Recipes |-> << >>]
    /\ stage = Idle /\ todo = {} /\ gate = Unread /\ made = << >> /\ cache = << >> /\ keyed = {}
    /\ passes = 0 /\ edits = 0

Work == ParseChunk \/ ConvertChunk \/ ReadGate \/ ReadIngredients \/ ClusterChunk \/ ExportChunk \/ Finish

Next ==
    \/ \E s \in Stages : Begin(s)
    \/ Work
    \/ Crash
    \/ \E n \in Names, s \in Slugs : Resolve(n, s) \/ Mint(n, s)
    \/ \E s \in Slugs : Promote(s) \/ Recut(s)
    \/ \E s, t \in Slugs : Merge(s, t)
    \/ \E r \in Recipes, n \in Names : FixRow(r, n)
    \/ \E r \in Recipes : Rewrite(r)

Spec == Init /\ [][Next]_vars

-----------------------------------------------------------------------------
TypeOK ==
    /\ resolution \in [Names -> Slugs \cup {NoValue}]
    /\ status \in [Slugs -> {"absent", "provisional", "live"}]
    /\ edges \subseteq Slugs \X Slugs /\ cut \subseteq {s \in Slugs : HasNode(s)}
    /\ revised \subseteq Recipes
    /\ ledger \in [Stages -> [Recipes -> {NoValue, "resolved", "abstain", "pending", "proposes_new", "failed"}]]
    /\ stage \in Stages \cup {Idle} /\ todo \subseteq Recipes /\ keyed \subseteq Recipes
    /\ gate = Unread \/ gate \subseteq Recipes
    /\ pin \in [Recipes -> Names \cup {<< >>}]

(* A name a curator gave to a parsed row stands however often the recipe is
   parsed again: the parse stage deletes the rows and writes fresh ones, and
   puts the name of the resolved review back in the same transaction. *)
PinnedRowsStand ==
    \A r \in Recipes : pin[r] # << >> /\ rows[r] # << >> => rows[r][1].name = pin[r]

(* Within one cluster pass a node means one cluster node, though a curator
   moves the cut between its chunks: two recipes the pass has keyed, with the
   same ingredient, never part because one was early and the other late. *)
OnePassOneCut ==
    \A q, r \in keyed : \A a \in ToSet(identity[q].ingredients), b \in ToSet(identity[r].ingredients) :
        a.slug = b.slug /\ Null \notin {a.antichain, b.antichain} => a.antichain = b.antichain

(* Nothing a frozen bundle lists is left over: every ingredient goes into one of
   its steps.  The steps keep the slugs of the day they were converted, the list
   has those of today, and a correction in between may move one of them, or two
   to one.  The validator does not ask for this; it follows from the converter's
   refusal of repeated ingredients together with the check of the bundle, as
   long as the page brings no other lines. *)
UsesAllItLists(bundle) ==
    ToSet(bundle[2]) \subseteq UNION {ToSet(step.input) : step \in ToSet(bundle[3])}
FrozenBundlesUseAllTheyList ==
    \A r \in Recipes \ revised : exports[r] # << >> => UsesAllItLists(exports[r])

(* So would one expect of every bundle.  The code does not keep this: a recipe
   that gains a line, is parsed and exported again keeps its old steps. *)
EveryBundleUsesAllItLists ==
    \A r \in Recipes : exports[r] # << >> => UsesAllItLists(exports[r])

(* Convert writes no steps for a recipe while one of its ingredients is a node
   nobody has reviewed, and none while a name of it has no slug.  Whether there
   still is a node with the slug, convert does not ask. *)
ConvertWaitsForReview ==
    [][\A r \in Recipes : plan'[r] # plan[r] =>
          /\ ~Provisional(r)
          /\ \A row \in ToSet(rows[r]) : SlugOf(row.name) # NoValue]_vars

(* A modifier that leads its recipe with a structural pour is its base spirit,
   as the rule of the role classifier says of a Reverse Manhattan. *)
LeadingModifierIsTheBase ==
    \A r \in Recipes : rows[r] # << >> =>
        LET first == rows[r][1]
        IN /\ VolumeOf(first) = "structural"
           /\ RoleOfNode(SlugOf(first.name)) \in {"modifier", "bitters"}
           => RoleOf(first) = "base_spirit"
=============================================================================
