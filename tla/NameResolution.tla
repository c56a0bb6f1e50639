----------------------------- MODULE NameResolution -----------------------------
(***************************************************************************)
(* How an ingredient name comes to stand for a taxonomy node: the shared   *)
(* table `ingredient_resolutions', one row per name, written by the map    *)
(* stage of a run (pipeline/stages/map.py over mapping/*.py) and by        *)
(* curators who fix a name, merge, delete, create or promote nodes while   *)
(* the run is on (reviews/*.py, taxonomy/*.py behind routers/ops.py).      *)
(*                                                                         *)
(* The stage resolves in statements that commit one by one: alias, lexical *)
(* and LLM tier, the mint of a provisional node for what is left, the pins *)
(* (the curators' fixes, stamped over what the stage computed), and last   *)
(* the ledger row.  A crash or an exception anywhere keeps what was        *)
(* committed; the next pass skips every name with a row at the current     *)
(* mapper version.                                                         *)
(*                                                                         *)
(* A node is identified with its slug.  A curator's request is one         *)
(* transaction, hence one action.                                          *)
(***************************************************************************)
EXTENDS Naturals

CONSTANTS
    Names,        \* normalized ingredient names
    Nodes,        \* taxonomy nodes there may ever be, by slug
    NoNode,       \* no node: a null slug, no pin, no alias
    SlugOf,       \* slugify: the node a name is minted as, NoNode for punctuation
    Near,         \* the nodes whose name or alias is similar to the name
    NamedAs,      \* the names that are the slug or the display name of a node
    MaxRuns,      \* bound: runs of the map stage
    MaxCurations, \* bound: curators' requests
    MaxFailures,  \* bound: stage failures (provider chain, database)
    MaxRestarts   \* bound: restarts of the process

ASSUME NamesOK ==
    /\ NoNode \notin Nodes
    /\ SlugOf \in [Names -> Nodes \cup {NoNode}]
    /\ Near \in [Names -> SUBSET Nodes]
    /\ NamedAs \in [Nodes -> SUBSET Names]
    /\ MaxRuns \in Nat /\ MaxCurations \in Nat /\ MaxFailures \in Nat /\ MaxRestarts \in Nat

VARIABLES
    status,     \* taxonomy_nodes.status of each node
    aliases,    \* taxonomy_aliases: the nodes each name is an alias of
    slug,       \* ingredient_resolutions.taxonomy_slug, NoNode when null or no row
    current,    \* the names whose row is at MAPPER_VERSION
    pin,        \* the slug of the name's resolved review, NoNode without one
    absorbed,   \* history: nodes that were merged away
    lost,       \* history: nodes that were deleted while a run was under way
    run,        \* state of the map run
    chunk,      \* the names of its recipes (union_names)
    pc,         \* program point of the stage
    known,      \* its snapshot of the aliases
    index,      \* its snapshot of the nodes (TaxonomyIndex)
    pending,    \* the names it found without a current row
    todo,       \* what is left of the loop it is in
    shown,      \* the candidates put to the LLM tier for each name
    hand,       \* the name and the slug read for it that are about to be written
    runs, curations, failures, restarts

nodeVars  == <<status, aliases, absorbed, lost>>
rowVars   == <<slug, current, pin>>
passVars  == <<pc, known, index, pending, todo, shown, hand>>
bounds    == <<runs, curations, failures, restarts>>
vars      == <<nodeVars, rowVars, run, chunk, passVars, bounds>>

None   == [n \in Names |-> NoNode]
Nobody == [n \in Names |-> {}]

Exists   == {m \in Nodes : status[m] # "absent"}
Live     == {m \in Nodes : status[m] = "live"}
Resolved == {n \in Names : slug[n] \in Nodes}

--------------------------------------------------------------------------------
(* The map stage.                                                           *)

At(point) == run = "running" /\ pc = point /\ hand = {}

\* write_resolution: an upsert that stamps MAPPER_VERSION.
Write(n, m) ==
    /\ slug' = [slug EXCEPT ![n] = m]
    /\ current' = current \cup {n}

\* An operator loads recipes with these names into a run and queues it.
QueueRun(S) ==
    /\ run \in {"none", "done", "failed"}
    /\ runs < MaxRuns
    /\ run' = "queued"
    /\ chunk' = S
    /\ runs' = runs + 1
    /\ UNCHANGED <<nodeVars, rowVars, passVars, curations, failures, restarts>>

\* map_stage_fn reads the aliases (an alias of several nodes: the last row wins)
\* and indexes the nodes once for the whole run.
BeginStage(f) ==
    /\ run = "queued"
    /\ \A n \in Names : IF aliases[n] = {} THEN f[n] = NoNode ELSE f[n] \in aliases[n]
    /\ run' = "running"
    /\ pc' = "names"
    /\ known' = f
    /\ index' = Exists
    /\ UNCHANGED <<nodeVars, rowVars, chunk, pending, todo, shown, hand, bounds>>

\* _already_resolved: a row at MAPPER_VERSION, with a slug or without.
ReadPending ==
    /\ At("names")
    /\ pending' = chunk \ current
    /\ todo' = pending'
    /\ pc' = "resolve"
    /\ UNCHANGED <<nodeVars, rowVars, run, chunk, known, index, shown, hand, bounds>>

\* resolve_lexical: one node stands out among those of the index.
StandsOut(n, m) == Near[n] \cap index = {m}
Lexical(n) == IF \E m \in Nodes : StandsOut(n, m)
              THEN CHOOSE m \in Nodes : StandsOut(n, m) ELSE NoNode

Tier(n) == IF known[n] # NoNode THEN known[n] ELSE Lexical(n)

\* The alias and lexical tiers: _slug_for_node reads the slug of the node found, null
\* when the node has gone since the snapshot; the write is the next statement.
\* A name neither tier finds is left for the LLM tier.
Resolve(n) ==
    /\ At("resolve")
    /\ n \in todo
    /\ Tier(n) # NoNode
    /\ hand' = {[name |-> n, slug |-> IF Tier(n) \in Exists THEN Tier(n) ELSE NoNode]}
    /\ todo' = todo \ {n}
    /\ UNCHANGED <<nodeVars, rowVars, run, chunk, pc, known, index, pending, shown, bounds>>

WriteHand ==
    /\ run = "running"
    /\ \E h \in hand : Write(h.name, h.slug)
    /\ hand' = {}
    /\ UNCHANGED <<nodeVars, pin, run, chunk, pc, known, index, pending, todo, shown, bounds>>

\* _llm_inputs: the live candidates of each miss.  What the chain answers, and what
\* it parks, is decided while it is asked.
AskChain ==
    /\ At("resolve")
    /\ \A n \in todo : Tier(n) = NoNode
    /\ shown' = [n \in Names |-> IF n \in todo THEN Near[n] \cap index \cap Live ELSE {}]
    /\ pc' = "apply"
    /\ UNCHANGED <<nodeVars, rowVars, run, chunk, known, index, pending, todo, hand, bounds>>

\* apply_llm_action: one of the candidates shown, or an abstain (which is also what
\* an answer outside them, a dropped name and a run without a provider become).
ApplyAnswer(n, m) ==
    /\ At("apply")
    /\ n \in todo
    /\ m \in shown[n] \cup {NoNode}
    /\ Write(n, m)
    /\ todo' = todo \ {n}
    /\ UNCHANGED <<nodeVars, pin, run, chunk, pc, known, index, pending, shown, hand, bounds>>

\* Mutant: only the names that went to the LLM tier are minted.
ReadUnresolvedOfMisses ==
    /\ At("apply") /\ todo = {}
    /\ todo' = {n \in pending : Tier(n) = NoNode} \ (Resolved \cap current)
    /\ pc' = "mint"
    /\ UNCHANGED <<nodeVars, rowVars, run, chunk, known, index, pending, shown, hand, bounds>>

\* _mint_unresolved: every name of the pass still without a slug at MAPPER_VERSION.
ReadUnresolved ==
    /\ At("apply") /\ todo = {}
    /\ todo' = pending \ (Resolved \cap current)
    /\ pc' = "mint"
    /\ UNCHANGED <<nodeVars, rowVars, run, chunk, known, index, pending, shown, hand, bounds>>

\* Mutant: the mint replaces the node it finds.
MintReplaces(n) ==
    /\ At("mint")
    /\ n \in todo /\ SlugOf[n] # NoNode
    /\ status' = [status EXCEPT ![SlugOf[n]] = "provisional"]
    /\ hand' = {[name |-> n, slug |-> SlugOf[n]]}
    /\ todo' = todo \ {n}
    /\ UNCHANGED <<aliases, absorbed, lost, rowVars, run, chunk, pc, known, index, pending, shown,
                   bounds>>

\* mint_provisional_node: `insert or ignore' the node, then write the resolution.
Mint(n) ==
    /\ At("mint")
    /\ n \in todo /\ SlugOf[n] # NoNode
    /\ status' = IF SlugOf[n] \in Exists THEN status
                 ELSE [status EXCEPT ![SlugOf[n]] = "provisional"]
    /\ hand' = {[name |-> n, slug |-> SlugOf[n]]}
    /\ todo' = todo \ {n}
    /\ UNCHANGED <<aliases, absorbed, lost, rowVars, run, chunk, pc, known, index, pending, shown,
                   bounds>>

\* A name without a valid slug: a recorded abstain.
Abstain(n) ==
    /\ At("mint")
    /\ n \in todo /\ SlugOf[n] = NoNode
    /\ Write(n, NoNode)
    /\ todo' = todo \ {n}
    /\ UNCHANGED <<nodeVars, pin, run, chunk, pc, known, index, pending, shown, hand, bounds>>

\* Mutant: only the names resolved in this pass are looked up.
ReadPinsOfPending ==
    /\ At("mint") /\ todo = {}
    /\ todo' = {n \in pending : pin[n] # NoNode}
    /\ pc' = "pin"
    /\ UNCHANGED <<nodeVars, rowVars, run, chunk, known, index, pending, shown, hand, bounds>>

\* finalize_run -> reapply_overrides: the resolved reviews of every name of the chunk.
ReadPins ==
    /\ At("mint") /\ todo = {}
    /\ todo' = {n \in chunk : pin[n] # NoNode}
    /\ pc' = "pin"
    /\ UNCHANGED <<nodeVars, rowVars, run, chunk, known, index, pending, shown, hand, bounds>>

\* apply_review, for one of them: the slug, not the version.
ApplyPin(n) ==
    /\ At("pin")
    /\ n \in todo
    /\ slug' = [slug EXCEPT ![n] = pin[n]]
    /\ todo' = todo \ {n}
    /\ UNCHANGED <<nodeVars, current, pin, run, chunk, pc, known, index, pending, shown, hand,
                   bounds>>

EndPass ==
    /\ pc' = "idle"
    /\ known' = None
    /\ index' = {}
    /\ pending' = {}
    /\ todo' = {}
    /\ shown' = Nobody
    /\ hand' = {}

\* The ledger rows of the recipes, and with the last chunk the end of the run.
Record ==
    /\ At("pin") /\ todo = {}
    /\ run' = "done"
    /\ EndPass
    /\ UNCHANGED <<nodeVars, rowVars, chunk, bounds>>

\* The node whose insert the mint just committed was deleted before it read it back.
MintLostItsNode == pc = "mint" /\ \E h \in hand : h.slug \notin Exists

\* Mutant: the error code is written where the state belongs.
StageFailsWithCode ==
    /\ run = "running"
    /\ failures < MaxFailures \/ MintLostItsNode
    /\ failures' = failures + 1
    /\ run' = "provider_unavailable"
    /\ EndPass
    /\ UNCHANGED <<nodeVars, rowVars, chunk, runs, curations, restarts>>

\* An exception out of the stage fails the run; what was written stays.
StageFails ==
    /\ run = "running"
    /\ failures < MaxFailures \/ MintLostItsNode
    /\ failures' = failures + 1
    /\ run' = "failed"
    /\ EndPass
    /\ UNCHANGED <<nodeVars, rowVars, chunk, runs, curations, restarts>>

\* A restart requeues the run; `bumped' when it deployed a new MAPPER_VERSION.
Restart(bumped) ==
    /\ restarts < MaxRestarts
    /\ restarts' = restarts + 1
    /\ run' = IF run = "running" THEN "queued" ELSE run
    /\ current' = IF bumped THEN {} ELSE current
    /\ EndPass
    /\ UNCHANGED <<nodeVars, slug, pin, chunk, runs, curations, failures>>

StageStep ==
    \/ \E f \in [Names -> Nodes \cup {NoNode}] : BeginStage(f)
    \/ ReadPending \/ WriteHand \/ AskChain \/ ReadUnresolved \/ ReadPins \/ Record
    \/ \E n \in todo : Resolve(n) \/ Mint(n) \/ Abstain(n) \/ ApplyPin(n)
    \/ \E n \in todo, m \in Nodes \cup {NoNode} : ApplyAnswer(n, m)

--------------------------------------------------------------------------------
(* Curators.                                                                *)

Curates ==
    /\ curations < MaxCurations
    /\ curations' = curations + 1
    /\ UNCHANGED <<run, chunk, passVars, runs, failures, restarts>>

\* resolve_review of a name: the fix is stored in the review and stamped on the row
\* (a new row is at version `override').
ResolveReview(n, m) ==
    /\ Curates
    /\ m \in Exists
    /\ pin' = [pin EXCEPT ![n] = m]
    /\ slug' = [slug EXCEPT ![n] = m]
    /\ UNCHANGED <<nodeVars, current>>

\* combine_merge (a combine review, or the combine stage between two runs): the
\* aliases and the rows of the absorbed node go to the survivor, the absorbed slug and
\* display name become aliases of it.
Merge(survivor, gone) ==
    /\ Curates
    /\ survivor # gone /\ {survivor, gone} \subseteq Exists
    /\ status' = [status EXCEPT ![gone] = "absent"]
    /\ absorbed' = absorbed \cup {gone}
    /\ aliases' = [n \in Names |->
                      IF gone \in aliases[n] \/ n \in NamedAs[gone]
                      THEN (aliases[n] \ {gone}) \cup {survivor} ELSE aliases[n]]
    /\ slug' = [n \in Names |-> IF slug[n] = gone THEN survivor ELSE slug[n]]
    /\ UNCHANGED <<current, pin, lost>>

\* delete_node: refused while a recipe's name resolves to it; the aliases go with it.
DeleteNode(m) ==
    /\ Curates
    /\ m \in Exists
    /\ \A n \in Names : slug[n] # m
    /\ status' = [status EXCEPT ![m] = "absent"]
    /\ aliases' = [n \in Names |-> aliases[n] \ {m}]
    /\ lost' = IF run = "running" THEN lost \cup {m} ELSE lost
    /\ UNCHANGED <<absorbed, rowVars>>

\* create_node with its aliases: live at once.
CreateNode(m, S) ==
    /\ Curates
    /\ m \notin Exists
    /\ status' = [status EXCEPT ![m] = "live"]
    /\ aliases' = [n \in Names |-> IF n \in S THEN aliases[n] \cup {m} ELSE aliases[n]]
    /\ UNCHANGED <<absorbed, lost, rowVars>>

\* connect_place (a connect review, or the connect stage between two runs).
Promote(m) ==
    /\ Curates
    /\ status[m] = "provisional"
    /\ status' = [status EXCEPT ![m] = "live"]
    /\ UNCHANGED <<aliases, absorbed, lost, rowVars>>

CuratorStep ==
    \/ \E n \in Names, m \in Nodes : ResolveReview(n, m)
    \/ \E m, k \in Nodes : Merge(m, k)
    \/ \E m \in Nodes : DeleteNode(m) \/ Promote(m)
    \/ \E m \in Nodes, S \in SUBSET Names : CreateNode(m, S)

Next ==
    \/ \E S \in SUBSET Names : S # {} /\ QueueRun(S)
    \/ StageStep \/ StageFails
    \/ \E bumped \in BOOLEAN : Restart(bumped)
    \/ CuratorStep

\* A seeded taxonomy, and no name resolved yet.
Init ==
    /\ status \in [Nodes -> {"absent", "live"}]
    /\ aliases = Nobody
    /\ slug = None
    /\ current = {}
    /\ pin = None
    /\ absorbed = {} /\ lost = {}
    /\ run = "none"
    /\ chunk = {}
    /\ pc = "idle" /\ known = None /\ index = {} /\ pending = {} /\ todo = {}
    /\ shown = Nobody /\ hand = {}
    /\ runs = 0 /\ curations = 0 /\ failures = 0 /\ restarts = 0

Spec == Init /\ [][Next]_vars

\* The executor works through the queue; nobody need curate, fail or restart.
FairSpec == Spec /\ WF_vars(StageStep)

--------------------------------------------------------------------------------
(* Properties.                                                              *)

\* The tables and the stage's memory have the values their columns and fields admit.
TypeOK ==
    /\ status \in [Nodes -> {"absent", "provisional", "live"}]
    /\ aliases \in [Names -> SUBSET Nodes]
    /\ slug \in [Names -> Nodes \cup {NoNode}]
    /\ current \subseteq Names
    /\ pin \in [Names -> Nodes \cup {NoNode}]
    /\ absorbed \subseteq Nodes /\ lost \subseteq Nodes
    /\ run \in {"none", "queued", "running", "done", "failed"}
    /\ chunk \subseteq Names
    /\ pc \in {"idle", "names", "resolve", "apply", "mint", "pin"}
    /\ known \in [Names -> Nodes \cup {NoNode}]
    /\ index \subseteq Nodes
    /\ pending \subseteq Names
    /\ todo \subseteq Names
    /\ shown \in [Names -> SUBSET Nodes]
    /\ hand \subseteq [name : Names, slug : Nodes \cup {NoNode}]
    /\ runs \in Nat /\ curations \in Nat /\ failures \in Nat /\ restarts \in Nat

\* The stage is about to record the outcome of the chunk.
Recording == pc = "pin" /\ todo = {}

\* A curator's fix wins the live row by the time the chunk is recorded, whenever it was
\* made and however many interrupted passes wrote over it, unless its node was merged
\* away (reapply.py: "the fix always wins the live row").
FixStandsWhenRecorded ==
    Recording => \A n \in chunk :
        pin[n] # NoNode /\ pin[n] \notin absorbed => slug[n] = pin[n]

\* A name resolved at the current version keeps its node: later passes, crashes and
\* failures do not resolve it again.  Only a curator's fix, a merge of its node or a
\* new version moves it (_already_resolved, _mint_unresolved).
Settled(n) == n \in current /\ slug[n] \in Nodes /\ pin[n] = NoNode
ResolvedOnce ==
    [][\A n \in Names : Settled(n) /\ pin'[n] = NoNode /\ slug[n] \notin absorbed'
                        => slug'[n] = slug[n]]_vars

\* The stage never takes a live node back to provisional, and never makes one live:
\* whatever curators do meanwhile (mint.py: "no duplicate, no downgrade of the live
\* node").
MapOnlyMints ==
    [][curations' = curations =>
          \A m \in Nodes : status'[m] # status[m] =>
              status[m] = "absent" /\ status'[m] = "provisional"]_vars

\* Every name that can be a slug has a node when its chunk is recorded (map.py: "Any
\* name the three tiers leave without a non-null slug is then mechanically minted"),
\* unless curators merged that node away, or deleted it while a run was under way: the
\* stage may then write a slug it has read before (delete_node refuses only a node that a
\* row refers to already).  The code does not keep this: a restart between the abstain and
\* the mint leaves a row without a slug that later passes take for done.
There     == Exists \cup absorbed \cup lost
Landed(n) == SlugOf[n] # NoNode => slug[n] \in There
NamesLand == Recording => \A n \in chunk : Landed(n)

\* It holds as long as no pass was cut short.
UninterruptedNamesLand == failures + restarts = 0 => NamesLand

\* The node is one there is.  The code does not keep this, without a cut either: a
\* candidate that is deleted while the chain is asked is written as the name's slug.
NamesHaveNodes == failures + restarts = 0 /\ Recording =>
    \A n \in chunk : SlugOf[n] # NoNode => slug[n] \in Exists \cup absorbed

\* A name fixed to a node that was merged away since is recorded with the slug of a
\* node, the survivor (combine_merge aliases the absorbed slug "so any name that mapped
\* to the absorbed re-lands on it").  The code does not keep this: the payload of the
\* review names the absorbed slug, and is stamped on the row again.
PinsFollowMerges == Recording => \A n \in chunk : pin[n] \in absorbed => slug[n] \in Exists

\* A fix that a run wrote over comes back, restarts or not, unless the curator changes
\* it, its node is merged away or a run failed (base.finalize_run: "the pin survives a
\* rerun").
Fixed(n, m) == pin[n] = m /\ m \notin absorbed
FixReturns ==
    \A n \in Names, m \in Nodes :
        Fixed(n, m) ~> (slug[n] = m \/ ~Fixed(n, m) \/ failures > 0)
===============================================================================
