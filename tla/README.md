# Spiritolo in TLA+

Spiritolo turns scraped cocktail pages into structured recipes. A scraper fills a
SQLite file with pages; the backend is one Python process (FastAPI) over another: request
handlers run on a thread pool, and one executor thread runs the pipeline stages that
operators queue. This directory models the parts of both where the order of things
decides whether the data stays right, and the algorithms whose result everything else
rests on. The models are checked with TLC on small instances, and the main safety
properties of nine of them are proved for every size with TLAPS.

## The system

| Component | State | Operations | Talks to | Module |
| --- | --- | --- | --- | --- |
| Run ledger and executor (`ingredients/runs.py`, `worker/runner.py`, `app/executor.py`, `pipeline/ledger.py`) | `jobs`, `job_items`; current run, cancel events | create, add, remove, start, cancel, retry, delete; claim, run, finalize; boot recovery, stop | handlers and executor share two tables; wake and cancel events | `RunExecutor`, `MemberLedger` |
| Map stage (`pipeline/stages/map.py`, `mapping/*`) | `ingredient_resolutions`, minted nodes | alias, lexical and LLM tiers, mint, pin pass | reads the taxonomy; curators' reviews are stamped over its rows | `NameResolution` |
| Taxonomy (`taxonomy/*`), combine and connect stages, reviews (`reviews/*`) | `taxonomy_nodes`, `taxonomy_edges`, `human_reviews` | merge, place, create, update, set parents, delete; flag, resolve, dismiss | stages and editor write the same rows | `Taxonomy` |
| Parse, convert, cluster, export stages | ingredients, steps, cluster and variant keys, frozen bundles | one pass over the members of a run, in chunks | gated on provisional nodes; read resolutions and taxonomy | `RecipeStages` |
| Line parser (`parser.py`, `units.py`) | none | clean a line, try eight rules | the parse stage | `IngredientParse` |
| Cluster keys (`dedup/*`) | none | roll up a node, tell a role, key a recipe | convert and cluster stages | `ClusterKeys` |
| Converter (`recipegf/*`) | none | technique, ingredients, step templates, bundle | convert and export stages | `RecipeConvert` |
| Provider chain and cost cap (`worker/providers.py`, `worker/cost.py`) | meter of a pass, breaker of a call | resolve items in packs | extract, map, combine, connect; an LLM client | `ProviderChain` |
| Scraper (`scraper/*`) | `pages`, evaluation rows, HTML files | discover, classify, fetch, validate, resets | sites, file system | `ScraperPages`, `PageRules` |
| Batch runner (`common/llm`, `scraper/classify.py`) | batches of the provider, sidecar files | submit, poll, ingest | a batch API | `ClassifyBatch` |
| Database swap (`app/importdb.py`, `app/db.py`, `scripts/entrypoint.sh`) | staged and partial file, connections, generation | upload, discard, apply, boot, several at once | stops and restarts the executor; migrations | `DatabaseSwap` |
| Authentication (`app/auth.py`, `routers/auth.py`) | operators, links, passkeys, cookies | register, sign in, sign out, invite, remove | every route | `OperatorAuth` |
| Query API, LLM clients, front end, scripts | none of their own | read, display, convert data | the API | not modelled |

What is hard: handlers interleave with the executor statement by statement (SQLite
statements commit on their own outside `transaction()`); a process may die between any
two commits, file writes or renames; a stage waits for minutes for an LLM between what
it read and what it writes; curators edit the taxonomy while recipes are converted under
it; ceremonies take two requests; and row ids without `AUTOINCREMENT` are given out
again. The hazards, each at its line with the properties about it, are in PROJECT.json.

## Modules

`EXTENDS` composes: `RecipeStages` is built on `IngredientParse`, `ClusterKeys` and
`RecipeConvert`; `ScraperPages` on `PageRules`; `RunExecutor` refines `MemberLedger`.
`*_MC` modules hold small constants for TLC, `*Inv` an inductive invariant, `*Proofs`
theorems; `AppProofs` has those of both `DatabaseSwap` and `OperatorAuth`.

### RunExecutor and MemberLedger

`state`, `stage`, `member`, `content` and `touched` are the rows; `exec`, `cur`, `todo`,
`unrecorded`, `event` and `verdict` are what the executor thread holds; `req` is, for
each client, the point its handler has reached and the id it works on; `up` and
`stopping` are the process. A handler is split where the code's statements commit
separately: `cancel_run` is `CancelRead`, `CancelRun`, `CancelSignal`. A claim, a chunk
commit and a finalize are single transactions and single actions. `content` says for
which members the stage's output is committed, so a crash between a content commit and
its ledger row is a state of the model. `touched` remembers that an operator wrote to a
run since it was claimed. `MemberLedger` is what the ledger promises: a member is loaded,
decided once by the run that holds the ledger, reopened only out of `failed`, dropped
only by an operator.

Abstractions: `add_run_items` is one statement (its read and its insert are two); the
queue is served in any order; errors of the database itself in `_finalize` are left out;
the map stage has its own module and is not one of the stage classes here.

### NameResolution

A node is identified with its slug, so renames are left out; `slug` and `current` are a
name's row and whether its version is the mapper's; `pin` is the resolved review of a
name; `known` and `index` are the snapshots the stage takes; `hand` is the name between
the lookup of its tier and the write. The three tiers, the LLM chain, the mint and the
pin pass are actions of their own because each commits on its own. Trigram similarity,
slugify and display names are the constants `Near`, `SlugOf` and `NamedAs`. One chunk
per run, one fix per name, aliases and index snapshot in one step; a curator's
`delete_node` has its recipe blocker and not its children blocker (edges are in
`Taxonomy`). `absorbed` and `lost` are history variables: the nodes merged away, and
those deleted while a run was under way, whose slugs the stage may still write.

### Taxonomy

`node[id]` tells which node has a row id, because ids of deleted nodes are given out
again: `review` and `asked` remember which node they were meant for, which the code does
not. Each structural write is one transaction and one action. What is below a node is
the smallest set that holds its children and is closed under the edges, which is what
the recursive queries compute. Candidates of a node are all nodes (trigram similarity
selects among them in the code). Resolving a review a second time is left out, and so
are the recipe and proposal blockers of `delete_node`, which only refuse more.

### ProviderChain

`row` is what the stage recorded of each item and `outcome` how the pass ended; `from`
and `at` are the positions of the chunk and of the pack, `try`, `failures`, `resolved`
and `parked` the locals of `resolve()`, `answers` what the stage holds to record and
`spent` the meter. The look at the cancel signal, the charge with the request, and the
reply are steps of their own, so a cancel falls between any two. A reply is any set of
items: only those of the pack are looked up. `NewPass` is a stop of the process with
boot recovery, or a retry: what is pending goes to a new chain. `sent`, `paid`, `billed`,
`streak` and `late` are history variables. Items are numbers in the order of the queue;
an answer is what the stage records as one, whatever its verdict; prices are a set a
pack may cost when it is sent; the sleep between tries has no length. An item is recorded
in one step, its crash points are in `RunExecutor`.

### PageRules and ScraperPages

`PageRules` is what the rules make of a page: the structured-data type by its priority,
the blocker checks, and the label a score stands for, over a record of what these rules
look at; how the words of a recipe add up to its score is an input, as no property tells
one way from another. `ScraperPages` has a process for each command:
`fetch` with its pool (`worker`) and main loop, `val`, `cls`, and discovery. Each call of a
`Database` method is one transaction and one step; a kill leaves what is committed. The
pool's lock, the paused sites, the breaker's look at the last statuses, the order in which
futures are seen, the cancelling of queued futures and the race recovery after the
shutdown are steps or guards of their own. `asked` is a history variable: the pages a
worker asked a site for in this fetch; a revalidation that writes a status anew starts the
count of that site again, as it may turn pages blocked that were fetched long before. A deployment may bring a new validator version
while no process runs, which is how saved pages come back to the validate queue. Retries
of the HTTP client, `save_html` (whole before the row says so) and print-outs are left
out; the file of a page stays when the row stops naming it.

### ClassifyBatch

`batch` is what the provider holds, request by request; `sidecar` is the file of a batch:
its suffix (live, ingested, or a failed state) and the prompt version it was sent under;
`job` has the two commands that may run side by side, the drain (submit, write the
sidecar, poll, ingest, again) and the ingest by hand (`--ingest`, `--force`). A result is
written one row at a time; a writer that raises does not end the loop; a sidecar renamed
by the other command makes the rename fail. Enqueue-limit errors are waited out and have
no step; token counts and costs are left out.

### DatabaseSwap

A file is an inode with its blocks, its operators and its schema; the names (`live`,
`staged`, `part`) are inodes or 0, and an upload or a connection keeps the inode it
opened. Upload, verification (`inspect_file` finds its own schema number and no newer
one), carrying the operators over (which may fail) and the rename are steps; so are, in
an apply, the stop of the executor (which may give up on a thread in a run), `close_all`,
the swap, `reopen`, each migration and the start. The routes take no lock, so uploads and
applies of any number go on side by side. `reopen` may raise (`MigrateRaises`: the file is
locked, a migration fails, or another apply has made it meanwhile); it stands in the
`finally` block before the start (`routers/ops.py:371-374`), so the request ends there and
no executor is started. In the `restart` setting the process exits instead, and the
entrypoint removes the old file and moves the staged one before the server starts. A
request thread opens a connection and registers it in two steps.

Three history variables that no action reads say which promises are off: `shared` has the
files an upload opened while another was under way, `raised` says that the last reopen of
the live file raised, `overlapped` that two applies have been under way at once since one
last began alone. Left out: a server without an executor; the info file beside the staged
one, which is only shown. Whether the digest is the expected one is a free choice, and so
is whether a join of the executor's thread times out. `stop` and `start` each read
`_thread` once and are one step, but for the join; the thread opens its file as it starts.

### OperatorAuth

The cookies are the server's only session state, so `session` and `challenge` are what
each browser holds; `reading` is the passkey row a login has read before the transaction
that counts it. A registration checks again, in one transaction, what its challenge
stands for. Signatures, relying-party ids and the sign counter are the WebAuthn library's
(external); a ceremony proves possession of a credential or fails. `minted`, `setups` and
`enrolled` are history variables.

### IngredientParse, ClusterKeys, RecipeConvert, RecipeStages

A line is a sequence of tokens; the vocabularies are cut to a word or two of each table,
with an overlap wherever two tables overlap (`bottle` measures and counts, `pinch` is a
unit and a lexical quantity). The clean-up steps are applied in the code's order, the rules
in the order of the ladder. On lines drawn from this vocabulary the operators agree
with the Python functions, rule, amounts, unit and name, but for lines that begin with a
hyphenated size (`750-ml`), which the tokens cut differently. A cluster key is the bag of
what the code hashes in sorted order. The converter's blockers come in the order of its
checks, and each of its four templates is an operator.

`RecipeStages` runs passes of the four stages over recipes, chunk by chunk. Parse and
convert read and write a chunk in one transaction; cluster and export read the gate on
provisional nodes before theirs (`ReadGate`), and cluster reads the ingredients and rolls
nodes up with the cache of the pass (`ReadIngredients`), so an edit may fall between.
Edits are the ones of the curators and of the map stage: resolve, mint, promote, merge
(with the edges of the absorbed node), move the cut, fix a parsed row; and a page may be
extracted again between two passes and bring one other list of lines (`Rewrite`,
`revised`). A fix is of a position, so after that it names whatever line is there now.
`keyed` is a history variable. Left out: other writes of edges (placements, `set_parents`),
nodes created anew under the slug of a deleted one while a pass has it in its cache,
changes of titles and so of canonical names, reviews of other rows than the first and of
other fields than its name, and hand-written reviews of steps and of clusters.

## Runs

| Run | Result | Shows |
| --- | --- | --- |
| `executor_safety` | pass | one run of any stage class, two members, two clients, a restart: no member decided twice, a running run is owned, a done run is drained, applied means content is there, `MemberLedger` is implemented, every queued run ends or is deleted |
| `executor_cancelling` | violation | a cancel that reads `running` before the finalize and writes after it leaves the run `cancelling` until a restart |
| `names_curated` | pass | two map runs over two names, curators, a failure, a restart: fixes stand when recorded and come back, names land on a node (unless a pass is cut, or curators take the node away meanwhile), the stage only mints |
| `taxonomy_structure` | pass | every DAG on three rows, two requests or stage passes: ancestry lost only to `set_parents`, no cycle by edits, placement keeps the antichain |
| `chain_pass` | pass | six items, each way a stage uses the chain, a cancel and one new pass anywhere: answers are kept, nothing is asked twice, spend stays within the cap, a cancel lets one more pack through at most, every pass ends |
| `scraper_fetch` | pass | two workers, a site that may block or refuse, Ctrl-C: a blocked site is left alone, a refusal is reported, every fetch and classify ends |
| `scraper_tables` | pass | all four commands, a new validator, resets, a kill: statuses and labels agree with the rows that explain them |
| `batch_limit` | pass | a drain and an ingest side by side, a kill, a new prompt: answers land on their own rows, ingested means complete, the limit is kept |
| `swap_safety` | pass | any two requests at a time out of two uploads, two applies, a discard and a request thread, with a kill and a migration that raises anywhere: a file that one upload alone wrote is staged only when verified; what is served is a database with operators and, outside an apply and a reopen that raised, every migration; the executor is back on the live file unless a reopen raised or two applies overlapped |
| `auth_safety` | pass | two browsers, two operators, one link: one passkey for a link, setup once, nobody locked out |
| `recipes_pass` | pass | three passes over two recipes with an edit, a page extracted again or a crash anywhere: fixes of rows stand, one pass uses one cut, frozen bundles leave no ingredient over, convert waits for reviews; and over bounded inputs: ranges read alike, run-together lines that are not counted at an end abstain, the templates are sound, one key has one snapshot |
| `recipes_first` | violation | the first ingredient is stored at position 0 and the role classifier looks for 1: the leading vermouth of a Reverse Manhattan is no base |

Bounds. Two members are enough for one to be decided while the other waits; two clients
for a request to interleave with another and with the executor; one crash anywhere, as
recovery starts from the tables alone. Two names and two nodes give the map stage a name
that mints and a name that cannot, a merge and its survivor. Three rows are a path, a
fork and a join. Three packs in a chunk are enough for the breaker to trip and to be
reset, a second chunk for what is carried over between calls; a cap of 3 with packs of 1
or 2 is reached exactly and jumped over. Three pages and two workers let both workers
hold a page of a site the breaker is about to pause while a third waits. Two batches of
two and a limit of 3 give a drain a whole and a cut chunk and an overlap with the other
command. Of the two requests the database swap has under way at a time, any pair of kinds
may be: two uploads of one partial file, two applies, an upload or a discard under an
apply (uploads are alike and so are applies, which is the symmetry used: no property or
action tells them apart). One block per upload is enough, as a file is right only when
its last block is there and another upload can truncate it before, between and after;
three inodes are the live file, one staged, one being written. A chunk of one recipe lets an edit fall
between two recipes of one pass, and three passes take a recipe from its lines to a
bundle. The inputs of the algorithms are all lines of an amount, a unit and a name of the
vocabulary, all preparations of three ingredients, all pairs of keyed ingredients. The
counters `Max*` only bound how often the environment acts.

Deadlock is not checked where the bounded environment may have nothing left to do.

Fairness. Weak fairness is assumed of the executor thread (a loop that polls) and the
stage it runs, of a shutdown under way, of the supervisor that starts the process again,
and of the threads of a scraper process; none of operators, handlers, curators, failures
or crashes. A request to a provider or a site answers or
fails, as its HTTP client has a timeout. `FairSpec` of each module names the actions;
modules without liveness properties have none.

## Proofs

Every theorem is for all constants that satisfy the module's assumptions.

- RunExecutor: `IInv` of `RunExecutorInv` says who may hold what: a run that is running
  is the executor's `cur` between claim and finalize; what is in `todo` and
  `unrecorded` is undecided in the table; what is `unrecorded` has its content; an
  untouched run about to be finalized `done` has nothing pending outside `todo`. Type
  correctness alone is not inductive, as a step of the stage writes rows of the run it
  believes to hold. From it follow four of the safety invariants, and, action by action,
  that the rows implement `MemberLedger` with the executor's `cur` as the owner.
- NameResolution: `IInv` says that the stage only has unsettled names at hand, that
  behind the pin pass the fixes stand, and that in a history without a cut all names
  with a current row have a slug but those the pass has still to mint. That the slug is of
  a node (`NodeInv`) is argued from the other end: what a row, a fix or the stage's memory
  names was a node when it was read, and a node goes by a merge (`absorbed`) or by a
  `delete_node`, which refuses one that a row names, so that only a slug still in the
  stage's memory can be of a deleted node, and then the deletion fell into a run (`lost`);
  when no run is under way each fix is on its row, which is what keeps its node. `ResolvedOnce`
  (a name resolved at the current version is not resolved again) is proved as well.
- Taxonomy: soundness of the rows is inductive by itself. Claims about ancestry before
  and after a write are proved without induction: for a closed set of one graph a
  closed set of the other is given (for a merge, the nodes that map into it when the
  absorbed node is read as the survivor).
- ProviderChain: `IInv` of `ProviderChainInv` says how far the three nested loops (packs,
  chunks, recording) have come: what is answered or recorded lies before the position,
  what is answered and not recorded is in the chunk at hand or with the stage, what the
  loop has passed was sent unless the signal came, and the meter has all that was sent.
  `ResolvePartitions`, `AbortHasCause` and `FlaggedForCause` follow too.
- OperatorAuth (in `AppProofs`): the properties are made inductive by two facts: a link is marked used
  exactly when a passkey was made with it and by its own operator, and once there is an
  operator no challenge can set up another. The number of
  credentials matters only where it is compared with one, so the argument is over
  subsets with at most one element.
- DatabaseSwap (in `AppProofs`): `IInv` says what each of the three names may stand for (a
  staged file was inspected and has operators; the live one has operators and a schema the
  build can migrate, and is missing only while a boot goes from the removal to the rename),
  each unless the file is in `shared`; that no two names share an inode; and that a partial
  file that is not in `shared` has one upload beside it at most, which inspected it before
  it may promote it. An upload writes through its inode and not through the name, so the
  disjointness of the names is what keeps its blocks out of the served file. For the
  migrations, what an apply migrates was live when it opened it, and a live file that lacks
  migrations is on its way through an apply or was left by a reopen that raised. For the
  executor, an apply that is alone (not `overlapped`) forgets the thread it found and
  starts the next on the file it left live. Any number of uploads and applies is allowed; no
  theorem has a hypothesis beyond the assumptions on the constants.
- ClassifyBatch: `IInv` says, for each of the two jobs, what its step means for the batch in
  its hand (a row it has not left to do was tried; the batch it marks is completed; what a
  drain has in hand fits its limit) and for each batch what its sidecar's name means. The
  steps of the one job keep the place of the other, because a batch that exists keeps its
  rows, and a completed one its answers. That the cut chunk fits what the limit leaves
  needs a count of the first `n` pages in id order, proved with ranks in a finite set.
- ScraperPages: `IInv` has, next to the types, facts about the rows of one page (unfetched
  pages have no evaluation; a fetched one has the status that some version of the
  validator gives its file; the score is the file's; a label comes from the url or the
  file; where both evaluations are, the status is the one recorded), and about places (a
  queued page is pending, queued once and in nobody's hand; a worker is alone with its
  page; a row of the validate queue has the status its page has, until it is the one in
  work). The first kind alone is not inductive: that fetch and revalidation do not write
  over each other follows from where pages can be. A file with a label has the same
  status in every version of the validator (its structured data has a type, which decides
  before any fingerprint of a blocker page does); this is proved of the rules, and because
  of it no revalidation takes the path of a labelled page from its row. For the breaker, pages asked for and still pending are held by workers,
  and with those workers that have yet to look they are no more than the pool; a window
  of blocked pages is counted with ranks. `ContentsOK` assumes of the constants that no
  content is classified as one of the queue's own states, and that a page with recipe
  data has its type. The proof showed that `BlockedSiteIsLeftAlone`, which held
  on the instance, failed for larger ones when a revalidation turned older pages of the
  site blocked during a fetch; `asked` is restarted there since.
- RecipeStages: the parser and the converter stay what they are, for any lines, texts and
  titles, and `IInv` says what the tables and the pass can hold. The rows of a recipe are
  numbered from 1, and if it has any its pin is the name of the first (parsing puts it back; a
  fix moves both; a page extracted again moves neither). An idle pass, and one between two chunks, holds nothing it has read. The ingredients
  in its hand and those of the recipes it has keyed are rolled up to what `cache` says, and
  the cache of a pass only grows: this is what makes one pass use one cut although the cut
  moves between its chunks, and `OnePassOneCut` alone is not inductive without it. An
  identity is the key of the ingredients stored with it.
  That one cluster has one snapshot (`ClusterHasOneSnapshot`) follows for every two recipes,
  whichever passes keyed them, since a snapshot is the support of the bag that is the key. That a
  conversion waits for reviews needs the first blocker to be the least index that blocks,
  which is the well-foundedness of the numbers.
- RecipeConvert (in `RecipeStagesProofs`): `StepsFlow` is about the four templates for any number
  of ingredients, toppers and garnishes, with ice or without: each step takes what there is by
  then, and what it results in goes into a later step until the drink. Steps that flow are
  joined with a chain (toppers, garnish) on what they end with, which is the one lemma
  `FlowsOn`. So `NothingFailsValidation`: the converter's own check of its steps refuses no recipe, for
  a validator that asks what `Valid` says. Both assume `Sorted`, that the buckets of the ingredients
  hold names of the recipe and that a body is toppers or base: this is what `SelectSeq` gives, and
  the provers cannot unfold it (TLC finds it true of all the preparations of the run).

Type correctness is a theorem of each of these nine modules and is not repeated in a run.
Model-checked only: the liveness properties (`QueuedRunsEnd`, `FixReturns`,
`EveryPassEnds`, `ProcessesEnd`), which rest on fairness and ENABLED
and so are out of the prover's reach; the violations; `FrozenBundlesUseAllTheyList`, as the
converter's refusal of a repeated ingredient would have to be carried through `SelectSeq`
into the steps and counted against the rows; and, over bounded inputs, what the
parser makes of a line (`RangesReadAlike`, `RunTogetherAbstains`: rules over words of a
concrete vocabulary, which the provers would have to enumerate) and the part of
`TemplatesAreSound` that `StepsFlow` does not have (each ingredient goes in once, and no two
results have one name). No module declares a recursive operator.

## Known to fail

Besides the two violation runs, fifteen definitions state what the code or its docs lead one
to expect and the code does not keep. They are in no run; to see one fail, put it into the
named configuration in place of its properties (`INVARIANT`, or `PROPERTY` for the action
and temporal ones).

| Property | Configuration | What happens |
| --- | --- | --- |
| `NamesLand` | `NameResolution_curated` | `map.py:145-147` mints a node for every name the tiers leave; a crash between the abstain and the mint leaves the name without one, and `_already_resolved` drops it from every later pass |
| `PinsFollowMerges` | `NameResolution_curated` | a merge repoints the rows and not the payload of the resolved review: the next pass stamps the absorbed slug back (`taxonomy/ops.py:41-43` says names re-land on the survivor) |
| `Dag` | `Taxonomy_safety` | `docs/spirits-taxonomy.md:34` has cycles prevented; `connect_place` and `combine_merge` do not look for them |
| `MergesTheNodeUnderReview` | `Taxonomy_safety` with `MaxWrites = 4` | the node under an open review is deleted, its id is given to the next one minted, and resolving the review merges that one |
| `ParkedStaysPending` | `ProviderChain_safety` | `providers.py:235-237` has items of a cancelled call stay pending; the stages record them |
| `BreakerStopsTheRun` | `ProviderChain_safety` | the breaker counts within one call of `resolve()`, and extract makes a call per page: with the provider down each page is recorded as an abstain |
| `SavedHtmlIsReachable` | `ScraperPages_tables` | a page a revalidation marks blocked is in no queue, although its file stays (`validate.py:101`) |
| `ConnectionsAreLive` | `DatabaseSwap_safety` | a thread that opens the file before the swap and registers after `reopen` has the new generation on the old file (`db.py:36-45`, `51-65`) |
| `AlwaysVerified` | `DatabaseSwap_safety` | two uploads write one partial file: the second truncates what the first has verified, and the first renames it (`importdb.py:138`) |
| `AlwaysMigrated` | `DatabaseSwap_safety` with `Uploads = {u1}` | `reopen` raises in a migration (`migrate.py:60-62`): the request fails, and the server goes on serving the new file without it (`routers/ops.py:371-374`) |
| `AlwaysAtWork` | `DatabaseSwap_safety` with `Uploads = {u1}` | after the same failure no executor is started; and of two applies one may start it before the other swaps, so that it works on the old file |
| `NamesHaveNodes` | `NameResolution_curated` | a candidate the chain was shown is deleted before its answer is applied (no row names it yet): the answer is written as the slug of a node there is not, and the name counts as resolved |
| `EveryBundleUsesAllItLists` | `RecipeStages_pass` with `MaxPasses = 4` | a page extracted again gains a line; parsed and exported, but not converted again, its bundle lists an ingredient no step takes |
| `OtherRangesReadAlike` | `RecipeStages_pass` | `1 oz to 2-oz gin` is 1 of `to 2-oz gin`, and so for `1 to 2-oz`, a doubled second unit, and `or` or a dash between two measures (`parser.py:96-102`, `142-150`) |
| `EveryRunTogetherAbstains` | `RecipeStages_pass` | `parser.py:24-27`, `341-343`, `526-528` and `tests/test_rule_abstain.py` have two lines run into one abstain; the rules that count pieces do not look for it, and `1 oz gin amaro3 oz egg whites` is 1 each of `oz gin amaro3 oz egg whites` |

Read in the code and in no property: a `pending` outcome is a ledger row and so never
comes back to the cold build's queue (`ledger.work_queue`), where `docs/pipeline.md:62-66`
has it come back; `convert.py` writes `recipe_slug` anew, which `export.py:7-9` calls
stable; `_recompute_counts` leaves a cluster that lost its last recipe with its old
count; `pre_clean` is not idempotent (`1 oz oz oz gin`), as its docstring says; a page no
batch ever answers is submitted again and again by a drain without a limit.

## Not modelled

HTTP clients, prompts and price tables (I/O and data), the public query API (reads), the
front end, the one-off data migration, HTML parsing and the sitemap walk. Partly: the
vocabularies of the parser (a few words of each), the normalization of names and titles,
the scores of the drink classifier, the reading of JSON-LD in the extract stage, the cold
build's command line, and the
audit triggers, which write a log nothing reads back.

## Plan

1. The queues of the recipe stages (`work_queue` over what the stage before has passed)
   when the taxonomy is corrected between two runs: what a correction must bring back.
2. The extract stage's reading of JSON-LD and its slug assignment; normalization of
   names.
3. A bound on what a run spends over all its passes; the antichain under the writes that
   do not check it.
4. The templates put each ingredient in once, for any number of them: it needs facts about
   `SelectSeq` that have to be proved by induction first.
