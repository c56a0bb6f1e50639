------------------------------ MODULE ScraperPages -----------------------------
(***************************************************************************)
(* The scraper: the page rows of scraper/db.py and the command lines that  *)
(* write them, each a process of its own.                                  *)
(*   discover   inserts the urls of a sitemap                              *)
(*   classify   labels unlabelled urls by an LLM, in batches               *)
(*   fetch      a pool of workers fetches pending pages, saves the HTML,   *)
(*              validates and scores it; a circuit breaker pauses a site   *)
(*   validate   validates and scores saved HTML that lacks an evaluation   *)
(* Each call of a Database method is one transaction, and one step here;   *)
(* a process may be killed between any two.  Ctrl-C and a refused account  *)
(* ask the fetch to stop: workers finish what they hold, the rest is       *)
(* cancelled.                                                              *)
(*                                                                         *)
(* Pages are numbered by their id, the order of discovery.  What a site    *)
(* may send for a page is the set Serves[p] of contents; what the rules    *)
(* make of a content is PageRules.  A deployment may bring a new version   *)
(* of the validator while no process runs.                                 *)
(***************************************************************************)
EXTENDS PageRules

CONSTANTS
    NumUrls,        \* urls in the sitemaps
    SiteOf,         \* the site of each; sites are numbered by name
    Contents,       \* names of the contents sites send
    Content,        \* the page record of each, as PageRules reads it
    Serves,         \* the contents each url may be answered with
    Fingerprints,   \* blocker fingerprints of each validator version
    UrlLabels,      \* labels of the URL classifier
    Filters,        \* values of --content-type
    AnyType,        \* the value any, no filter
    Workers,        \* threads of the fetch pool
    BreakerWindow,  \* CIRCUIT_BREAKER_WINDOW
    MaxAttempts,    \* MAX_ATTEMPTS
    BatchSize,      \* --batch-size of classify
    SitemapEnds,    \* how far the sitemaps may reach when they are read
    MaxRuns,        \* bound: pipeline_runs rows
    MaxResets,      \* bound: --reset
    MaxKills        \* bound: processes killed

Urls     == 1 .. NumUrls
Sites    == {SiteOf[u] : u \in Urls}
Versions == DOMAIN Fingerprints
Stages   == {"fetch", "validate_html", "classify_url"}

ASSUME ConstantsOK ==
    /\ NumUrls \in Nat
    /\ \A u \in Urls : SiteOf[u] \in Nat
    /\ None \notin Contents /\ None \notin [label : UrlLabels, before : {None}]
    /\ \A u \in Urls : Serves[u] \subseteq Contents
    /\ SitemapEnds \subseteq 1 .. NumUrls
    /\ 1 \in Versions
    /\ IsFiniteSet(Workers)
    /\ BreakerWindow \in Nat \ {0}
    /\ MaxAttempts \in Nat \ {0}

VARIABLES
    pages,     \* the rows of pages, by id
    file,      \* the HTML saved for each url
    verdict,   \* the row of validate_html_runs of each page
    scored,    \* the row of classify_drink_runs
    labelled,  \* the row of classify_url_runs
    runs,      \* pipeline_runs: how many were begun and finished by stage
    version,   \* VALIDATOR_VERSION of the deployed code
    fetch,     \* the main thread of the fetch process
    worker,    \* its workers
    val,       \* the validate process
    cls,       \* the classify process
    asked,     \* history: pages this fetch asked for under the breaker, errors aside,
               \* since validate last changed a status of their site
    kills,     \* processes killed so far
    resets     \* resets so far

tables == <<pages, verdict, scored, labelled>>
vars   == <<tables, file, runs, version, fetch, worker, val, cls, asked, kills, resets>>

-------------------------------------------------------------------------------
(* What the rules say of a content: its status, and its drink label. *)
StatusOf == [v \in Versions |-> [c \in Contents |-> Validate(Content[c], Fingerprints[v])]]
LabelOf  == [c \in Contents |-> ClassifyDrink(Content[c])]

(* No site has a type called as the two states of the queue are; a recipe is  *)
(* structured data, so its page has a type.                                   *)
ASSUME ContentsOK ==
    /\ \A v \in Versions, c \in Contents : StatusOf[v][c] \notin {"pending", "failed"}
    /\ \A c \in Contents : Content[c].recipes # <<>> => BestType(Content[c]) # None

Known == DOMAIN pages

NewPage == [status |-> "pending", label |-> None, saved |-> FALSE, attempts |-> 0]

(* The writes of Database. *)
MarkStatus(p, s, saved) == pages' = [pages EXCEPT ![p].status = s, ![p].saved = saved]
SetContentType(p, l)    == pages' = [pages EXCEPT ![p].label = l]
MarkFailed(p)           ==
    LET attempts == pages[p].attempts + 1
    IN  pages' = [pages EXCEPT ![p].attempts = attempts,
                               ![p].status = IF attempts >= MaxAttempts THEN "failed" ELSE @]
RecordValidate(p, s, before) ==
    verdict' = [verdict EXCEPT ![p] = [status |-> s, version |-> version, before |-> before]]
RecordScore(p, l, before) ==
    scored' = [scored EXCEPT ![p] = [label |-> l, before |-> before]]
(* bound *)
MayRun == runs["fetch"].begun + runs["validate_html"].begun + runs["classify_url"].begun < MaxRuns

StartRun(stage)  == runs' = [runs EXCEPT ![stage].begun = @ + 1]
FinishRun(stage) == runs' = [runs EXCEPT ![stage].finished = @ + 1]

(* Its work queues.  The rows are read in the order of site and discovery,  *)
(* the recent statuses from the highest id down.                            *)
InOrder(p, q) == SiteOf[p] < SiteOf[q] \/ (SiteOf[p] = SiteOf[q] /\ p < q)
BySite(S) == [i \in 1 .. Cardinality(S) |->
                 CHOOSE p \in S : Cardinality({q \in S : InOrder(q, p)}) = i - 1]
Pending(filter, site) ==
    {p \in Known : /\ pages[p].status = "pending"
                   /\ site # None => SiteOf[p] = site
                   /\ filter # AnyType => pages[p].label = filter}
ToValidate(site) ==
    {p \in Known : /\ pages[p].saved
                   /\ verdict[p] = None \/ scored[p] = None
                   /\ site # None => SiteOf[p] = site}
Unclassified == {p \in Known : pages[p].label = None}
RecentIds(site) ==
    LET seen == {p \in Known : SiteOf[p] = site /\ pages[p].status # "pending"}
    IN  {p \in seen : Cardinality({q \in seen : q > p}) < BreakerWindow}

(* Mutant: the window is never full enough. *)
BreakerTripsLate(site) ==
    /\ Cardinality(RecentIds(site)) > BreakerWindow
    /\ \E p \in RecentIds(site) : pages[p].status = "blocked"

(* check_circuit_breaker: more than two fifths of a full window blocked. *)
BreakerTrips(site) ==
    LET recent == RecentIds(site)
        blocked == {p \in recent : pages[p].status = "blocked"}
    IN  /\ Cardinality(recent) >= BreakerWindow
        /\ 10 * Cardinality(blocked) > 4 * BreakerWindow

Idle     == [pc |-> "idle", page |-> 0, before |-> None, content |-> None]
NoFetch  == [pc |-> "idle", force |-> None, queue |-> <<>>, interrupt |-> FALSE,
             aborted |-> FALSE, done |-> 0, fatal |-> 0, paused |-> {}]
NoVal    == [pc |-> "idle", queue |-> <<>>, content |-> None, site |-> None]
NoCls    == [pc |-> "idle", calls |-> {}, ok |-> FALSE]

Init ==
    /\ pages = <<>>
    /\ file = [u \in Urls |-> None]
    /\ verdict = [u \in Urls |-> None]
    /\ scored = [u \in Urls |-> None]
    /\ labelled = [u \in Urls |-> None]
    /\ runs = [s \in Stages |-> [begun |-> 0, finished |-> 0]]
    /\ version = 1
    /\ fetch = NoFetch
    /\ worker = [w \in Workers |-> Idle]
    /\ val = NoVal
    /\ cls = NoCls
    /\ asked = {}
    /\ kills = 0
    /\ resets = 0

-------------------------------------------------------------------------------
(* discover: the urls of a sitemap are inserted in one transaction, known    *)
(* ones ignored.  Sitemaps grow at their end.                                *)
Discover ==
    /\ \E n \in {m \in SitemapEnds : m > Len(pages)} :
         pages' = pages \o [i \in 1 .. n - Len(pages) |-> NewPage]
    /\ UNCHANGED <<verdict, scored, labelled, file, runs, version, fetch, worker, val, cls,
                   asked, kills, resets>>

(* A deployment between runs. *)
Deploy ==
    /\ fetch.pc = "idle" /\ val.pc = "idle" /\ cls.pc = "idle"
    /\ version + 1 \in Versions
    /\ version' = version + 1
    /\ UNCHANGED <<tables, file, runs, fetch, worker, val, cls, asked, kills, resets>>

-------------------------------------------------------------------------------
(* fetch_pages: the main thread. *)

(* The pending rows are read, with the label each has now; nothing is        *)
(* started for an empty queue.                                               *)
StartFetch(filter, site, force) ==
    LET pending == BySite(Pending(filter, IF site # None THEN site ELSE force))
    IN  /\ fetch.pc = "idle"
        /\ MayRun
        /\ pending # <<>>
        /\ fetch' = [NoFetch EXCEPT !.pc = "loop", !.force = force,
                       !.queue = [i \in DOMAIN pending |->
                                    [page |-> pending[i], label |-> pages[pending[i]].label]]]
        /\ asked' = {}
        /\ StartRun("fetch")
        /\ UNCHANGED <<tables, file, version, worker, val, cls, kills, resets>>

(* as_completed yields a finished future.  One that failed on the account     *)
(* aborts the run; after any other the loop ends if it was asked to stop.     *)
YieldResult ==
    /\ fetch.pc = "loop"
    /\ fetch.done > 0
    /\ fetch' = [fetch EXCEPT !.done = @ - 1,
                              !.pc = IF fetch.interrupt THEN "shutdown" ELSE @]
    /\ UNCHANGED <<tables, file, runs, version, worker, val, cls, asked, kills, resets>>

YieldFatal ==
    /\ fetch.pc = "loop"
    /\ fetch.fatal > 0
    /\ fetch' = [fetch EXCEPT !.interrupt = TRUE, !.aborted = TRUE, !.pc = "shutdown"]
    /\ UNCHANGED <<tables, file, runs, version, worker, val, cls, asked, kills, resets>>

WorkersIdle == \A w \in Workers : worker[w].pc = "idle"

AllYielded ==
    /\ fetch.pc = "loop"
    /\ fetch.queue = <<>> /\ WorkersIdle /\ fetch.done = 0 /\ fetch.fatal = 0
    /\ fetch' = [fetch EXCEPT !.pc = "shutdown"]
    /\ UNCHANGED <<tables, file, runs, version, worker, val, cls, asked, kills, resets>>

(* executor.shutdown cancels the queued futures and waits for the others. *)
CancelQueued ==
    /\ fetch.pc = "shutdown"
    /\ fetch' = [fetch EXCEPT !.queue = <<>>, !.pc = "wait"]
    /\ UNCHANGED <<tables, file, runs, version, worker, val, cls, asked, kills, resets>>

(* Mutant: only what the loop saw counts. *)
FinishFetchUnscanned ==
    /\ fetch.pc = "wait" /\ WorkersIdle
    /\ fetch' = [NoFetch EXCEPT !.pc = "ended", !.fatal = fetch.fatal, !.aborted = fetch.aborted]
    /\ FinishRun("fetch")
    /\ UNCHANGED <<tables, file, version, worker, val, cls, asked, kills, resets>>

(* After the wait: a fatal error that the loop did not come to is looked for. *)
FinishFetch ==
    /\ fetch.pc = "wait" /\ WorkersIdle
    /\ fetch' = [NoFetch EXCEPT !.pc = "ended", !.fatal = fetch.fatal,
                   !.aborted = fetch.aborted \/ (fetch.interrupt /\ fetch.fatal > 0)]
    /\ FinishRun("fetch")
    /\ UNCHANGED <<tables, file, version, worker, val, cls, asked, kills, resets>>

(* The message is printed and the process exits. *)
Report ==
    /\ fetch.pc = "ended"
    /\ fetch' = NoFetch
    /\ asked' = {}
    /\ UNCHANGED <<tables, file, runs, version, worker, val, cls, kills, resets>>

(* Ctrl-C: the first asks to stop, a second leaves the loop at once; the     *)
(* interpreter still waits for the threads of the pool.                      *)
CtrlC ==
    /\ fetch.pc \in {"loop", "shutdown", "wait"}
    /\ IF fetch.interrupt
       THEN /\ kills < MaxKills
            /\ kills' = kills + 1
            /\ fetch' = [NoFetch EXCEPT !.pc = "abandon", !.interrupt = TRUE, !.force = fetch.force,
                                        !.paused = fetch.paused]
       ELSE /\ fetch' = [fetch EXCEPT !.interrupt = TRUE]
            /\ UNCHANGED kills
    /\ UNCHANGED <<tables, file, runs, version, worker, val, cls, asked, resets>>

Abandoned ==
    /\ fetch.pc = "abandon" /\ WorkersIdle
    /\ fetch' = NoFetch
    /\ asked' = {}
    /\ UNCHANGED <<tables, file, runs, version, worker, val, cls, kills, resets>>

KillFetch ==
    /\ fetch.pc # "idle" /\ kills < MaxKills
    /\ kills' = kills + 1
    /\ fetch' = NoFetch
    /\ worker' = [w \in Workers |-> Idle]
    /\ asked' = {}
    /\ UNCHANGED <<tables, file, runs, version, val, cls, resets>>

-------------------------------------------------------------------------------
(* fetch_pages: process_one, on the threads of the pool. *)

Goto(w, step)  == worker' = [worker EXCEPT ![w].pc = step]
(* A future ends; the loop of the main thread will see it. *)
DonePausing(w, sites) ==
    /\ worker' = [worker EXCEPT ![w] = Idle]
    /\ fetch' = [fetch EXCEPT !.done = IF fetch.pc = "loop" THEN @ + 1 ELSE @,
                              !.paused = @ \cup sites]
Done(w)  == DonePausing(w, {})
Pause(w) == DonePausing(w, {SiteOf[worker[w].page]})

(* A thread takes the next future: nothing is done once a stop was asked     *)
(* for, or for a paused site that is not forced.                             *)
Take(w) ==
    /\ worker[w].pc = "idle" /\ fetch.queue # <<>>
    /\ LET row  == Head(fetch.queue)
           site == SiteOf[row.page]
           skip == fetch.interrupt \/ (site # fetch.force /\ site \in fetch.paused)
       IN  /\ fetch' = [fetch EXCEPT !.queue = Tail(@),
                              !.done = IF skip /\ fetch.pc = "loop" THEN @ + 1 ELSE @]
           /\ worker' = [worker EXCEPT ![w] =
                IF skip THEN Idle
                ELSE [Idle EXCEPT !.pc = IF site = fetch.force THEN "fetch" ELSE "check",
                                  !.page = row.page, !.before = row.label]]
    /\ UNCHANGED <<tables, file, runs, version, val, cls, asked, kills, resets>>

(* The breaker is read before the request. *)
Check(w) ==
    LET p == worker[w].page
    IN  /\ worker[w].pc = "check"
        /\ IF BreakerTrips(SiteOf[p])
           THEN Pause(w) /\ UNCHANGED asked
           ELSE Goto(w, "fetch") /\ asked' = asked \cup {p} /\ UNCHANGED fetch
        /\ UNCHANGED <<tables, file, runs, version, val, cls, kills, resets>>

(* The request fails: an attempt is counted, the last one takes the page     *)
(* out of the queue.                                                         *)
FetchFails(w) ==
    /\ worker[w].pc = "fetch"
    /\ MarkFailed(worker[w].page)
    /\ Done(w)
    /\ asked' = asked \ {worker[w].page}
    /\ UNCHANGED <<verdict, scored, labelled, file, runs, version, val, cls, kills, resets>>

(* The account is refused: a stop is asked for and the future fails. *)
FetchRefused(w) ==
    /\ worker[w].pc = "fetch"
    /\ worker' = [worker EXCEPT ![w] = Idle]
    /\ fetch' = [fetch EXCEPT !.interrupt = TRUE, !.fatal = @ + 1]
    /\ UNCHANGED <<tables, file, runs, version, val, cls, asked, kills, resets>>

(* The page is there: its HTML is saved before the row is written. *)
FetchSaves(w) ==
    /\ worker[w].pc = "fetch"
    /\ \E c \in Serves[worker[w].page] :
         /\ file' = [file EXCEPT ![worker[w].page] = c]
         /\ worker' = [worker EXCEPT ![w].pc = "status", ![w].content = c]
    /\ UNCHANGED <<tables, runs, version, fetch, val, cls, asked, kills, resets>>

WriteStatus(w) ==
    /\ worker[w].pc = "status"
    /\ MarkStatus(worker[w].page, StatusOf[version][worker[w].content], TRUE)
    /\ Goto(w, "verdict")
    /\ UNCHANGED <<verdict, scored, labelled, file, runs, version, fetch, val, cls, asked, kills, resets>>

(* The label of a recipe is kept unless the page is blocked. *)
Relabels(c) == StatusOf[version][c] # "blocked" /\ LabelOf[c] # None

WriteVerdict(w) ==
    LET c == worker[w].content
    IN  /\ worker[w].pc = "verdict"
        /\ RecordValidate(worker[w].page, StatusOf[version][c], "pending")
        /\ Goto(w, IF Relabels(c) THEN "label" ELSE "score")
        /\ UNCHANGED <<pages, scored, labelled, file, runs, version, fetch, val, cls, asked, kills, resets>>

WriteLabel(w) ==
    /\ worker[w].pc = "label"
    /\ SetContentType(worker[w].page, LabelOf[worker[w].content])
    /\ Goto(w, "score")
    /\ UNCHANGED <<verdict, scored, labelled, file, runs, version, fetch, val, cls, asked, kills, resets>>

WriteScore(w) ==
    LET p == worker[w].page
    IN  /\ worker[w].pc = "score"
        /\ RecordScore(p, LabelOf[worker[w].content], worker[w].before)
        /\ IF SiteOf[p] = fetch.force THEN Done(w) ELSE Goto(w, "recheck") /\ UNCHANGED fetch
        /\ UNCHANGED <<pages, verdict, labelled, file, runs, version, val, cls, asked, kills, resets>>

(* The breaker is read again after the page. *)
Recheck(w) ==
    /\ worker[w].pc = "recheck"
    /\ IF BreakerTrips(SiteOf[worker[w].page]) THEN Pause(w) ELSE Done(w)
    /\ UNCHANGED <<tables, file, runs, version, val, cls, asked, kills, resets>>

ProcessOne(w) ==
    \/ Take(w) \/ Check(w) \/ FetchFails(w) \/ FetchRefused(w) \/ FetchSaves(w)
    \/ WriteStatus(w) \/ WriteVerdict(w) \/ WriteLabel(w) \/ WriteScore(w) \/ Recheck(w)

-------------------------------------------------------------------------------
(* revalidate: one thread over the rows read at its start. *)

StartValidate(site) ==
    LET rows == BySite(ToValidate(site))
    IN  /\ val.pc = "idle"
        /\ MayRun
        /\ rows # <<>>
        /\ val' = [NoVal EXCEPT !.pc = "next", !.queue =
                     [i \in DOMAIN rows |-> [page |-> rows[i], status |-> pages[rows[i]].status,
                                             label |-> pages[rows[i]].label]]]
        /\ StartRun("validate_html")
        /\ UNCHANGED <<tables, file, version, fetch, worker, cls, asked, kills, resets>>

(* --reset deletes the rows of both tables, in two transactions. *)
StartReset(site) ==
    /\ val.pc = "idle"
    /\ resets < MaxResets
    /\ \E p \in Known : verdict[p] # None \/ scored[p] # None
    /\ val' = [NoVal EXCEPT !.pc = "clear", !.site = site]
    /\ verdict' = [p \in Urls |-> IF site \in {None, SiteOf[p]} THEN None ELSE verdict[p]]
    /\ resets' = resets + 1
    /\ UNCHANGED <<pages, scored, labelled, file, runs, version, fetch, worker, cls, asked, kills>>

ClearScores ==
    /\ val.pc = "clear"
    /\ val' = NoVal
    /\ scored' = [p \in Urls |-> IF val.site \in {None, SiteOf[p]} THEN None ELSE scored[p]]
    /\ UNCHANGED <<pages, verdict, labelled, file, runs, version, fetch, worker, cls, asked, kills, resets>>

Row == Head(val.queue)

(* Mutant: the status of the page is not refreshed. *)
NextRowRecordOnly ==
    /\ val.pc = "next" /\ val.queue # <<>>
    /\ val' = IF file[Row.page] = None THEN [val EXCEPT !.queue = Tail(@)]
              ELSE [val EXCEPT !.content = file[Row.page], !.pc = "verdict"]
    /\ UNCHANGED <<tables, file, runs, version, fetch, worker, cls, asked, kills, resets>>

(* A row without its file is passed over; the others are evaluated against   *)
(* the status read with the queue.                                           *)
NextRow ==
    /\ val.pc = "next" /\ val.queue # <<>>
    /\ LET c == file[Row.page]
       IN  val' = IF c = None THEN [val EXCEPT !.queue = Tail(@)]
                  ELSE [val EXCEPT !.content = c,
                          !.pc = IF StatusOf[version][c] # Row.status THEN "status" ELSE "verdict"]
    /\ UNCHANGED <<tables, file, runs, version, fetch, worker, cls, asked, kills, resets>>

(* A page that is now blocked loses its html_path: mark_blocked is called     *)
(* without one.                                                              *)
Restatus ==
    LET s == StatusOf[version][val.content]
    IN  /\ val.pc = "status"
        /\ MarkStatus(Row.page, s, s # "blocked")
        /\ val' = [val EXCEPT !.pc = "verdict"]
        /\ asked' = {p \in asked : SiteOf[p] # SiteOf[Row.page]}
        /\ UNCHANGED <<verdict, scored, labelled, file, runs, version, fetch, worker, cls, kills, resets>>

Reverdict ==
    /\ val.pc = "verdict"
    /\ RecordValidate(Row.page, StatusOf[version][val.content], Row.status)
    /\ val' = [val EXCEPT !.pc = IF Relabels(val.content) /\ LabelOf[val.content] # Row.label
                                 THEN "label" ELSE "score"]
    /\ UNCHANGED <<pages, scored, labelled, file, runs, version, fetch, worker, cls, asked, kills, resets>>

Relabel ==
    /\ val.pc = "label"
    /\ SetContentType(Row.page, LabelOf[val.content])
    /\ val' = [val EXCEPT !.pc = "score"]
    /\ UNCHANGED <<verdict, scored, labelled, file, runs, version, fetch, worker, cls, asked, kills, resets>>

Rescore ==
    /\ val.pc = "score"
    /\ RecordScore(Row.page, LabelOf[val.content], Row.label)
    /\ val' = [val EXCEPT !.pc = "next", !.queue = Tail(@), !.content = None]
    /\ UNCHANGED <<pages, verdict, labelled, file, runs, version, fetch, worker, cls, asked, kills, resets>>

FinishValidate ==
    /\ val.pc = "next" /\ val.queue = <<>>
    /\ val' = NoVal
    /\ FinishRun("validate_html")
    /\ UNCHANGED <<tables, file, version, fetch, worker, cls, asked, kills, resets>>

KillValidate ==
    /\ val.pc # "idle" /\ kills < MaxKills
    /\ kills' = kills + 1
    /\ val' = NoVal
    /\ UNCHANGED <<tables, file, runs, version, fetch, worker, cls, asked, resets>>

Revalidate == NextRow \/ Restatus \/ Reverdict \/ Relabel \/ Rescore \/ FinishValidate \/ ClearScores

-------------------------------------------------------------------------------
(* classify, run_main: batches of unlabelled pages; the calls of a batch are  *)
(* under way together and answer in any order.                               *)

FirstOf(S, n) == {p \in S : Cardinality({q \in S : q < p}) < n}

StartClassify ==
    /\ cls.pc = "idle"
    /\ MayRun
    /\ cls' = [NoCls EXCEPT !.pc = "batch"]
    /\ StartRun("classify_url")
    /\ UNCHANGED <<tables, file, version, fetch, worker, val, asked, kills, resets>>

NextBatch ==
    /\ cls.pc = "batch" /\ Unclassified # {}
    /\ cls' = [pc |-> "calls", calls |-> FirstOf(Unclassified, BatchSize), ok |-> FALSE]
    /\ UNCHANGED <<tables, file, runs, version, fetch, worker, val, asked, kills, resets>>

(* The answer and the label are written together.  The row of the queue has   *)
(* no content_type, so the snapshot is NULL.                                 *)
CallAnswers(p) ==
    /\ p \in cls.calls
    /\ \E l \in UrlLabels :
         /\ labelled' = [labelled EXCEPT ![p] = [label |-> l, before |-> None]]
         /\ SetContentType(p, l)
    /\ cls' = [cls EXCEPT !.calls = @ \ {p}, !.ok = TRUE]
    /\ UNCHANGED <<verdict, scored, file, runs, version, fetch, worker, val, asked, kills, resets>>

CallFails(p) ==
    /\ p \in cls.calls
    /\ cls' = [cls EXCEPT !.calls = @ \ {p}]
    /\ UNCHANGED <<tables, file, runs, version, fetch, worker, val, asked, kills, resets>>

(* Mutant: the batch is tried again. *)
EndBatchAgain ==
    /\ cls.pc = "calls" /\ cls.calls = {}
    /\ cls' = [cls EXCEPT !.pc = "batch"]
    /\ UNCHANGED <<tables, file, runs, version, fetch, worker, val, asked, kills, resets>>

(* A batch without any answer ends the run. *)
EndBatch ==
    /\ cls.pc = "calls" /\ cls.calls = {}
    /\ cls' = [cls EXCEPT !.pc = IF cls.ok THEN "batch" ELSE "end"]
    /\ UNCHANGED <<tables, file, runs, version, fetch, worker, val, asked, kills, resets>>

FinishClassify ==
    /\ \/ cls.pc = "batch" /\ Unclassified = {}
       \/ cls.pc = "end"
    /\ cls' = NoCls
    /\ FinishRun("classify_url")
    /\ UNCHANGED <<tables, file, version, fetch, worker, val, asked, kills, resets>>

KillClassify ==
    /\ cls.pc # "idle" /\ kills < MaxKills
    /\ kills' = kills + 1
    /\ cls' = NoCls
    /\ UNCHANGED <<tables, file, runs, version, fetch, worker, val, asked, resets>>

(* Mutant: the labels stay. *)
ResetClassifyRows(site) ==
    LET gone == {p \in Known : labelled[p] # None /\ site \in {None, SiteOf[p]}}
    IN  /\ cls.pc = "idle" /\ resets < MaxResets
        /\ gone # {}
        /\ labelled' = [p \in Urls |-> IF p \in gone THEN None ELSE labelled[p]]
        /\ resets' = resets + 1
        /\ UNCHANGED <<pages, verdict, scored, file, runs, version, fetch, worker, val, cls, asked, kills>>

(* classify --reset: rows and labels go in one transaction. *)
ResetClassify(site) ==
    LET gone == {p \in Known : labelled[p] # None /\ site \in {None, SiteOf[p]}}
    IN  /\ cls.pc = "idle" /\ resets < MaxResets
        /\ gone # {}
        /\ labelled' = [p \in Urls |-> IF p \in gone THEN None ELSE labelled[p]]
        /\ pages' = [p \in Known |-> IF p \in gone THEN [pages[p] EXCEPT !.label = None] ELSE pages[p]]
        /\ resets' = resets + 1
        /\ UNCHANGED <<verdict, scored, file, runs, version, fetch, worker, val, cls, asked, kills>>

Classify == \/ NextBatch \/ EndBatch \/ FinishClassify
            \/ \E p \in cls.calls : CallAnswers(p) \/ CallFails(p)

-------------------------------------------------------------------------------
Main == YieldResult \/ YieldFatal \/ AllYielded \/ CancelQueued \/ FinishFetch \/ Report \/ Abandoned

Environment ==
    \/ Discover \/ Deploy \/ CtrlC \/ KillFetch \/ KillValidate \/ KillClassify
    \/ \E filter \in Filters, site, force \in Sites \cup {None} : StartFetch(filter, site, force)
    \/ \E site \in Sites \cup {None} : StartValidate(site) \/ StartReset(site) \/ ResetClassify(site)
    \/ StartClassify

Next == Main \/ Revalidate \/ Classify \/ Environment \/ \E w \in Workers : ProcessOne(w)

Spec == Init /\ [][Next]_vars

(* The threads of a process that runs are scheduled, and a request or a call  *)
(* comes back: both have timeouts.                                           *)
FairSpec ==
    /\ Spec
    /\ WF_vars(Main) /\ WF_vars(Revalidate) /\ WF_vars(Classify)
    /\ \A w \in Workers : WF_vars(ProcessOne(w))

-------------------------------------------------------------------------------
(* Type invariant: the ranges of the tables and of the processes' locals.     *)
Statuses   == {"pending", "failed"} \cup {StatusOf[v][c] : v \in Versions, c \in Contents}
PageLabels == UrlLabels \cup {LabelOf[c] : c \in Contents} \cup {None}
PageRecord == [status : Statuses, label : PageLabels, saved : BOOLEAN, attempts : 0 .. MaxAttempts]
VerdictRow == [status : Statuses, version : Versions, before : Statuses]
ScoreRow   == [label : PageLabels, before : PageLabels]
UrlRow     == [label : UrlLabels, before : {None}]
AnySite    == Sites \cup {None}

TablesOK ==
    /\ pages \in Seq(PageRecord) /\ Len(pages) <= NumUrls
    /\ \A p \in Known : pages[p].status = "pending" => pages[p].attempts < MaxAttempts
    /\ file \in [Urls -> Contents \cup {None}]
    /\ verdict \in [Urls -> VerdictRow \cup {None}]
    /\ scored \in [Urls -> ScoreRow \cup {None}]
    /\ labelled \in [Urls -> UrlRow \cup {None}]
    /\ runs \in [Stages -> [begun : Nat, finished : Nat]]
    /\ \A s \in Stages : runs[s].finished <= runs[s].begun
    /\ version \in Versions /\ {kills, resets} \subseteq Nat
FetchRow     == [page : Urls, label : PageLabels]
FetchRecord  ==
    [pc : {"idle", "loop", "shutdown", "wait", "ended", "abandon"}, force : AnySite,
     queue : Seq(FetchRow), interrupt : BOOLEAN, aborted : BOOLEAN, done : Nat, fatal : Nat,
     paused : SUBSET Sites]
WorkerRecord ==
    [pc : {"idle", "check", "fetch", "status", "verdict", "label", "score", "recheck"},
     page : Urls \cup {0}, before : PageLabels, content : Contents \cup {None}]
ValRow       == [page : Urls, status : Statuses, label : PageLabels]
ValRecord    ==
    [pc : {"idle", "clear", "next", "status", "verdict", "label", "score"}, queue : Seq(ValRow),
     content : Contents \cup {None}, site : AnySite]
ClsRecord    == [pc : {"idle", "batch", "calls", "end"}, calls : SUBSET Urls, ok : BOOLEAN]

LocalsOK ==
    /\ fetch \in FetchRecord /\ worker \in [Workers -> WorkerRecord]
    /\ val \in ValRecord /\ cls \in ClsRecord
    /\ cls.calls \subseteq Known /\ asked \subseteq Known
TypeOK == TablesOK /\ LocalsOK

InHand(p) == \/ \E w \in Workers : worker[w].page = p
             \/ val.pc \in {"status", "verdict", "label", "score"} /\ Row.page = p

(* Nothing the validate queue passes over is wrong: a page with its HTML path *)
(* and both evaluation rows, in nobody's hand, has the status its row says,   *)
(* whatever was killed, reset, deployed and run again before                  *)
(* (get_pending_validate_html: "re-running both sides is safe").              *)
SettledStatusIsRecorded ==
    \A p \in Known : (pages[p].saved /\ verdict[p] # None /\ scored[p] # None /\ ~ InHand(p))
                        => pages[p].status = verdict[p].status

(* A site that answers every request with a blocked page is left alone soon:  *)
(* one fetch asks it, where not forced, for no more pages than fill the        *)
(* window, less one, plus one for each worker.  What validate made of older    *)
(* pages of the site meanwhile starts the count again.                         *)
BlockedSiteIsLeftAlone ==
    \A site \in Sites :
        LET mine == {p \in asked : SiteOf[p] = site}
        IN  (\A p \in Known : SiteOf[p] = site => pages[p].status \in {"pending", "blocked"})
                => Cardinality(mine) <= BreakerWindow + Cardinality(Workers) - 1

(* No label without an account of it: the label of a page in nobody's hand is  *)
(* the one of its URL or its score row, or validate will visit the page.       *)
(* What reset_classify_url must not leave: "pages where the eval row is gone   *)
(* but content_type is still set", out of the queue and of the audit trail.    *)
LabelIsExplained ==
    \A p \in Known : (pages[p].label # None /\ ~ InHand(p)) =>
        \/ labelled[p] # None /\ labelled[p].label = pages[p].label
        \/ scored[p] # None /\ scored[p].label = pages[p].label
        \/ p \in ToValidate(None)

(* A refused account is reported: a fetch that comes to its end after a       *)
(* worker was refused has the abort message, whichever future the loop saw    *)
(* first (the race recovery after the shutdown).                              *)
FatalIsReported == fetch.pc = "ended" /\ fetch.fatal > 0 => fetch.aborted

(* What the crawl has saved stays within reach of an evaluation: a page that  *)
(* was fetched, lacks an evaluation row and is in nobody's hand is in the     *)
(* queue of validate.  The code does not keep this: a page that a revalidation *)
(* marks blocked is in no queue, although its file stays.                     *)
SavedHtmlIsReachable ==
    \A p \in Known : ( /\ file[p] # None /\ pages[p].status \notin {"pending", "failed"}
                       /\ verdict[p] = None \/ scored[p] = None
                       /\ ~ InHand(p) )
                     => p \in ToValidate(None)

(* Every fetch and every classify that was started and is not killed comes to *)
(* its end: through interrupts, pauses, a refused account and answers in any   *)
(* order.  Validate takes one row after the other of a queue it read once.     *)
ProcessesEnd ==
    /\ fetch.pc # "idle" ~> fetch.pc = "idle"
    /\ cls.pc # "idle" ~> cls.pc = "idle"
================================================================================
