-------------------------- MODULE ScraperPagesProofs --------------------------
(******************************************************************************)
(* Theorems about ScraperPages, for every number of pages, sites, workers and *)
(* attempts, any breaker window, any contents and any versions of the         *)
(* validator. The invariant is a conjunction of facts about the rows of one   *)
(* page (DataInv), about the places a page can be at: the queue of the fetch, *)
(* the hand of a worker, the queue of validate (PlaceInv), about the ledger,  *)
(* the stop after a refused account, and the count of pages that were asked   *)
(* for (AskedInv). A frame lemma for each says what a step must leave alone   *)
(* to keep it; then there is one lemma for every step of every process.       *)
(******************************************************************************)
EXTENDS ScraperPages, FiniteSetTheorems, SequenceTheorems, TLAPS

-------------------------------------------------------------------------------
(* Finite sets in a strict total order, given as its set of pairs: how many    *)
(* elements come before one is its place, and the elements can be listed.      *)
Before(S, R, p) == {q \in S : <<q, p>> \in R}
(* R is a strict total order of S.                                            *)
Orders(R, S) ==
    /\ \A p \in S : <<p, p>> \notin R
    /\ \A p, q, r \in S : <<p, q>> \in R /\ <<q, r>> \in R => <<p, r>> \in R
    /\ \A p, q \in S : p # q => <<p, q>> \in R \/ <<q, p>> \in R

(* An element that comes before another has fewer before it. *)
LEMMA RankOrder ==
    ASSUME NEW S, IsFiniteSet(S), NEW R, Orders(R, S), NEW p \in S, NEW r \in S, <<p, r>> \in R
    PROVE  Cardinality(Before(S, R, p)) < Cardinality(Before(S, R, r))
<1>1. Before(S, R, p) \subseteq Before(S, R, r) /\ p \in Before(S, R, r) /\ p \notin Before(S, R, p)
    BY DEF Before, Orders
<1>2. IsFiniteSet(Before(S, R, r))
    <2>1. Before(S, R, r) \subseteq S
        BY DEF Before
    <2> QED BY <2>1, FS_Subset
<1>3. /\ Cardinality(Before(S, R, p)) <= Cardinality(Before(S, R, r))
      /\ IsFiniteSet(Before(S, R, p))
      /\ Cardinality(Before(S, R, p)) # Cardinality(Before(S, R, r))
    BY <1>1, <1>2, FS_Subset
<1>4. Cardinality(Before(S, R, p)) \in Nat /\ Cardinality(Before(S, R, r)) \in Nat
    BY <1>2, <1>3, FS_CardinalityType
<1> QED BY <1>3, <1>4

(* Every place is a number less than the size of the set. *)
LEMMA RankRange ==
    ASSUME NEW S, IsFiniteSet(S), NEW R, Orders(R, S), NEW p \in S
    PROVE  /\ Cardinality(Before(S, R, p)) \in Nat
           /\ Cardinality(S) \in Nat
           /\ Cardinality(Before(S, R, p)) < Cardinality(S)
<1>1. Before(S, R, p) \subseteq S /\ p \notin Before(S, R, p)
    BY DEF Before, Orders
<1>2. /\ IsFiniteSet(Before(S, R, p)) /\ Cardinality(Before(S, R, p)) <= Cardinality(S)
      /\ Cardinality(Before(S, R, p)) # Cardinality(S)
    BY <1>1, FS_Subset
<1> QED BY <1>2, FS_CardinalityType

(* No two elements share a place, and every place is taken. *)
LEMMA RankBijective ==
    ASSUME NEW S, IsFiniteSet(S), NEW R, Orders(R, S)
    PROVE  /\ \A p, r \in S : Cardinality(Before(S, R, p)) = Cardinality(Before(S, R, r)) => p = r
           /\ \A i \in 1 .. Cardinality(S) : \E p \in S : Cardinality(Before(S, R, p)) = i - 1
<1> DEFINE n == Cardinality(S)
           f == [p \in S |-> Cardinality(Before(S, R, p)) + 1]
<1>0. n \in Nat
    BY FS_CardinalityType
<1>1. ASSUME NEW p \in S, NEW r \in S, p # r
      PROVE  Cardinality(Before(S, R, p)) # Cardinality(Before(S, R, r))
    <2>1. <<p, r>> \in R \/ <<r, p>> \in R
        BY <1>1 DEF Orders
    <2>2. Cardinality(Before(S, R, p)) \in Nat /\ Cardinality(Before(S, R, r)) \in Nat
        BY RankRange
    <2>3. CASE <<p, r>> \in R
        <3>1. Cardinality(Before(S, R, p)) < Cardinality(Before(S, R, r))
            BY <2>3, RankOrder
        <3> QED BY <2>2, <3>1
    <2>4. CASE <<r, p>> \in R
        <3>1. Cardinality(Before(S, R, r)) < Cardinality(Before(S, R, p))
            BY <2>4, RankOrder
        <3> QED BY <2>2, <3>1
    <2> QED BY <2>1, <2>3, <2>4
<1>2. f \in [S -> 1 .. n]
    <2>1. \A p \in S : Cardinality(Before(S, R, p)) \in Nat /\ Cardinality(Before(S, R, p)) < n
        BY RankRange
    <2> HIDE DEF n
    <2> QED BY <1>0, <2>1
<1>3. ASSUME NEW p \in S, NEW r \in S, p # r PROVE f[p] # f[r]
    <2>1. Cardinality(Before(S, R, p)) \in Nat /\ Cardinality(Before(S, R, r)) \in Nat
        BY RankRange
    <2> QED BY <1>1, <1>3, <2>1
<1>4. f \in Injection(S, 1 .. n)
    <2> HIDE DEF n, f
    <2> QED BY <1>2, <1>3 DEF Injection, IsInjective
<1>5. f \in Surjection(S, 1 .. n)
    <2>1. IsFiniteSet(1 .. n) /\ Cardinality(1 .. n) = n
        <3> HIDE DEF n
        <3> QED BY <1>0, FS_Interval
    <2> HIDE DEF f
    <2> QED BY <1>4, <2>1, FS_Injection
<1>6. ASSUME NEW i \in 1 .. n PROVE \E p \in S : Cardinality(Before(S, R, p)) = i - 1
    <2>1. PICK p \in S : f[p] = i
        BY <1>5 DEF Surjection
    <2>2. Cardinality(Before(S, R, p)) \in Nat
        BY RankRange
    <2>3. Cardinality(Before(S, R, p)) + 1 = i
        BY <2>1
    <2> QED BY <2>2, <2>3
<1> QED BY <1>1, <1>6

(* A set with n elements at least has n that fewer than n come before. *)
LEMMA FirstAreMany ==
    ASSUME NEW S, IsFiniteSet(S), NEW R, Orders(R, S), NEW n \in Nat, n <= Cardinality(S)
    PROVE  LET T == {p \in S : Cardinality(Before(S, R, p)) < n}
           IN  IsFiniteSet(T) /\ Cardinality(T) \in Nat /\ Cardinality(T) >= n
<1> DEFINE T == {p \in S : Cardinality(Before(S, R, p)) < n}
           g == [p \in T |-> Cardinality(Before(S, R, p)) + 1]
<1>1. IsFiniteSet(T)
    BY FS_Subset
<1>2. Cardinality(T) \in Nat /\ Cardinality(S) \in Nat
    BY <1>1, FS_CardinalityType
<1>3. \A p \in T : Cardinality(Before(S, R, p)) \in Nat /\ Cardinality(Before(S, R, p)) < n
    BY RankRange
<1>4. g \in [T -> 1 .. n]
    <2> HIDE DEF T
    <2> QED BY <1>3
<1>5. ASSUME NEW i \in 1 .. n PROVE \E p \in T : g[p] = i
    <2>1. i \in 1 .. Cardinality(S)
        BY <1>2
    <2>2. PICK p \in S : Cardinality(Before(S, R, p)) = i - 1
        BY <2>1, RankBijective
    <2>3. p \in T /\ g[p] = i
        BY <2>2
    <2> QED BY <2>3
<1>6. g \in Surjection(T, 1 .. n)
    <2> HIDE DEF T, g
    <2> QED BY <1>4, <1>5 DEF Surjection
<1>7. Cardinality(1 .. n) = n
    BY FS_Interval
<1>8. Cardinality(1 .. n) <= Cardinality(T)
    <2> HIDE DEF T, g
    <2> QED BY <1>1, <1>6, FS_Surjection
<1> QED BY <1>1, <1>2, <1>7, <1>8

-------------------------------------------------------------------------------
(* The operators of the scraper. *)
SiteOrder == {e \in Urls \X Urls : InOrder(e[1], e[2])}
(* Rows of the latest pages first, as the breaker reads them.                 *)
IdsDown   == {e \in Urls \X Urls : e[1] > e[2]}

(* The pages are finitely many numbers.                                       *)
LEMMA UrlsFinite == IsFiniteSet(Urls) /\ Urls \subseteq Nat
BY ConstantsOK, FS_Interval DEF Urls

(* Both orders are strict and total: of two pages of different sites the site *)
(* decides, of one site the id.                                               *)
LEMMA OrdersAre == Orders(SiteOrder, Urls) /\ Orders(IdsDown, Urls)
<1>1. \A p \in Urls : p \in Nat /\ SiteOf[p] \in Nat
    BY ConstantsOK, UrlsFinite
<1>2. Orders(SiteOrder, Urls)
    <2>1. \A p \in Urls : <<p, p>> \notin SiteOrder
        BY <1>1 DEF SiteOrder, InOrder
    <2>2. ASSUME NEW p \in Urls, NEW q \in Urls, NEW r \in Urls, <<p, q>> \in SiteOrder, <<q, r>> \in SiteOrder
          PROVE  <<p, r>> \in SiteOrder
        <3>1. InOrder(p, q) /\ InOrder(q, r)
            BY <2>2 DEF SiteOrder
        <3>2. /\ p \in Nat /\ q \in Nat /\ r \in Nat
              /\ SiteOf[p] \in Nat /\ SiteOf[q] \in Nat /\ SiteOf[r] \in Nat
            BY <1>1
        <3>3. InOrder(p, r)
            BY <3>1, <3>2 DEF InOrder
        <3> QED BY <3>3 DEF SiteOrder
    <2>3. ASSUME NEW p \in Urls, NEW q \in Urls, p # q PROVE <<p, q>> \in SiteOrder \/ <<q, p>> \in SiteOrder
        <3>1. p \in Nat /\ q \in Nat /\ SiteOf[p] \in Nat /\ SiteOf[q] \in Nat
            BY <1>1
        <3>2. InOrder(p, q) \/ InOrder(q, p)
            BY <2>3, <3>1 DEF InOrder
        <3> QED BY <3>2 DEF SiteOrder
    <2> QED BY <2>1, <2>2, <2>3 DEF Orders
<1>3. Orders(IdsDown, Urls)
    <2>1. \A p \in Urls : <<p, p>> \notin IdsDown
        BY <1>1 DEF IdsDown
    <2>2. ASSUME NEW p \in Urls, NEW q \in Urls, NEW r \in Urls, <<p, q>> \in IdsDown, <<q, r>> \in IdsDown
          PROVE  <<p, r>> \in IdsDown
        <3>1. p > q /\ q > r /\ p \in Nat /\ q \in Nat /\ r \in Nat
            BY <1>1, <2>2 DEF IdsDown
        <3>2. p > r
            BY <3>1
        <3> QED BY <3>2 DEF IdsDown
    <2>3. ASSUME NEW p \in Urls, NEW q \in Urls, p # q PROVE <<p, q>> \in IdsDown \/ <<q, p>> \in IdsDown
        <3>1. p \in Nat /\ q \in Nat /\ (p > q \/ q > p)
            BY <1>1, <2>3
        <3> QED BY <3>1 DEF IdsDown
    <2> QED BY <2>1, <2>2, <2>3 DEF Orders
<1> QED BY <1>2, <1>3

(* What orders a set orders its subsets. *)
LEMMA OrdersSubset == ASSUME NEW R, NEW S, NEW T \in SUBSET S, Orders(R, S) PROVE Orders(R, T)
BY DEF Orders

(* The queue of a process lists the rows it was made of, each once. *)
LEMMA BySiteLists ==
    ASSUME NEW S \in SUBSET Urls
    PROVE  /\ BySite(S) \in Seq(S)
           /\ \A i, k \in DOMAIN BySite(S) : i # k => BySite(S)[i] # BySite(S)[k]
<1> DEFINE n == Cardinality(S)
           g == [i \in 1 .. n |-> CHOOSE p \in S : Cardinality({q \in S : InOrder(q, p)}) = i - 1]
<1>1. IsFiniteSet(S) /\ Orders(SiteOrder, S)
    BY UrlsFinite, OrdersAre, OrdersSubset, FS_Subset
<1>2. n \in Nat
    BY <1>1, FS_CardinalityType
<1>3. \A p \in S : Before(S, SiteOrder, p) = {q \in S : InOrder(q, p)}
    BY DEF Before, SiteOrder
<1>4. \A i \in 1 .. n : \E p \in S : Cardinality({q \in S : InOrder(q, p)}) = i - 1
    <2>1. \A i \in 1 .. n : \E p \in S : Cardinality(Before(S, SiteOrder, p)) = i - 1
        BY <1>1, RankBijective
    <2> QED BY <1>3, <2>1
<1>5. BySite(S) = g
    BY DEF BySite
<1>6. \A i \in 1 .. n : g[i] \in S /\ Cardinality({q \in S : InOrder(q, g[i])}) = i - 1
    <2> SUFFICES ASSUME NEW i \in 1 .. n
                 PROVE  g[i] \in S /\ Cardinality({q \in S : InOrder(q, g[i])}) = i - 1
        OBVIOUS
    <2>1. g[i] = CHOOSE p \in S : Cardinality({q \in S : InOrder(q, p)}) = i - 1
        OBVIOUS
    <2> HIDE DEF g
    <2> QED BY <1>4, <2>1
<1>7. g \in Seq(S) /\ DOMAIN g = 1 .. n
    <2>1. \A i \in 1 .. n : (CHOOSE p \in S : Cardinality({q \in S : InOrder(q, p)}) = i - 1) \in S
        BY <1>6
    <2>2. g \in [1 .. n -> S]
        BY <2>1
    <2> HIDE DEF g
    <2> QED BY <1>2, <2>2, SeqDef
<1>8. ASSUME NEW i \in 1 .. n, NEW k \in 1 .. n, i # k PROVE g[i] # g[k]
    <2> HIDE DEF g
    <2>1. /\ Cardinality({q \in S : InOrder(q, g[i])}) = i - 1
          /\ Cardinality({q \in S : InOrder(q, g[k])}) = k - 1
        BY <1>6
    <2> QED BY <1>2, <1>8, <2>1
<1> HIDE DEF g
<1> QED BY <1>5, <1>7, <1>8

(* A content with a label is served by a page whose status the fingerprints of *)
(* no version change.                                                          *)
LEMMA LabelledAreSteady ==
    ASSUME NEW c \in Contents, LabelOf[c] # None, NEW v \in Versions, NEW u \in Versions
    PROVE  StatusOf[v][c] = StatusOf[u][c]
<1>1. BestType(Content[c]) # None
    BY ContentsOK DEF LabelOf, ClassifyDrink
<1>2. \A w \in Versions : StatusOf[w][c] = Validate(Content[c], Fingerprints[w])
    BY DEF StatusOf
<1>3. Validate(Content[c], Fingerprints[v]) = Validate(Content[c], Fingerprints[u])
    BY <1>1 DEF Validate
<1> QED BY <1>2, <1>3

(* No version gives a file the status of a page that was not fetched.         *)
LEMMA StatusTyped == \A v \in Versions, c \in Contents : StatusOf[v][c] \in Statuses \ {"pending", "failed"}
BY ContentsOK DEF Statuses

(* The label of a file is a label.                                            *)
LEMMA LabelTyped == \A c \in Contents : LabelOf[c] \in PageLabels
BY DEF PageLabels

-------------------------------------------------------------------------------
(* The inductive invariant.  What holds of the rows of one page: *)
Unfetched  == {"pending", "failed"}
(* The steps validate takes with a row.                                       *)
Evaluating == {"status", "verdict", "label", "score"}
(* The steps a worker takes after the status was written.                     *)
Written    == {"verdict", "label", "score", "recheck"}

(* A page that was not fetched yet, or in vain, has no evaluation and no file. *)
UnfetchedAt(p) ==
    (p \notin Known \/ pages[p].status \in Unfetched) =>
        /\ verdict[p] = None /\ scored[p] = None
        /\ p \in Known => ~ pages[p].saved

(* Any other has the status some version of the validator gives its file; one  *)
(* whose file has a label never loses its path.                                *)
FetchedAt(p) ==
    p \in Known /\ pages[p].status \notin Unfetched =>
        /\ file[p] \in Contents
        /\ \E v \in Versions : pages[p].status = StatusOf[v][file[p]]
        /\ LabelOf[file[p]] # None => pages[p].saved

(* The score is that of the file. *)
ScoreAt(p) == p \in Known /\ scored[p] # None => scored[p].label = LabelOf[file[p]]

(* A label comes from the url or from the file. *)
LabelAt(p) ==
    p \in Known /\ pages[p].label # None =>
        \/ labelled[p] # None /\ labelled[p].label = pages[p].label
        \/ pages[p].saved /\ pages[p].label = LabelOf[file[p]]

(* Where both evaluations are, the page has the status that was recorded, also *)
(* while somebody has it in hand.                                              *)
VerdictAt(p) ==
    p \in Known /\ pages[p].saved /\ verdict[p] # None /\ scored[p] # None
        => pages[p].status = verdict[p].status

(* What holds of the rows of one page.                                        *)
DataAt(p) == UnfetchedAt(p) /\ FetchedAt(p) /\ ScoreAt(p) /\ LabelAt(p) /\ VerdictAt(p)
(* It holds of every page.                                                    *)
DataInv   == \A p \in Urls : DataAt(p)

(* A row of the fetch queue is pending, occurs once and is in no worker's hand. *)
Active(w)  == worker[w].pc # "idle"
(* At rest the queue is empty and every worker idle; a row of the queue is    *)
(* pending, occurs once, and no worker has its page.                          *)
QueueInv ==
    /\ fetch.pc \in {"idle", "ended"} => fetch.queue = <<>> /\ \A w \in Workers : ~ Active(w)
    /\ \A i \in DOMAIN fetch.queue :
         /\ fetch.queue[i].page \in Known /\ pages[fetch.queue[i].page].status = "pending"
         /\ \A k \in DOMAIN fetch.queue : k # i => fetch.queue[k].page # fetch.queue[i].page
         /\ \A w \in Workers : Active(w) => worker[w].page # fetch.queue[i].page

(* A worker has its page alone; until it writes the status the page is pending, *)
(* from then on status, file and verdict agree.                                 *)
WorkerAt(w) ==
    /\ worker[w].page \in Known
    /\ \A x \in Workers : x # w /\ Active(x) => worker[x].page # worker[w].page
    /\ worker[w].pc \in {"check", "fetch", "status"} => pages[worker[w].page].status = "pending"
    /\ worker[w].pc \in {"status"} \cup Written =>
         worker[w].content \in Contents /\ file[worker[w].page] = worker[w].content
    /\ worker[w].pc \in Written =>
         /\ pages[worker[w].page].status = StatusOf[version][worker[w].content]
         /\ verdict[worker[w].page] # None =>
              verdict[worker[w].page].status = pages[worker[w].page].status
    /\ worker[w].pc = "label" => Relabels(worker[w].content)
(* What holds of every worker with a page.                                    *)
WorkerInv == \A w \in Workers : Active(w) => WorkerAt(w)

(* A row of the validate queue, unless it is the one being evaluated, has the   *)
(* status its page has, and lacks an evaluation unless a fetch has just made it. *)
RowAt(i) ==
    /\ val.queue[i].page \in Known /\ pages[val.queue[i].page].status \notin Unfetched
    /\ ~ (i = 1 /\ val.pc \in {"verdict", "label", "score"}) =>
         /\ val.queue[i].status = pages[val.queue[i].page].status
         /\ \/ verdict[val.queue[i].page] = None \/ scored[val.queue[i].page] = None
            \/ verdict[val.queue[i].page].status = StatusOf[version][file[val.queue[i].page]]
    /\ \A k \in DOMAIN val.queue : k # i => val.queue[k].page # val.queue[i].page
(* What holds of the queue of validate, empty at rest.                        *)
ValRowsInv ==
    /\ val.pc \in {"idle", "clear"} => val.queue = <<>>
    /\ \A i \in DOMAIN val.queue : RowAt(i)
(* The row that is evaluated: what was read of it, and what is written already. *)
ValInv ==
    /\ val.pc \in Evaluating =>
         val.queue # <<>> /\ val.content \in Contents /\ file[Row.page] = val.content
    /\ val.pc = "status" => StatusOf[version][val.content] # Row.status
    /\ val.pc \in {"verdict", "label", "score"} => pages[Row.page].status = StatusOf[version][val.content]
    /\ val.pc = "label" => Relabels(val.content)
    /\ val.pc \in {"label", "score"} /\ verdict[Row.page] # None =>
         verdict[Row.page].status = pages[Row.page].status

(* A process at work has its ledger row open. *)
RunsInv ==
    /\ fetch.pc \in {"loop", "shutdown", "wait"} => runs["fetch"].finished < runs["fetch"].begun
    /\ val.pc \in {"next"} \cup Evaluating => runs["validate_html"].finished < runs["validate_html"].begun
    /\ cls.pc # "idle" => runs["classify_url"].finished < runs["classify_url"].begun

(* A refusal has asked for a stop, so the scan at the end finds it. *)
FatalInv ==
    /\ fetch.pc \notin {"idle", "ended"} /\ fetch.fatal > 0 => fetch.interrupt
    /\ FatalIsReported

(* Pages asked for and pending still, together with the workers that have yet   *)
(* to read the breaker, are no more than the workers: a page is asked for by    *)
(* one worker, and stays with it until its status is written, unless a stop     *)
(* keeps every other from being taken.                                          *)
Checkers == {w \in Workers : worker[w].pc = "check"}
(* Workers that asked for their page and have not written its status.         *)
Holders  == {w \in Workers : worker[w].pc \in {"fetch", "status"}}
(* The pages in their hands.                                                  *)
Held     == {worker[w].page : w \in Holders}
(* Pages that were asked for and are pending still.                           *)
Asking   == {p \in asked : pages[p].status = "pending"}
(* What was asked for is held by a worker, and fits the pool.                 *)
AskedInv ==
    /\ fetch.pc = "idle" => asked = {}
    /\ ~ fetch.interrupt /\ fetch.pc # "ended" => Asking \subseteq Held
    /\ Cardinality(Asking) + Cardinality(Checkers) <= Cardinality(Workers)

(* Where pages can be.                                                        *)
PlaceInv == QueueInv /\ WorkerInv /\ ValRowsInv /\ ValInv
(* The inductive invariant.                                                   *)
IInv == TypeOK /\ DataInv /\ PlaceInv /\ RunsInv /\ FatalInv /\ AskedInv /\ BlockedSiteIsLeftAlone

-------------------------------------------------------------------------------
(* Writes to the rows of pages. *)
LEMMA KnownAre == TypeOK => Known = 1 .. Len(pages) /\ Known \subseteq Urls /\ \A p \in Known : pages[p] \in PageRecord
<1> SUFFICES ASSUME TypeOK PROVE Known = 1 .. Len(pages) /\ Known \subseteq Urls /\ \A p \in Known : pages[p] \in PageRecord
    OBVIOUS
<1>1. pages \in Seq(PageRecord) /\ Len(pages) <= NumUrls
    BY DEF TypeOK, TablesOK
<1>2. Known = 1 .. Len(pages) /\ Len(pages) \in Nat
    BY <1>1, LenProperties DEF Known
<1>3. \A p \in Known : pages[p] \in PageRecord
    BY <1>1, <1>2, ElementOfSeq
<1> QED BY <1>1, <1>2, <1>3, ConstantsOK DEF Urls

(* The row of one page becomes r, the others stay.                            *)
PageBecomes(p, r) ==
    /\ pages' \in Seq(PageRecord) /\ Len(pages') = Len(pages) /\ Known' = Known
    /\ pages'[p] = r
    /\ \A q \in Known : q # p => pages'[q] = pages[q]

(* Writing the row of a page changes it alone.                                *)
LEMMA PageWritten ==
    ASSUME TypeOK, NEW p \in Known, NEW r \in PageRecord, pages' = [pages EXCEPT ![p] = r]
    PROVE  PageBecomes(p, r)
<1>1. pages \in Seq(PageRecord) /\ Known = 1 .. Len(pages)
    BY KnownAre DEF TypeOK, TablesOK
<1>2. pages' \in Seq(PageRecord) /\ Len(pages') = Len(pages)
    BY <1>1, ExceptSeq
<1>3. Known' = Known
    BY <1>1, <1>2, LenProperties DEF Known
<1>4. \A q \in Known : pages'[q] = IF q = p THEN r ELSE pages[q]
    BY <1>1, ExceptSeq
<1> QED BY <1>2, <1>3, <1>4 DEF PageBecomes

(* A status that is written keeps label and attempts.                         *)
LEMMA MarkStatusWrites ==
    ASSUME TypeOK, NEW p \in Known, NEW s \in Statuses, NEW saved \in BOOLEAN, MarkStatus(p, s, saved)
    PROVE  \E r \in PageRecord : /\ PageBecomes(p, r)
                                 /\ r.status = s /\ r.saved = saved
                                 /\ r.label = pages[p].label /\ r.attempts = pages[p].attempts
<1> DEFINE r == [pages[p] EXCEPT !.status = s, !.saved = saved]
<1>1. pages[p] \in PageRecord
    BY KnownAre
<1>2. /\ r \in PageRecord /\ r.status = s /\ r.saved = saved
      /\ r.label = pages[p].label /\ r.attempts = pages[p].attempts
    BY <1>1 DEF PageRecord
<1>3. pages' = [pages EXCEPT ![p] = r]
    BY DEF MarkStatus
<1> HIDE DEF r
<1> QED BY <1>2, <1>3, PageWritten

(* A label that is written keeps the rest of the row.                         *)
LEMMA SetContentTypeWrites ==
    ASSUME TypeOK, NEW p \in Known, NEW l \in PageLabels, SetContentType(p, l)
    PROVE  \E r \in PageRecord : /\ PageBecomes(p, r) /\ r.label = l
                                 /\ r.status = pages[p].status /\ r.saved = pages[p].saved
                                 /\ r.attempts = pages[p].attempts
<1> DEFINE r == [pages[p] EXCEPT !.label = l]
<1>1. pages[p] \in PageRecord
    BY KnownAre
<1>2. /\ r \in PageRecord /\ r.label = l /\ r.status = pages[p].status /\ r.saved = pages[p].saved
      /\ r.attempts = pages[p].attempts
    BY <1>1 DEF PageRecord
<1>3. pages' = [pages EXCEPT ![p] = r]
    BY DEF SetContentType
<1> HIDE DEF r
<1> QED BY <1>2, <1>3, PageWritten

(* A failure keeps the page pending, with attempts left, or makes it failed.  *)
LEMMA MarkFailedWrites ==
    ASSUME TypeOK, NEW p \in Known, pages[p].status = "pending", MarkFailed(p)
    PROVE  \E r \in PageRecord : /\ PageBecomes(p, r) /\ r.label = pages[p].label
                                 /\ r.status \in {"pending", "failed"} /\ r.saved = pages[p].saved
                                 /\ r.status = "pending" => r.attempts < MaxAttempts
<1> DEFINE attempts == pages[p].attempts + 1
           s == IF attempts >= MaxAttempts THEN "failed" ELSE pages[p].status
           r == [pages[p] EXCEPT !.attempts = attempts, !.status = s]
<1>1. pages[p] \in PageRecord /\ pages[p].attempts < MaxAttempts
    BY KnownAre DEF TypeOK, TablesOK
<1>2. attempts \in 0 .. MaxAttempts
    BY <1>1, ConstantsOK DEF PageRecord
<1>3. s \in {"pending", "failed"} /\ (s = "pending" => attempts < MaxAttempts) /\ s \in Statuses
    BY <1>2, ConstantsOK DEF Statuses
<1> HIDE DEF attempts, s
<1>4. /\ r \in PageRecord /\ r.label = pages[p].label /\ r.status = s /\ r.saved = pages[p].saved
      /\ r.attempts = attempts
    BY <1>1, <1>2, <1>3 DEF PageRecord
<1>5. pages' = [pages EXCEPT ![p] = r]
    BY DEF MarkFailed, attempts, s
<1> HIDE DEF r
<1> QED BY <1>3, <1>4, <1>5, PageWritten

-------------------------------------------------------------------------------
(* What a step leaves alone it keeps true. *)
StatusKept == Known \subseteq Known' /\ \A p \in Known : pages'[p].status = pages[p].status

(* What is known of a page stays true while its rows and its file do. *)
SameRows(p) ==
    /\ p \in Known <=> p \in Known'
    /\ p \in Known => pages'[p] = pages[p]
    /\ verdict'[p] = verdict[p] /\ scored'[p] = scored[p] /\ labelled'[p] = labelled[p]
    /\ file'[p] = file[p]

(* A step on the rows of one page keeps what holds of the others.             *)
LEMMA DataElsewhere ==
    ASSUME DataInv, NEW p, DataAt(p)', \A q \in Urls : q # p => SameRows(q)
    PROVE  DataInv'
<1> SUFFICES ASSUME NEW q \in Urls, q # p PROVE DataAt(q)'
    BY DEF DataInv
<1>1. SameRows(q) /\ DataAt(q)
    BY DEF DataInv
<1>2. UnfetchedAt(q)'
    BY <1>1 DEF DataAt, UnfetchedAt, SameRows
<1>3. FetchedAt(q)'
    BY <1>1 DEF DataAt, FetchedAt, SameRows
<1>4. ScoreAt(q)'
    BY <1>1 DEF DataAt, ScoreAt, SameRows
<1>5. LabelAt(q)'
    BY <1>1 DEF DataAt, LabelAt, SameRows
<1>6. VerdictAt(q)'
    BY <1>1 DEF DataAt, VerdictAt, SameRows
<1> QED BY <1>2, <1>3, <1>4, <1>5, <1>6 DEF DataAt

(* A step that writes no table keeps what holds of all.                       *)
LEMMA DataFrame == ASSUME DataInv, UNCHANGED <<tables, file>> PROVE DataInv'
BY DEF DataInv, DataAt, UnfetchedAt, FetchedAt, ScoreAt, LabelAt, VerdictAt, tables, Known

(* The queue is as before, no worker takes another page, and only pages in    *)
(* hand stop being pending.                                                   *)
LEMMA QueueFrame ==
    ASSUME QueueInv, Known \subseteq Known', UNCHANGED <<fetch.pc, fetch.queue>>,
           \A w \in Workers : worker'[w].pc # "idle" =>
              worker[w].pc # "idle" /\ worker'[w].page = worker[w].page,
           \A p \in Known : \/ pages'[p].status = pages[p].status
                            \/ pages[p].status # "pending"
                            \/ \E w \in Workers : Active(w) /\ worker[w].page = p
    PROVE  QueueInv'
<1>1. fetch'.pc \in {"idle", "ended"} => fetch'.queue = <<>> /\ \A w \in Workers : ~ Active(w)'
    BY DEF QueueInv, Active
<1>2. ASSUME NEW i \in DOMAIN fetch'.queue
      PROVE  /\ fetch'.queue[i].page \in Known' /\ pages'[fetch'.queue[i].page].status = "pending"
             /\ \A k \in DOMAIN fetch'.queue : k # i => fetch'.queue[k].page # fetch'.queue[i].page
             /\ \A w \in Workers : Active(w)' => worker'[w].page # fetch'.queue[i].page
    <2>1. /\ i \in DOMAIN fetch.queue /\ fetch'.queue = fetch.queue
          /\ fetch.queue[i].page \in Known /\ pages[fetch.queue[i].page].status = "pending"
          /\ \A w \in Workers : Active(w) => worker[w].page # fetch.queue[i].page
        BY <1>2 DEF QueueInv
    <2>2. pages'[fetch'.queue[i].page].status = "pending"
        BY <2>1
    <2>3. \A w \in Workers : Active(w)' => worker'[w].page # fetch'.queue[i].page
        BY <2>1 DEF Active
    <2> QED BY <2>1, <2>2, <2>3 DEF QueueInv
<1> QED BY <1>1, <1>2 DEF QueueInv

(* A worker that keeps its record, while the others keep their pages or rest. *)
WorkerStays(w) ==
    /\ worker'[w] = worker[w]
    /\ file'[worker[w].page] = file[worker[w].page]
    /\ pages'[worker[w].page].status = pages[worker[w].page].status
    /\ \/ verdict'[worker[w].page] \in {verdict[worker[w].page], None}
       \/ verdict'[worker[w].page].status = pages[worker[w].page].status

(* What holds of a worker that stays, while no other comes to its page.       *)
LEMMA WorkerFrame ==
    ASSUME WorkerInv, Known \subseteq Known', UNCHANGED version,
           NEW w \in Workers, Active(w)', WorkerStays(w),
           \A x \in Workers : x # w /\ worker'[x].pc # "idle" =>
              \/ worker[x].pc # "idle" /\ worker'[x].page = worker[x].page
              \/ worker'[x].page # worker[w].page
    PROVE  WorkerAt(w)'
<1>1. Active(w) /\ WorkerAt(w)
    BY DEF Active, WorkerInv, WorkerStays
<1>2. worker'[w].page \in Known'
    BY <1>1 DEF WorkerStays, WorkerAt
<1>3. \A x \in Workers : x # w /\ Active(x)' => worker'[x].page # worker'[w].page
    BY <1>1 DEF WorkerStays, WorkerAt, Active
<1>4. worker'[w].pc \in {"check", "fetch", "status"} => pages'[worker'[w].page].status = "pending"
    BY <1>1 DEF WorkerStays, WorkerAt
<1>5. worker'[w].pc \in {"status"} \cup Written =>
         worker'[w].content \in Contents /\ file'[worker'[w].page] = worker'[w].content
    BY <1>1 DEF WorkerStays, WorkerAt
<1>6. worker'[w].pc \in Written => pages'[worker'[w].page].status = StatusOf[version'][worker'[w].content]
    BY <1>1 DEF WorkerStays, WorkerAt
<1>7. worker'[w].pc \in Written =>
        (verdict'[worker'[w].page] # None => verdict'[worker'[w].page].status = pages'[worker'[w].page].status)
    BY <1>1 DEF WorkerStays, WorkerAt
<1>8. worker'[w].pc = "label" => Relabels(worker[w].content)'
    BY <1>1 DEF WorkerStays, WorkerAt, Relabels
<1> QED BY <1>2, <1>3, <1>4, <1>5, <1>6, <1>7, <1>8 DEF WorkerAt, WorkerStays, Relabels

(* Where the queue of validate is not empty, its row in hand is the first.    *)
LEMMA RowIs ==
    ASSUME TypeOK, val.queue # <<>>
    PROVE  /\ 1 \in DOMAIN val.queue /\ Row = val.queue[1] /\ Row \in ValRow
           /\ val.queue \in Seq(ValRow)
<1>1. val.queue \in Seq(ValRow)
    BY DEF TypeOK, LocalsOK, ValRecord
<1>2. DOMAIN val.queue = 1 .. Len(val.queue) /\ Len(val.queue) \in Nat /\ Len(val.queue) # 0
    BY <1>1, LenProperties, EmptySeq
<1>3. Row = val.queue[1]
    BY <1>1 DEF Row
<1> QED BY <1>1, <1>2, <1>3, ElementOfSeq

(* What the others may do to a page that validate has read. *)
RowStays(p) ==
    /\ pages'[p].status = pages[p].status /\ file'[p] = file[p]
    /\ \/ verdict'[p] = verdict[p] /\ scored'[p] \in {scored[p], None}
       \/ verdict'[p] = None
       \/ verdict'[p].status = StatusOf[version][file[p]]

(* What the other processes do keeps what holds of validate.                  *)
LEMMA ValFrame ==
    ASSUME TypeOK, ValRowsInv, ValInv, Known \subseteq Known', UNCHANGED <<val, version>>,
           \A p \in Known : pages[p].status \notin Unfetched => RowStays(p)
    PROVE  ValRowsInv' /\ ValInv'
<1>1. ASSUME NEW i \in DOMAIN val.queue PROVE RowAt(i)'
    <2>1. RowAt(i)
        BY DEF ValRowsInv
    <2>2. RowStays(val.queue[i].page)
        BY <2>1 DEF RowAt
    <2> QED BY <2>1, <2>2 DEF RowAt, RowStays
<1>2. ValRowsInv'
    BY <1>1 DEF ValRowsInv
<1>3. ASSUME val.pc \in Evaluating PROVE ValInv'
    <2>1. val.queue # <<>>
        BY <1>3 DEF ValInv
    <2>2. PICK d \in ValRow : d = Row /\ 1 \in DOMAIN val.queue /\ d = val.queue[1]
        BY <2>1, RowIs
    <2>3. Row' = d
        BY <2>2 DEF Row
    <2>4. RowStays(d.page)
        BY <2>2 DEF ValRowsInv, RowAt
    <2>5. val.pc \in Evaluating =>
             val.queue # <<>> /\ val.content \in Contents /\ file'[d.page] = val.content
        BY <2>2, <2>4 DEF ValInv, RowStays
    <2>6. val.pc = "status" => StatusOf[version][val.content] # d.status
        BY <2>2 DEF ValInv
    <2>7. val.pc \in {"verdict", "label", "score"} => pages'[d.page].status = StatusOf[version][val.content]
        BY <2>2, <2>4 DEF ValInv, RowStays
    <2>8. val.pc = "label" => Relabels(val.content)'
        BY DEF ValInv, Relabels
    <2>9. val.pc \in {"label", "score"} /\ verdict'[d.page] # None =>
             verdict'[d.page].status = pages'[d.page].status
        BY <2>2, <2>4 DEF ValInv, RowStays, Evaluating
    <2> QED BY <2>3, <2>5, <2>6, <2>7, <2>8, <2>9 DEF ValInv, Relabels
<1>4. ASSUME val.pc \notin Evaluating PROVE ValInv'
    BY <1>4 DEF ValInv, Evaluating
<1> QED BY <1>2, <1>3, <1>4

(* The sets AskedInv counts are finite.                                       *)
LEMMA AskedFinite ==
    TypeOK => IsFiniteSet(asked) /\ IsFiniteSet(Asking) /\ IsFiniteSet(Checkers) /\ IsFiniteSet(Workers)
<1> SUFFICES ASSUME TypeOK PROVE IsFiniteSet(asked) /\ IsFiniteSet(Asking) /\ IsFiniteSet(Checkers) /\ IsFiniteSet(Workers)
    OBVIOUS
<1>1. asked \subseteq Urls
    BY KnownAre DEF TypeOK, LocalsOK
<1>2. IsFiniteSet(asked)
    BY <1>1, UrlsFinite, FS_Subset
<1>3. Asking \subseteq asked /\ Checkers \subseteq Workers
    BY DEF Asking, Checkers
<1> QED BY <1>2, <1>3, ConstantsOK, FS_Subset

(* The count of AskedInv only goes down, and what is asked for stays held. *)
LEMMA AskedFrame ==
    ASSUME TypeOK, AskedInv, fetch'.pc = "idle" => asked' = {},
           Asking' \subseteq Asking, Checkers' \subseteq Checkers,
           ~ fetch'.interrupt /\ fetch'.pc # "ended" => Asking' \subseteq Held'
    PROVE  AskedInv'
<1>1. IsFiniteSet(Asking) /\ IsFiniteSet(Checkers) /\ IsFiniteSet(Workers)
    BY AskedFinite
<1>2. IsFiniteSet(Asking') /\ IsFiniteSet(Checkers')
    BY <1>1, FS_Subset
<1>3. Cardinality(Asking') <= Cardinality(Asking) /\ Cardinality(Checkers') <= Cardinality(Checkers)
    BY <1>1, FS_Subset
<1>4. /\ Cardinality(Asking') \in Nat /\ Cardinality(Checkers') \in Nat /\ Cardinality(Workers) \in Nat
      /\ Cardinality(Asking) \in Nat /\ Cardinality(Checkers) \in Nat
    BY <1>1, <1>2, FS_CardinalityType
<1>5. Cardinality(Asking') + Cardinality(Checkers') <= Cardinality(Workers)
    BY <1>3, <1>4 DEF AskedInv
<1> QED BY <1>5 DEF AskedInv

(* The pages of a site that were asked for.                                   *)
Mine(site) == {p \in asked : SiteOf[p] = site}
(* Every page of the site that was fetched is blocked.                        *)
OnlyBlocked(site) == \A p \in Known : SiteOf[p] = site => pages[p].status \in {"pending", "blocked"}

(* No page is asked for, and a site comes to have nothing but blocked pages   *)
(* only if its count starts anew.                                             *)
LEMMA BlockedFrame ==
    ASSUME TypeOK, BlockedSiteIsLeftAlone, asked' \subseteq asked,
           \A site \in Sites : OnlyBlocked(site)' => OnlyBlocked(site) \/ Mine(site)' = {}
    PROVE  BlockedSiteIsLeftAlone'
<1> SUFFICES ASSUME NEW site \in Sites, OnlyBlocked(site)'
             PROVE  Cardinality(Mine(site)') <= BreakerWindow + Cardinality(Workers) - 1
    BY DEF BlockedSiteIsLeftAlone, OnlyBlocked, Mine
<1>0. BreakerWindow \in Nat \ {0} /\ Cardinality(Workers) \in Nat
    BY ConstantsOK, FS_CardinalityType
<1>1. CASE Mine(site)' = {}
    <2>1. Cardinality({}) = 0
        BY FS_EmptySet
    <2> QED BY <1>0, <1>1, <2>1
<1>2. CASE OnlyBlocked(site)
    <2>1. Cardinality(Mine(site)) <= BreakerWindow + Cardinality(Workers) - 1
        BY <1>2 DEF BlockedSiteIsLeftAlone, OnlyBlocked, Mine
    <2>2. Mine(site)' \subseteq Mine(site) /\ Mine(site) \subseteq asked
        BY DEF Mine
    <2>3. IsFiniteSet(Mine(site))
        BY <2>2, AskedFinite, FS_Subset
    <2>4. IsFiniteSet(Mine(site)') /\ Cardinality(Mine(site)') <= Cardinality(Mine(site))
        BY <2>2, <2>3, FS_Subset
    <2>5. Cardinality(Mine(site)') \in Nat /\ Cardinality(Mine(site)) \in Nat
        BY <2>3, <2>4, FS_CardinalityType
    <2> QED BY <1>0, <2>1, <2>4, <2>5
<1> QED BY <1>1, <1>2

(* A step that keeps statuses and asks for no page.                           *)
LEMMA BlockedStatusKept ==
    ASSUME TypeOK, BlockedSiteIsLeftAlone, asked' \subseteq asked, StatusKept PROVE BlockedSiteIsLeftAlone'
<1>1. \A site \in Sites : OnlyBlocked(site)' => OnlyBlocked(site)
    BY DEF OnlyBlocked, StatusKept
<1> QED BY <1>1, BlockedFrame

-------------------------------------------------------------------------------
(* The main thread of the fetch: it writes no row of a page. *)
LEMMA FetchMoves ==
    ASSUME IInv, UNCHANGED <<tables, file, version, val, cls, resets>>, kills' \in Nat,
           runs' \in [Stages -> [begun : Nat, finished : Nat]],
           \A s \in Stages : runs'[s].finished <= runs'[s].begun, RunsInv',
           fetch' \in FetchRecord, worker' \in [Workers -> WorkerRecord],
           \A w \in Workers : worker'[w].pc # "idle" => worker'[w] = worker[w],
           QueueInv', FatalInv', AskedInv', asked' \subseteq asked
    PROVE  IInv'
<1>1. DataInv'
    BY DataFrame DEF IInv
<1>2. StatusKept
    BY DEF StatusKept, tables, Known
<1>3. WorkerInv'
    <2> SUFFICES ASSUME NEW w \in Workers, Active(w)' PROVE WorkerAt(w)'
        BY DEF WorkerInv
    <2>1. worker'[w] = worker[w]
        BY DEF Active
    <2>2. WorkerStays(w)
        BY <2>1 DEF WorkerStays, tables
    <2>3. Known \subseteq Known'
        BY <1>2 DEF StatusKept
    <2> QED BY <2>2, <2>3, WorkerFrame DEF IInv, PlaceInv
<1>4. ValRowsInv' /\ ValInv'
    <2>1. \A p \in Known : RowStays(p)
        BY DEF RowStays, tables
    <2> QED BY <1>2, <2>1, ValFrame DEF IInv, PlaceInv, StatusKept
<1>5. TypeOK'
    BY DEF IInv, TypeOK, TablesOK, LocalsOK, tables, Known
<1>6. BlockedSiteIsLeftAlone'
    BY <1>2, BlockedStatusKept DEF IInv
<1> QED BY <1>1, <1>3, <1>4, <1>5, <1>6 DEF IInv, PlaceInv

(* The parts of the invariant that every step needs.                          *)
LEMMA RunsTyped ==
    IInv => /\ runs \in [Stages -> [begun : Nat, finished : Nat]]
            /\ \A s \in Stages : runs[s].finished <= runs[s].begun
            /\ {kills, resets} \subseteq Nat
            /\ Stages = {"fetch", "validate_html", "classify_url"}
            /\ fetch \in FetchRecord /\ worker \in [Workers -> WorkerRecord] /\ val \in ValRecord
            /\ DataInv /\ QueueInv /\ FatalInv /\ AskedInv /\ RunsInv /\ WorkerInv /\ ValRowsInv /\ ValInv /\ TypeOK
BY DEF IInv, TypeOK, TablesOK, LocalsOK, Stages, PlaceInv

(* A run that starts is open, and the other stages' are as they were.         *)
LEMMA RunStarts ==
    ASSUME IInv, NEW s \in Stages, StartRun(s)
    PROVE  /\ runs' \in [Stages -> [begun : Nat, finished : Nat]]
           /\ \A t \in Stages : runs'[t].finished <= runs'[t].begun
           /\ runs'[s].finished < runs'[s].begun
           /\ \A t \in Stages : t # s => runs'[t] = runs[t]
<1>1. runs[s] \in [begun : Nat, finished : Nat] /\ runs[s].finished <= runs[s].begun
    BY RunsTyped
<1> DEFINE r == [runs[s] EXCEPT !.begun = @ + 1]
<1>2. r \in [begun : Nat, finished : Nat] /\ r.finished < r.begun
    BY <1>1
<1>3. runs' = [runs EXCEPT ![s] = r]
    BY RunsTyped DEF StartRun
<1> HIDE DEF r
<1>4. runs'[s] = r /\ \A t \in Stages : t # s => runs'[t] = runs[t]
    BY <1>3, RunsTyped
<1>5. runs' \in [Stages -> [begun : Nat, finished : Nat]]
    BY <1>2, <1>3, RunsTyped
<1>6. r.finished <= r.begun
    BY <1>2
<1>7. \A t \in Stages : runs'[t].finished <= runs'[t].begun
    BY <1>4, <1>6, RunsTyped
<1> QED BY <1>2, <1>4, <1>5, <1>7

(* A run that was open and finishes.                                          *)
LEMMA RunFinishes ==
    ASSUME IInv, NEW s \in Stages, FinishRun(s), runs[s].finished < runs[s].begun
    PROVE  /\ runs' \in [Stages -> [begun : Nat, finished : Nat]]
           /\ \A t \in Stages : runs'[t].finished <= runs'[t].begun
           /\ \A t \in Stages : t # s => runs'[t] = runs[t]
<1>1. runs[s] \in [begun : Nat, finished : Nat]
    BY RunsTyped
<1> DEFINE r == [runs[s] EXCEPT !.finished = @ + 1]
<1>2. r \in [begun : Nat, finished : Nat] /\ r.finished <= r.begun
    BY <1>1
<1>3. runs' = [runs EXCEPT ![s] = r]
    BY RunsTyped DEF FinishRun
<1> HIDE DEF r
<1>4. runs'[s] = r /\ \A t \in Stages : t # s => runs'[t] = runs[t]
    BY <1>3, RunsTyped
<1>5. runs' \in [Stages -> [begun : Nat, finished : Nat]]
    BY <1>2, <1>3, RunsTyped
<1>6. \A t \in Stages : runs'[t].finished <= runs'[t].begun
    BY <1>2, <1>4, RunsTyped
<1> QED BY <1>4, <1>5, <1>6

(* The processes at rest are typed.                                           *)
LEMMA IdleTyped == Idle \in WorkerRecord /\ NoFetch \in FetchRecord /\ NoVal \in ValRecord /\ NoCls \in ClsRecord
<1>1. <<>> \in Seq(FetchRow) /\ <<>> \in Seq(ValRow)
    BY EmptySeq
<1>2. Idle \in WorkerRecord
    BY DEF Idle, WorkerRecord, PageLabels
<1>3. NoFetch \in FetchRecord
    BY <1>1 DEF NoFetch, FetchRecord, AnySite
<1>4. NoVal \in ValRecord /\ NoCls \in ClsRecord
    BY <1>1 DEF NoVal, ValRecord, AnySite, NoCls, ClsRecord
<1> QED BY <1>2, <1>3, <1>4


(* The record of the fetch after a step of the loop or a Ctrl-C. *)
Winding(f) ==
    /\ f \in FetchRecord /\ f.pc \in {"loop", "shutdown", "wait", "abandon"}
    /\ fetch.pc \in {"loop", "shutdown", "wait"}
    /\ f.pc = "abandon" \/ fetch.pc \in {"loop", "shutdown"} \/ f.pc = fetch.pc
    /\ f.queue \in {fetch.queue, <<>>}
    /\ fetch.interrupt => f.interrupt
    /\ f.fatal > 0 => fetch.fatal > 0

(* Such a step keeps the invariant.                                           *)
LEMMA WindingKeepsIInv ==
    ASSUME IInv, NEW f, Winding(f), fetch' = f, kills' \in Nat,
           UNCHANGED <<tables, file, runs, version, worker, val, cls, asked, resets>>
    PROVE  IInv'
<1>1. f \in FetchRecord /\ f.pc \notin {"idle", "ended"}
    BY DEF Winding
<1>2. QueueInv'
    BY RunsTyped DEF QueueInv, Active, tables, Known, Winding
<1>3. FatalInv'
    BY <1>1, RunsTyped DEF FatalInv, FatalIsReported, Winding
<1>4. RunsInv'
    BY RunsTyped DEF RunsInv, Winding
<1>5. AskedInv'
    <2>1. Asking' = Asking /\ Held' = Held /\ Checkers' = Checkers
        BY DEF Asking, Held, Holders, Checkers, tables
    <2>2. ~ f.interrupt => ~ fetch.interrupt /\ fetch.pc # "ended"
        BY DEF Winding
    <2> QED BY <1>1, <2>1, <2>2, RunsTyped DEF AskedInv
<1>6. worker' \in [Workers -> WorkerRecord] /\ runs' \in [Stages -> [begun : Nat, finished : Nat]]
    BY RunsTyped
<1>7. \A s \in Stages : runs'[s].finished <= runs'[s].begun
    BY RunsTyped
<1> QED BY <1>1, <1>2, <1>3, <1>4, <1>5, <1>6, <1>7, FetchMoves

(* The loop, the shutdown and Ctrl-C. *)
LEMMA LoopKeepsIInv ==
    ASSUME IInv, YieldResult \/ YieldFatal \/ AllYielded \/ CancelQueued \/ CtrlC
    PROVE  IInv'
<1>1. /\ UNCHANGED <<tables, file, runs, version, worker, val, cls, asked, resets>>
      /\ fetch \in FetchRecord /\ kills \in Nat
    BY RunsTyped DEF YieldResult, YieldFatal, AllYielded, CancelQueued, CtrlC
<1>2. CASE YieldResult
    <2> DEFINE n == fetch.done - 1
               pc == IF fetch.interrupt THEN "shutdown" ELSE fetch.pc
               f == [fetch EXCEPT !.done = n, !.pc = pc]
    <2>1. fetch.pc = "loop" /\ fetch.done > 0 /\ fetch' = f /\ kills' = kills
        BY <1>2 DEF YieldResult
    <2>0. n \in Nat /\ pc \in {"loop", "shutdown"}
        BY <1>1, <2>1 DEF FetchRecord
    <2> HIDE DEF n, pc
    <2>2. f \in FetchRecord
        BY <1>1, <2>0, <2>1 DEF FetchRecord
    <2>3. Winding(f)
        BY <1>1, <2>0, <2>1, <2>2 DEF Winding, FetchRecord
    <2> HIDE DEF f
    <2> QED BY <1>1, <2>1, <2>3, WindingKeepsIInv
<1>3. CASE YieldFatal
    <2> DEFINE f == [fetch EXCEPT !.interrupt = TRUE, !.aborted = TRUE, !.pc = "shutdown"]
    <2>1. fetch.pc = "loop" /\ fetch' = f /\ kills' = kills
        BY <1>3 DEF YieldFatal
    <2>2. f \in FetchRecord
        BY <1>1, <2>1 DEF FetchRecord
    <2>3. Winding(f)
        BY <1>1, <2>1, <2>2 DEF Winding, FetchRecord
    <2> HIDE DEF f
    <2> QED BY <1>1, <2>1, <2>3, WindingKeepsIInv
<1>4. CASE AllYielded
    <2> DEFINE f == [fetch EXCEPT !.pc = "shutdown"]
    <2>1. fetch.pc = "loop" /\ fetch' = f /\ kills' = kills
        BY <1>4 DEF AllYielded
    <2>2. f \in FetchRecord
        BY <1>1, <2>1 DEF FetchRecord
    <2>3. Winding(f)
        BY <1>1, <2>1, <2>2 DEF Winding, FetchRecord
    <2> HIDE DEF f
    <2> QED BY <1>1, <2>1, <2>3, WindingKeepsIInv
<1>5. CASE CancelQueued
    <2> DEFINE f == [fetch EXCEPT !.queue = <<>>, !.pc = "wait"]
    <2>1. fetch.pc = "shutdown" /\ fetch' = f /\ kills' = kills
        BY <1>5 DEF CancelQueued
    <2>2. <<>> \in Seq(FetchRow)
        BY EmptySeq
    <2>3. f \in FetchRecord
        BY <1>1, <2>1, <2>2 DEF FetchRecord
    <2>4. Winding(f)
        BY <1>1, <2>1, <2>3 DEF Winding, FetchRecord
    <2> HIDE DEF f
    <2> QED BY <1>1, <2>1, <2>4, WindingKeepsIInv
<1>6. CASE CtrlC /\ fetch.interrupt
    <2> DEFINE f == [NoFetch EXCEPT !.pc = "abandon", !.interrupt = TRUE, !.force = fetch.force,
                                    !.paused = fetch.paused]
    <2>1. fetch.pc \in {"loop", "shutdown", "wait"} /\ fetch' = f /\ kills' = kills + 1
        BY <1>6 DEF CtrlC
    <2>2. f \in FetchRecord /\ f.pc = "abandon" /\ f.queue = <<>> /\ f.interrupt /\ f.fatal = 0
        BY <1>1, <2>1, IdleTyped DEF FetchRecord, NoFetch
    <2> HIDE DEF f
    <2>3. Winding(f)
        BY <2>1, <2>2 DEF Winding
    <2>4. kills' \in Nat
        BY <1>1, <2>1
    <2> QED BY <1>1, <2>1, <2>3, <2>4, WindingKeepsIInv
<1>7. CASE CtrlC /\ ~ fetch.interrupt
    <2> DEFINE f == [fetch EXCEPT !.interrupt = TRUE]
    <2>1. fetch.pc \in {"loop", "shutdown", "wait"} /\ fetch' = f /\ kills' = kills
        BY <1>7 DEF CtrlC
    <2>2. f \in FetchRecord
        BY <1>1, <2>1 DEF FetchRecord
    <2>3. Winding(f)
        BY <1>1, <2>1, <2>2 DEF Winding, FetchRecord
    <2> HIDE DEF f
    <2> QED BY <1>1, <2>1, <2>3, WindingKeepsIInv
<1> QED BY <1>2, <1>3, <1>4, <1>5, <1>6, <1>7

(* A fetch whose workers are at rest: nothing is held, and nothing is checked. *)
LEMMA RestKeepsIInv ==
    ASSUME IInv, NEW f \in FetchRecord, fetch' = f, f.pc \in {"idle", "ended"}, f.queue = <<>>,
           UNCHANGED <<tables, file, version, val, cls, resets>>, kills' \in Nat,
           worker' \in [Workers -> WorkerRecord], \A w \in Workers : worker'[w].pc = "idle",
           asked' = {} \/ (asked' = asked /\ f.pc = "ended"), FatalInv',
           runs' \in [Stages -> [begun : Nat, finished : Nat]],
           \A s \in Stages : runs'[s].finished <= runs'[s].begun,
           runs'["validate_html"] = runs["validate_html"], runs'["classify_url"] = runs["classify_url"]
    PROVE  IInv'
<1>1. QueueInv'
    BY DEF QueueInv, Active
<1>2. RunsInv'
    BY RunsTyped DEF RunsInv
<1>3. Checkers' = {}
    BY DEF Checkers
<1>4. AskedInv'
    <2>1. CASE asked' = asked /\ f.pc = "ended"
        <3>1. Asking' = Asking
            BY <2>1 DEF Asking, tables
        <3>2. Checkers' \subseteq Checkers
            BY <1>3
        <3> QED BY <2>1, <3>1, <3>2, RunsTyped, AskedFrame
    <2>2. CASE asked' = {}
        <3>1. Asking' = {}
            BY <2>2 DEF Asking
        <3> QED BY <1>3, <2>2, <3>1, RunsTyped, AskedFrame
    <2> QED BY <2>1, <2>2
<1>5. asked' \subseteq asked
    OBVIOUS
<1> QED BY <1>1, <1>2, <1>4, <1>5, FetchMoves

(* The end of a fetch keeps the invariant: its report says so if a refusal was*)
(* met.                                                                       *)
LEMMA EndKeepsIInv ==
    ASSUME IInv, FinishFetch \/ Report \/ Abandoned \/ KillFetch
    PROVE  IInv'
<1>1. CASE FinishFetch
    <2> DEFINE e == [NoFetch EXCEPT !.pc = "ended", !.fatal = fetch.fatal,
                         !.aborted = fetch.aborted \/ (fetch.interrupt /\ fetch.fatal > 0)]
    <2>1. /\ e \in FetchRecord /\ e.pc = "ended" /\ e.queue = <<>> /\ e.fatal = fetch.fatal
          /\ e.aborted = (fetch.aborted \/ (fetch.interrupt /\ fetch.fatal > 0))
        BY IdleTyped, RunsTyped DEF FetchRecord, NoFetch
    <2>2. fetch' = e /\ fetch.pc = "wait" /\ \A w \in Workers : worker[w].pc = "idle"
        BY <1>1 DEF FinishFetch, WorkersIdle
    <2> HIDE DEF e
    <2>3. FatalInv'
        BY <2>1, <2>2, RunsTyped DEF FatalInv, FatalIsReported
    <2>4. FinishRun("fetch") /\ "fetch" \in Stages /\ runs["fetch"].finished < runs["fetch"].begun
        BY <2>2, <1>1, RunsTyped DEF FinishFetch, RunsInv
    <2>5. /\ runs' \in [Stages -> [begun : Nat, finished : Nat]]
          /\ \A s \in Stages : runs'[s].finished <= runs'[s].begun
          /\ runs'["validate_html"] = runs["validate_html"] /\ runs'["classify_url"] = runs["classify_url"]
        BY <2>4, RunFinishes, RunsTyped
    <2>6. UNCHANGED <<tables, file, version, worker, val, cls, asked, kills, resets>> /\ kills \in Nat
        BY <1>1, RunsTyped DEF FinishFetch
    <2> QED BY <2>1, <2>2, <2>3, <2>5, <2>6, RunsTyped, RestKeepsIInv
<1>2. CASE Report \/ Abandoned \/ KillFetch
    <2>1. /\ fetch' = NoFetch /\ asked' = {}
          /\ UNCHANGED <<tables, file, runs, version, val, cls, resets>> /\ kills' \in Nat
        BY <1>2, RunsTyped DEF Report, Abandoned, KillFetch
    <2>2. NoFetch \in FetchRecord /\ NoFetch.pc = "idle" /\ NoFetch.queue = <<>>
        BY IdleTyped DEF NoFetch
    <2>3. worker' \in [Workers -> WorkerRecord] /\ \A w \in Workers : worker'[w].pc = "idle"
        <3>1. CASE Report
            BY <3>1, RunsTyped DEF Report, QueueInv, Active
        <3>2. CASE Abandoned
            BY <3>2, RunsTyped DEF Abandoned, WorkersIdle
        <3>3. CASE KillFetch
            BY <3>3, IdleTyped DEF KillFetch, Idle
        <3> QED BY <1>2, <3>1, <3>2, <3>3
    <2>4. FatalInv'
        BY <2>1, <2>2 DEF FatalInv, FatalIsReported
    <2> QED BY <2>1, <2>2, <2>3, <2>4, RunsTyped, RestKeepsIInv
<1> QED BY <1>1, <1>2

(* The rows of a fetch that starts are pending, and no worker has any. *)
LEMMA StartKeepsIInv ==
    ASSUME IInv, NEW filter \in Filters, NEW site \in AnySite, NEW force \in AnySite,
           StartFetch(filter, site, force)
    PROVE  IInv'
<1> DEFINE S == Pending(filter, IF site # None THEN site ELSE force)
           queue == [i \in DOMAIN BySite(S) |->
                        [page |-> BySite(S)[i], label |-> pages[BySite(S)[i]].label]]
           f == [NoFetch EXCEPT !.pc = "loop", !.force = force, !.queue = queue]
<1>1. /\ fetch.pc = "idle" /\ fetch' = f /\ asked' = {} /\ StartRun("fetch")
      /\ UNCHANGED <<tables, file, version, worker, val, cls, kills, resets>>
    BY DEF StartFetch
<1>2. S \subseteq Known /\ S \subseteq Urls /\ \A p \in S : pages[p].status = "pending"
    BY KnownAre, RunsTyped DEF Pending
<1>3. /\ BySite(S) \in Seq(S) /\ \A i \in DOMAIN BySite(S) : BySite(S)[i] \in S
      /\ \A i, k \in DOMAIN BySite(S) : i # k => BySite(S)[i] # BySite(S)[k]
    <2> HIDE DEF S
    <2>1. BySite(S) \in Seq(S)
        BY <1>2, BySiteLists
    <2>2. \A i \in DOMAIN BySite(S) : BySite(S)[i] \in S
        BY <2>1, ElementOfSeq, LenProperties
    <2> QED BY <1>2, <2>1, <2>2, BySiteLists
<1> HIDE DEF S
<1>4. \A p \in S : pages[p].label \in PageLabels
    BY <1>2, KnownAre, RunsTyped DEF PageRecord
<1>5. /\ queue \in Seq(FetchRow) /\ DOMAIN queue = DOMAIN BySite(S)
      /\ \A i \in DOMAIN queue : queue[i].page = BySite(S)[i]
    <2>1. DOMAIN BySite(S) = 1 .. Len(BySite(S)) /\ Len(BySite(S)) \in Nat
        BY <1>3, LenProperties
    <2>2. \A i \in DOMAIN BySite(S) : [page |-> BySite(S)[i], label |-> pages[BySite(S)[i]].label] \in FetchRow
        BY <1>2, <1>3, <1>4 DEF FetchRow
    <2>3. queue \in [1 .. Len(BySite(S)) -> FetchRow]
        BY <2>1, <2>2
    <2> QED BY <2>1, <2>3, SeqDef
<1> HIDE DEF queue
<1>6. f \in FetchRecord /\ f.pc = "loop" /\ f.queue = queue /\ f.fatal = 0
    BY <1>5, IdleTyped DEF FetchRecord, NoFetch
<1> HIDE DEF f
<1>7. \A w \in Workers : ~ Active(w) /\ worker[w].pc = "idle"
    BY <1>1, RunsTyped DEF QueueInv, Active
<1>8. QueueInv'
    <2>1. ASSUME NEW i \in DOMAIN queue
          PROVE  /\ queue[i].page \in Known /\ pages[queue[i].page].status = "pending"
                 /\ \A k \in DOMAIN queue : k # i => queue[k].page # queue[i].page
        BY <1>2, <1>3, <1>5, <2>1
    <2>2. Known' = Known /\ pages' = pages /\ \A w \in Workers : ~ Active(w)'
        BY <1>1, <1>7 DEF tables, Known, Active
    <2> QED BY <1>1, <1>6, <2>1, <2>2 DEF QueueInv
<1>9. /\ runs' \in [Stages -> [begun : Nat, finished : Nat]]
      /\ \A s \in Stages : runs'[s].finished <= runs'[s].begun
      /\ runs'["fetch"].finished < runs'["fetch"].begun
      /\ runs'["validate_html"] = runs["validate_html"] /\ runs'["classify_url"] = runs["classify_url"]
    BY <1>1, RunStarts, RunsTyped
<1>10. RunsInv'
    BY <1>1, <1>9, RunsTyped DEF RunsInv
<1>11. FatalInv'
    BY <1>1, <1>6 DEF FatalInv, FatalIsReported
<1>12. AskedInv'
    <2>1. Asking' = {} /\ Checkers' = {}
        BY <1>1, <1>7 DEF Asking, Checkers
    <2> QED BY <1>1, <2>1, RunsTyped, AskedFrame
<1>13. kills' \in Nat /\ asked' \subseteq asked
    BY <1>1, RunsTyped
<1> QED BY <1>1, <1>6, <1>8, <1>9, <1>10, <1>11, <1>12, <1>13, RunsTyped, FetchMoves

-------------------------------------------------------------------------------
(* A worker and the page in its hand.  The record of the worker becomes r, and *)
(* that of the main thread f.                                                  *)
HandTo(w, r, f) ==
    /\ r \in WorkerRecord /\ worker' = [worker EXCEPT ![w] = r] /\ r.pc # "check"
    /\ r.pc # "idle" => r.page = worker[w].page
    /\ f \in FetchRecord /\ fetch' = f /\ f.pc = fetch.pc /\ f.queue = fetch.queue
    /\ fetch.interrupt => f.interrupt
    /\ f.fatal > 0 => fetch.fatal > 0 \/ f.interrupt
    /\ UNCHANGED <<runs, version, val, cls, kills, resets>>

(* What its record says of the page after the step. *)
HandOK(p, r) ==
    /\ r.pc \in {"fetch", "status"} => pages'[p].status = "pending"
    /\ r.pc \in {"status"} \cup Written => r.content \in Contents /\ file'[p] = r.content
    /\ r.pc \in Written => /\ pages'[p].status = StatusOf[version][r.content]
                           /\ verdict'[p] # None => verdict'[p].status = pages'[p].status
    /\ r.pc = "label" => Relabels(r.content)

(* A worker with a page: its record, its page and what holds of them.         *)
LEMMA HandIs ==
    ASSUME IInv, NEW w \in Workers, Active(w)
    PROVE  /\ worker[w] \in WorkerRecord /\ worker[w].page \in Known /\ worker[w].page \in Urls
           /\ WorkerAt(w) /\ DataAt(worker[w].page) /\ pages[worker[w].page] \in PageRecord
           /\ fetch.pc \notin {"idle", "ended"}
<1>1. WorkerAt(w) /\ worker[w] \in WorkerRecord
    BY RunsTyped DEF WorkerInv
<1>2. worker[w].page \in Known /\ worker[w].page \in Urls /\ pages[worker[w].page] \in PageRecord
    BY <1>1, KnownAre, RunsTyped DEF WorkerAt
<1> QED BY <1>1, <1>2, RunsTyped DEF DataInv, QueueInv

(* Going on to another step moves the worker alone.                           *)
LEMMA GotoHands ==
    ASSUME IInv, NEW w \in Workers, Active(w), UNCHANGED <<fetch, runs, version, val, cls, kills, resets>>,
           NEW s \in {"fetch", "verdict", "label", "score", "recheck"}, Goto(w, s)
    PROVE  \E r, f : /\ HandTo(w, r, f)
                     /\ r.pc = s /\ r.page = worker[w].page /\ r.content = worker[w].content
                     /\ r.before = worker[w].before
<1> DEFINE r == [worker[w] EXCEPT !.pc = s]
<1>1. /\ r \in WorkerRecord /\ r.pc = s /\ r.page = worker[w].page /\ r.content = worker[w].content
      /\ r.before = worker[w].before
    BY HandIs DEF WorkerRecord
<1>2. worker' = [worker EXCEPT ![w] = r]
    BY DEF Goto
<1> HIDE DEF r
<1>3. HandTo(w, r, fetch)
    BY <1>1, <1>2, RunsTyped DEF HandTo
<1> QED BY <1>1, <1>3

(* A worker that is done with its page is idle, and may have paused a site.   *)
LEMMA DoneHands ==
    ASSUME IInv, NEW w \in Workers, Active(w), UNCHANGED <<runs, version, val, cls, kills, resets>>,
           NEW sites \in SUBSET Sites, DonePausing(w, sites)
    PROVE  \E r, f : HandTo(w, r, f) /\ r.pc = "idle"
<1> DEFINE n == IF fetch.pc = "loop" THEN fetch.done + 1 ELSE fetch.done
           paused == fetch.paused \cup sites
           f == [fetch EXCEPT !.done = n, !.paused = paused]
<1>1. fetch \in FetchRecord
    BY RunsTyped
<1>2. n \in Nat /\ paused \in SUBSET Sites
    BY <1>1 DEF FetchRecord
<1>3. fetch' = f
    BY DEF DonePausing
<1> HIDE DEF n, paused
<1>4. /\ f \in FetchRecord /\ f.pc = fetch.pc /\ f.queue = fetch.queue /\ f.interrupt = fetch.interrupt
      /\ f.fatal = fetch.fatal
    BY <1>1, <1>2 DEF FetchRecord
<1> HIDE DEF f
<1>5. worker' = [worker EXCEPT ![w] = Idle] /\ Idle \in WorkerRecord /\ Idle.pc = "idle"
    BY IdleTyped DEF DonePausing, Idle
<1>6. HandTo(w, Idle, f)
    BY <1>3, <1>4, <1>5 DEF HandTo
<1> QED BY <1>5, <1>6

(* A step that writes at most the rows of the page in hand. *)
LEMMA HandKeepsIInv ==
    ASSUME IInv, NEW w \in Workers, Active(w), NEW r, NEW f, HandTo(w, r, f),
           NEW p, p = worker[w].page, HandOK(p, r),
           TablesOK', Known' = Known, asked' \subseteq Known,
           \A q \in Urls : q # p => SameRows(q), DataAt(p)',
           pages[p].status \in Unfetched \/ RowStays(p),
           AskedInv', BlockedSiteIsLeftAlone'
    PROVE  IInv'
<1>1. p \in Known
    BY HandIs
<1>2. /\ worker'[w] = r /\ \A x \in Workers : x # w => worker'[x] = worker[x]
      /\ worker' \in [Workers -> WorkerRecord]
    BY RunsTyped DEF HandTo
<1>3. \A q \in Known : q # p => SameRows(q)
    BY <1>1, KnownAre, RunsTyped
<1>4. DataInv'
    BY <1>1, RunsTyped, DataElsewhere
<1>5. QueueInv'
    <2>1. \A x \in Workers : worker'[x].pc # "idle" => worker[x].pc # "idle" /\ worker'[x].page = worker[x].page
        BY <1>2 DEF HandTo, Active
    <2>2. \A q \in Known : pages'[q].status = pages[q].status \/ \E x \in Workers : Active(x) /\ worker[x].page = q
        BY <1>1, <1>3 DEF SameRows
    <2>3. UNCHANGED <<fetch.pc, fetch.queue>>
        BY DEF HandTo
    <2> QED BY <2>1, <2>2, <2>3, RunsTyped, QueueFrame
<1>6. WorkerInv'
    <2>0. \A x \in Workers : worker'[x].pc # "idle" => worker[x].pc # "idle" /\ worker'[x].page = worker[x].page
        BY <1>2 DEF HandTo, Active
    <2>1. ASSUME NEW x \in Workers, x # w, Active(x)' PROVE WorkerAt(x)'
        <3>1. worker'[x] = worker[x] /\ Active(x) /\ WorkerAt(x)
            BY <1>2, <2>1, RunsTyped DEF Active, WorkerInv
        <3>2. worker[x].page # p /\ worker[x].page \in Known
            BY <1>1, <2>1, <3>1 DEF WorkerAt
        <3>3. WorkerStays(x)
            BY <1>3, <3>1, <3>2 DEF WorkerStays, SameRows
        <3> QED BY <2>0, <2>1, <3>3, RunsTyped, WorkerFrame DEF HandTo
    <2>2. ASSUME Active(w)' PROVE WorkerAt(w)'
        <3>1. r.pc # "idle" /\ r.page = p
            BY <1>1, <1>2, <2>2 DEF Active, HandTo
        <3>2. \A x \in Workers : x # w /\ Active(x)' => worker'[x].page # p
            BY <1>1, <1>2, HandIs DEF WorkerAt, Active
        <3>3. r.pc = "label" => Relabels(r.content)'
            BY DEF HandOK, HandTo, Relabels
        <3> QED BY <1>1, <1>2, <3>1, <3>2, <3>3 DEF HandOK, HandTo, WorkerAt, Relabels
    <2> QED BY <2>1, <2>2 DEF WorkerInv
<1>7. ValRowsInv' /\ ValInv'
    <2>1. \A q \in Known : pages[q].status \notin Unfetched => RowStays(q)
        BY <1>1, <1>3 DEF SameRows, RowStays
    <2> QED BY <2>1, RunsTyped, ValFrame DEF HandTo
<1>8. RunsInv'
    BY RunsTyped DEF RunsInv, HandTo
<1>9. FatalInv'
    BY HandIs, RunsTyped DEF FatalInv, FatalIsReported, HandTo
<1>10. TypeOK'
    BY <1>2, RunsTyped DEF TypeOK, LocalsOK, HandTo
<1> QED BY <1>4, <1>5, <1>6, <1>7, <1>8, <1>9, <1>10 DEF IInv, PlaceInv

(* No page is asked for, and one in hand that is pending is kept in hand or a   *)
(* stop was asked for.                                                         *)
LEMMA HandAsks ==
    ASSUME IInv, NEW w \in Workers, Active(w), NEW r, NEW f, HandTo(w, r, f), Asking' \subseteq Asking,
           \/ f.interrupt \/ worker[w].pc \notin {"fetch", "status"} \/ r.pc \in {"fetch", "status"}
           \/ worker[w].page \notin Asking'
    PROVE  AskedInv'
<1>1. worker'[w] = r /\ \A x \in Workers : x # w => worker'[x] = worker[x]
    BY RunsTyped DEF HandTo
<1>2. Checkers' \subseteq Checkers
    BY <1>1 DEF Checkers, HandTo
<1>3. fetch'.pc \notin {"idle", "ended"}
    BY HandIs DEF HandTo
<1>4. ASSUME ~ fetch'.interrupt, NEW q \in Asking' PROVE q \in Held'
    <2>1. q \in Held /\ ~ f.interrupt
        BY <1>4, HandIs, RunsTyped DEF AskedInv, HandTo
    <2>2. PICK x \in Workers : worker[x].pc \in {"fetch", "status"} /\ worker[x].page = q
        BY <2>1 DEF Held, Holders
    <2>3. worker'[x].pc \in {"fetch", "status"} /\ worker'[x].page = q
        BY <1>1, <1>4, <2>1, <2>2 DEF HandTo
    <2> QED BY <2>3 DEF Held, Holders
<1> QED BY <1>2, <1>3, <1>4, RunsTyped, AskedFrame

(* A step that writes nothing and asks for nothing. *)
LEMMA HandReads ==
    ASSUME IInv, NEW w \in Workers, Active(w), NEW r, NEW f, HandTo(w, r, f),
           UNCHANGED <<tables, file, asked>>, r.pc = "idle",
           f.interrupt \/ worker[w].pc \notin {"fetch", "status"}
    PROVE  IInv'
<1>0. PICK p \in Urls : p = worker[w].page
    BY HandIs
<1>1. TablesOK' /\ Known' = Known /\ asked' \subseteq Known
    BY RunsTyped DEF TypeOK, TablesOK, LocalsOK, tables, Known, HandTo
<1>2. \A q \in Urls : SameRows(q) /\ RowStays(q)
    BY <1>1 DEF SameRows, RowStays, tables
<1>3. DataAt(p)'
    BY RunsTyped, DataFrame DEF DataInv
<1>4. HandOK(p, r)
    BY DEF HandOK, Written
<1>5. Asking' \subseteq Asking
    BY DEF Asking, tables
<1>6. AskedInv'
    BY <1>5, HandAsks
<1>7. BlockedSiteIsLeftAlone'
    <2>1. StatusKept
        BY <1>1 DEF StatusKept, tables
    <2> QED BY <2>1, RunsTyped, BlockedStatusKept DEF IInv
<1> QED BY <1>0, <1>1, <1>2, <1>3, <1>4, <1>6, <1>7, HandKeepsIInv

(* A worker that is done, past the status, keeps the invariant.               *)
LEMMA DoneKeepsIInv ==
    ASSUME IInv, NEW w \in Workers, Active(w), NEW sites \in SUBSET Sites, DonePausing(w, sites),
           UNCHANGED <<tables, file, runs, version, val, cls, asked, kills, resets>>,
           worker[w].pc \notin {"fetch", "status"}
    PROVE  IInv'
<1>1. PICK r, f : HandTo(w, r, f) /\ r.pc = "idle"
    BY DoneHands
<1> QED BY <1>1, HandReads

(* A page has a site.                                                         *)
LEMMA SitesAre == \A p \in Urls : SiteOf[p] \in Sites
BY DEF Sites

(* Looking at the breaker again after a fetch keeps the invariant.            *)
LEMMA RecheckKeepsIInv ==
    ASSUME IInv, NEW w \in Workers, Recheck(w) PROVE IInv'
<1>1. Active(w) /\ worker[w].pc = "recheck"
    BY DEF Recheck, Active
<1>2. {SiteOf[worker[w].page]} \in SUBSET Sites /\ {} \in SUBSET Sites
    BY <1>1, HandIs, SitesAre
<1>3. UNCHANGED <<tables, file, runs, version, val, cls, asked, kills, resets>>
    BY DEF Recheck
<1>4. CASE Pause(w)
    BY <1>1, <1>2, <1>3, <1>4, DoneKeepsIInv DEF Pause
<1>5. CASE Done(w)
    BY <1>1, <1>2, <1>3, <1>5, DoneKeepsIInv DEF Done
<1> QED BY <1>4, <1>5 DEF Recheck

(* A refused account keeps the invariant: it is counted and asks for a stop,  *)
(* and the page stays pending.                                                *)
LEMMA RefusedKeepsIInv ==
    ASSUME IInv, NEW w \in Workers, FetchRefused(w) PROVE IInv'
<1>1. Active(w) /\ worker[w].pc = "fetch"
    BY DEF FetchRefused, Active
<1> DEFINE n == fetch.fatal + 1
           f == [fetch EXCEPT !.interrupt = TRUE, !.fatal = n]
<1>2. fetch \in FetchRecord
    BY RunsTyped
<1>3. n \in Nat
    BY <1>2 DEF FetchRecord
<1>4. fetch' = f
    BY DEF FetchRefused
<1> HIDE DEF n
<1>5. f \in FetchRecord /\ f.pc = fetch.pc /\ f.queue = fetch.queue /\ f.interrupt
    BY <1>2, <1>3 DEF FetchRecord
<1> HIDE DEF f
<1>6. /\ worker' = [worker EXCEPT ![w] = Idle] /\ Idle \in WorkerRecord /\ Idle.pc = "idle"
      /\ UNCHANGED <<tables, file, runs, version, val, cls, asked, kills, resets>>
    BY IdleTyped DEF FetchRefused, Idle
<1>7. HandTo(w, Idle, f)
    BY <1>4, <1>5, <1>6 DEF HandTo
<1> QED BY <1>1, <1>5, <1>6, <1>7, HandReads

(* Fewer than a window of the pages of a site with nothing but blocked ones are *)
(* fetched, where the breaker has not tripped.                                 *)
LEMMA BreakerCounts ==
    ASSUME TypeOK, NEW site \in Sites, ~ BreakerTrips(site), OnlyBlocked(site)
    PROVE  LET seen == {p \in Known : SiteOf[p] = site /\ pages[p].status # "pending"}
           IN  IsFiniteSet(seen) /\ Cardinality(seen) \in Nat /\ Cardinality(seen) < BreakerWindow
<1> DEFINE seen == {p \in Known : SiteOf[p] = site /\ pages[p].status # "pending"}
           recent == {p \in seen : Cardinality(Before(seen, IdsDown, p)) < BreakerWindow}
<1>1. seen \subseteq Urls /\ IsFiniteSet(seen)
    <2>1. seen \subseteq Urls
        BY KnownAre
    <2> QED BY <2>1, UrlsFinite, FS_Subset
<1>2. Orders(IdsDown, seen) /\ Cardinality(seen) \in Nat /\ BreakerWindow \in Nat \ {0}
    BY <1>1, OrdersAre, OrdersSubset, FS_CardinalityType, ConstantsOK
<1>3. RecentIds(site) = recent
    <2>1. \A p \in seen : Before(seen, IdsDown, p) = {q \in seen : q > p}
        BY <1>1 DEF Before, IdsDown
    <2>2. RecentIds(site) = {p \in seen : Cardinality({q \in seen : q > p}) < BreakerWindow}
        BY DEF RecentIds
    <2> QED BY <2>1, <2>2
<1>4. {p \in recent : pages[p].status = "blocked"} = recent
    BY DEF OnlyBlocked
<1>5. Cardinality(recent) >= BreakerWindow => ~ (10 * Cardinality(recent) > 4 * BreakerWindow)
    BY <1>3, <1>4 DEF BreakerTrips
<1>6. ASSUME Cardinality(seen) >= BreakerWindow PROVE FALSE
    <2>1. Cardinality(recent) \in Nat /\ Cardinality(recent) >= BreakerWindow
        <3> HIDE DEF seen
        <3> QED BY <1>1, <1>2, <1>6, FirstAreMany
    <2> HIDE DEF recent
    <2> QED BY <1>2, <1>5, <2>1
<1> HIDE DEF seen
<1> QED BY <1>1, <1>2, <1>6 DEF seen

(* Of the workers, each holds one page or checks for one: the pages held and    *)
(* the workers that check are no more than the workers.                        *)
LEMMA HeldFit ==
    ASSUME NEW g
    PROVE  LET checkers == {w \in Workers : g[w].pc = "check"}
               holders  == {w \in Workers : g[w].pc \in {"fetch", "status"}}
               held     == {g[w].page : w \in holders}
           IN  /\ IsFiniteSet(held) /\ IsFiniteSet(checkers)
               /\ Cardinality(held) \in Nat /\ Cardinality(checkers) \in Nat
               /\ Cardinality(held) + Cardinality(checkers) <= Cardinality(Workers)
<1> DEFINE checkers == {w \in Workers : g[w].pc = "check"}
           holders  == {w \in Workers : g[w].pc \in {"fetch", "status"}}
           held     == {g[w].page : w \in holders}
           h        == [w \in holders |-> g[w].page]
<1>1. checkers \subseteq Workers /\ holders \subseteq Workers /\ checkers \cap holders = {}
    OBVIOUS
<1>2. IsFiniteSet(checkers) /\ IsFiniteSet(holders) /\ IsFiniteSet(Workers)
    BY <1>1, ConstantsOK, FS_Subset
<1>3. h \in Surjection(holders, held)
    <2>1. h \in [holders -> held]
        OBVIOUS
    <2>2. \A p \in held : \E w \in holders : h[w] = p
        OBVIOUS
    <2> HIDE DEF h, held, holders
    <2> QED BY <2>1, <2>2 DEF Surjection
<1> HIDE DEF h, held, holders, checkers
<1>4. IsFiniteSet(held) /\ Cardinality(held) <= Cardinality(holders)
    BY <1>2, <1>3, FS_Surjection
<1>5. Cardinality(checkers \cup holders) = Cardinality(checkers) + Cardinality(holders)
    <2>1. Cardinality(checkers \cup holders)
             = Cardinality(checkers) + Cardinality(holders) - Cardinality(checkers \cap holders)
        BY <1>2, FS_Union
    <2>2. Cardinality(checkers \cap holders) = 0
        BY <1>1, FS_EmptySet
    <2>3. Cardinality(checkers) \in Nat /\ Cardinality(holders) \in Nat
        BY <1>2, FS_CardinalityType
    <2> QED BY <2>1, <2>2, <2>3
<1>6. Cardinality(checkers \cup holders) <= Cardinality(Workers)
    <2>1. checkers \cup holders \subseteq Workers
        BY <1>1
    <2> QED BY <1>2, <2>1, FS_Subset
<1>7. /\ Cardinality(checkers) \in Nat /\ Cardinality(holders) \in Nat /\ Cardinality(held) \in Nat
      /\ Cardinality(Workers) \in Nat
    BY <1>2, <1>4, FS_CardinalityType
<1>8. Cardinality(held) + Cardinality(checkers) <= Cardinality(Workers)
    BY <1>4, <1>5, <1>6, <1>7
<1> QED BY <1>2, <1>4, <1>7, <1>8 DEF held, checkers, holders

(* The queue of the fetch loses its first row. *)
LEMMA QueueTail ==
    ASSUME IInv, fetch.queue # <<>>
    PROVE  /\ Tail(fetch.queue) \in Seq(FetchRow)
           /\ Head(fetch.queue) = fetch.queue[1] /\ Head(fetch.queue) \in FetchRow
           /\ \A i \in DOMAIN Tail(fetch.queue) :
                i + 1 \in DOMAIN fetch.queue /\ Tail(fetch.queue)[i] = fetch.queue[i + 1] /\ i + 1 # 1
           /\ \A i, k \in DOMAIN Tail(fetch.queue) : i # k => i + 1 # k + 1
           /\ 1 \in DOMAIN fetch.queue
<1>1. fetch.queue \in Seq(FetchRow)
    BY RunsTyped DEF FetchRecord
<1>2. /\ Tail(fetch.queue) \in Seq(FetchRow) /\ Head(fetch.queue) \in FetchRow
      /\ Len(Tail(fetch.queue)) = Len(fetch.queue) - 1
      /\ \A i \in 1 .. Len(Tail(fetch.queue)) : Tail(fetch.queue)[i] = fetch.queue[i + 1]
    BY <1>1, HeadTailProperties
<1>3. /\ DOMAIN fetch.queue = 1 .. Len(fetch.queue) /\ Len(fetch.queue) \in Nat /\ Len(fetch.queue) # 0
      /\ DOMAIN Tail(fetch.queue) = 1 .. Len(Tail(fetch.queue)) /\ Len(Tail(fetch.queue)) \in Nat
    BY <1>1, <1>2, LenProperties, EmptySeq
<1>4. Head(fetch.queue) = fetch.queue[1]
    BY <1>1
<1> QED BY <1>2, <1>3, <1>4

(* A thread takes the next row: only its own record and the queue change. *)
LEMMA TakeKeepsIInv ==
    ASSUME IInv, NEW w \in Workers, Take(w) PROVE IInv'
<1> DEFINE row  == Head(fetch.queue)
           site == SiteOf[row.page]
           skip == fetch.interrupt \/ (site # fetch.force /\ site \in fetch.paused)
           n    == IF skip /\ fetch.pc = "loop" THEN fetch.done + 1 ELSE fetch.done
           q    == Tail(fetch.queue)
           f    == [fetch EXCEPT !.queue = q, !.done = n]
           pc   == IF site = fetch.force THEN "fetch" ELSE "check"
           r    == IF skip THEN Idle ELSE [Idle EXCEPT !.pc = pc, !.page = row.page, !.before = row.label]
<1>1. /\ fetch' = f /\ worker' = [worker EXCEPT ![w] = r] /\ worker[w].pc = "idle" /\ fetch.queue # <<>>
      /\ UNCHANGED <<tables, file, runs, version, val, cls, asked, kills, resets>>
    BY DEF Take
<1>2. /\ q \in Seq(FetchRow) /\ row = fetch.queue[1] /\ row \in FetchRow /\ 1 \in DOMAIN fetch.queue
      /\ \A i \in DOMAIN q : i + 1 \in DOMAIN fetch.queue /\ q[i] = fetch.queue[i + 1] /\ i + 1 # 1
      /\ \A i, k \in DOMAIN q : i # k => i + 1 # k + 1
    BY <1>1, QueueTail
<1>3. PICK p \in Urls : p = row.page /\ row.label \in PageLabels
    BY <1>2 DEF FetchRow
<1>4. fetch \in FetchRecord /\ n \in Nat
    BY RunsTyped DEF FetchRecord
<1>5. /\ r \in WorkerRecord /\ (skip => r.pc = "idle")
      /\ ~ skip => /\ r.pc = pc /\ r.page = p /\ r.pc \in {"fetch", "check"} /\ ~ fetch.interrupt
    BY <1>3, IdleTyped DEF WorkerRecord, Idle
<1> HIDE DEF n, q, r, skip, pc, site, row
<1>6. /\ f \in FetchRecord /\ f.pc = fetch.pc /\ f.queue = q /\ f.interrupt = fetch.interrupt
      /\ f.fatal = fetch.fatal
    BY <1>2, <1>4 DEF FetchRecord
<1> HIDE DEF f
<1>7. /\ worker'[w] = r /\ \A x \in Workers : x # w => worker'[x] = worker[x]
      /\ worker' \in [Workers -> WorkerRecord]
    BY <1>1, <1>5, RunsTyped
<1>8. fetch.pc \notin {"idle", "ended"}
    BY <1>1, RunsTyped DEF QueueInv
<1>9. p \in Known /\ pages[p].status = "pending" /\ \A x \in Workers : Active(x) => worker[x].page # p
    BY <1>2, <1>3, RunsTyped DEF QueueInv
<1>10. QueueInv'
    <2>1. ASSUME NEW i \in DOMAIN q
          PROVE  /\ q[i].page \in Known /\ pages[q[i].page].status = "pending"
                 /\ \A k \in DOMAIN q : k # i => q[k].page # q[i].page
                 /\ q[i].page # p
                 /\ \A x \in Workers : Active(x)' => worker'[x].page # q[i].page
        <3>1. i + 1 \in DOMAIN fetch.queue /\ q[i] = fetch.queue[i + 1] /\ i + 1 # 1
            BY <1>2
        <3>2. q[i].page \in Known /\ pages[q[i].page].status = "pending" /\ q[i].page # p
              /\ \A x \in Workers : Active(x) => worker[x].page # q[i].page
            BY <1>2, <1>3, <3>1, RunsTyped DEF QueueInv
        <3>3. \A k \in DOMAIN q : k # i => q[k].page # q[i].page
            BY <1>2, <3>1, RunsTyped DEF QueueInv
        <3>4. \A x \in Workers : Active(x)' => worker'[x].page # q[i].page
            BY <1>5, <1>7, <3>2 DEF Active
        <3> QED BY <3>2, <3>3, <3>4
    <2>2. Known' = Known /\ pages' = pages
        BY <1>1 DEF tables, Known
    <2> QED BY <1>1, <1>6, <1>8, <2>1, <2>2 DEF QueueInv
<1>11. FatalInv' /\ RunsInv'
    <2>1. FatalInv'
        BY <1>1, <1>6, <1>8, RunsTyped DEF FatalInv, FatalIsReported
    <2>2. RunsInv'
        BY <1>1, <1>6, RunsTyped DEF RunsInv
    <2> QED BY <2>1, <2>2
<1>12. CASE skip
    <2>1. \A x \in Workers : worker'[x].pc # "idle" => worker'[x] = worker[x]
        BY <1>5, <1>7, <1>12
    <2>2. Asking' = Asking /\ Held' = Held /\ Checkers' = Checkers
        <3>1. Asking' = Asking
            BY <1>1 DEF Asking, tables
        <3>2. Holders' = Holders /\ Checkers' = Checkers
            BY <1>1, <1>5, <1>7, <1>12 DEF Holders, Checkers
        <3>3. \A x \in Holders : x # w
            BY <1>1 DEF Holders
        <3>4. Held' = Held
            BY <1>7, <3>2, <3>3 DEF Held, Holders
        <3> QED BY <3>1, <3>2, <3>4
    <2>3. AskedInv'
        BY <1>1, <1>6, <1>8, <2>2, RunsTyped, AskedFrame DEF AskedInv
    <2> QED BY <1>1, <1>6, <1>7, <1>10, <1>11, <2>1, <2>3, RunsTyped, FetchMoves
<1>13. CASE ~ skip
    <2>1. StatusKept /\ Known' = Known /\ Known \subseteq Known' /\ asked' \subseteq asked
        BY <1>1 DEF StatusKept, tables, Known
    <2>2. WorkerInv'
        <3>1. ASSUME NEW x \in Workers, x # w, Active(x)' PROVE WorkerAt(x)'
            <4>1. worker'[x] = worker[x] /\ Active(x) /\ worker[x].page # p
                BY <1>7, <1>9, <3>1 DEF Active
            <4>2. WorkerStays(x)
                BY <1>1, <4>1 DEF WorkerStays, tables
            <4>3. \A y \in Workers : y # x /\ worker'[y].pc # "idle" =>
                      \/ worker[y].pc # "idle" /\ worker'[y].page = worker[y].page
                      \/ worker'[y].page # worker[x].page
                BY <1>5, <1>7, <1>13, <4>1
            <4> QED BY <1>1, <2>1, <3>1, <4>2, <4>3, RunsTyped, WorkerFrame
        <3>2. WorkerAt(w)'
            <4>1. worker'[w].pc \in {"fetch", "check"} /\ worker'[w].page = p
                BY <1>5, <1>7, <1>13
            <4>2. \A x \in Workers : x # w /\ Active(x)' => worker'[x].page # p
                BY <1>7, <1>9 DEF Active
            <4>3. p \in Known' /\ pages'[p].status = "pending"
                BY <1>1, <1>9, <2>1 DEF tables
            <4> QED BY <4>1, <4>2, <4>3 DEF WorkerAt, Written
        <3> QED BY <3>1, <3>2 DEF WorkerInv
    <2>3. ValRowsInv' /\ ValInv'
        <3>1. \A y \in Known : RowStays(y)
            BY <1>1 DEF RowStays, tables
        <3> QED BY <1>1, <2>1, <3>1, RunsTyped, ValFrame
    <2>4. TypeOK'
        BY <1>1, <1>6, <1>7, RunsTyped DEF TypeOK, TablesOK, LocalsOK, tables, Known
    <2>5. Asking' = Asking /\ Asking \subseteq Held
        BY <1>1, <1>5, <1>8, <1>13, RunsTyped DEF AskedInv, Asking, tables
    <2>6. Held \subseteq Held'
        <3>1. \A x \in Holders : x # w /\ x \in Holders' /\ worker'[x] = worker[x]
            BY <1>1, <1>7 DEF Holders
        <3> QED BY <3>1 DEF Held
    <2>7. AskedInv'
        <3>1. /\ IsFiniteSet(Held') /\ Cardinality(Held') \in Nat /\ Cardinality(Checkers') \in Nat
              /\ Cardinality(Held') + Cardinality(Checkers') <= Cardinality(Workers)
            BY HeldFit DEF Held, Holders, Checkers
        <3>2. IsFiniteSet(Asking') /\ Cardinality(Asking') <= Cardinality(Held')
            BY <2>5, <2>6, <3>1, FS_Subset
        <3>3. Cardinality(Asking') \in Nat /\ Cardinality(Workers) \in Nat
            BY <3>2, ConstantsOK, FS_CardinalityType
        <3>4. Cardinality(Asking') + Cardinality(Checkers') <= Cardinality(Workers)
            BY <3>1, <3>2, <3>3
        <3>5. Asking' \subseteq Held'
            BY <2>5, <2>6
        <3> QED BY <1>1, <1>6, <1>8, <3>4, <3>5 DEF AskedInv
    <2>8. DataInv' /\ BlockedSiteIsLeftAlone'
        BY <1>1, <2>1, RunsTyped, DataFrame, BlockedStatusKept DEF IInv
    <2> QED BY <1>10, <1>11, <2>2, <2>3, <2>4, <2>7, <2>8 DEF IInv, PlaceInv
<1> QED BY <1>12, <1>13

(* The breaker is read: where it has not tripped the page is asked for. *)
LEMMA CheckKeepsIInv ==
    ASSUME IInv, NEW w \in Workers, Check(w) PROVE IInv'
<1>1. /\ Active(w) /\ worker[w].pc = "check"
      /\ UNCHANGED <<tables, file, runs, version, val, cls, kills, resets>>
    BY DEF Check, Active
<1>2. PICK p \in Known : p = worker[w].page /\ p \in Urls /\ pages[p].status = "pending"
    BY <1>1, HandIs DEF WorkerAt
<1>3. CASE BreakerTrips(SiteOf[p])
    <2>1. Pause(w) /\ UNCHANGED asked
        BY <1>2, <1>3 DEF Check
    <2>2. {SiteOf[worker[w].page]} \in SUBSET Sites
        BY <1>2, SitesAre
    <2> QED BY <1>1, <2>1, <2>2, DoneKeepsIInv DEF Pause
<1>4. CASE ~ BreakerTrips(SiteOf[p])
    <2>1. Goto(w, "fetch") /\ asked' = asked \cup {p} /\ UNCHANGED fetch
        BY <1>2, <1>4 DEF Check
    <2>2. PICK r, f : HandTo(w, r, f) /\ r.pc = "fetch" /\ r.page = p
        BY <1>1, <1>2, <2>1, GotoHands
    <2>3. worker'[w] = r /\ \A x \in Workers : x # w => worker'[x] = worker[x]
        BY <2>2, RunsTyped DEF HandTo
    <2>4. TablesOK' /\ Known' = Known /\ asked' \subseteq Known
        BY <1>1, <1>2, <2>1, RunsTyped DEF TypeOK, TablesOK, LocalsOK, tables, Known
    <2>5. \A q \in Urls : SameRows(q) /\ RowStays(q)
        BY <1>1, <2>4 DEF SameRows, RowStays, tables
    <2>6. DataAt(p)'
        BY <1>1, <1>2, RunsTyped, DataFrame DEF DataInv
    <2>7. HandOK(p, r)
        BY <1>1, <1>2, <2>2 DEF HandOK, Written, tables
    <2>8. Asking' = Asking \cup {p}
        BY <1>1, <1>2, <2>1 DEF Asking, tables
    <2>9. Checkers' = Checkers \ {w} /\ w \in Checkers
        BY <1>1, <2>2, <2>3 DEF Checkers
    <2>10. /\ Cardinality(Asking') + Cardinality(Checkers') <= Cardinality(Workers)
           /\ IsFiniteSet(Asking') /\ Cardinality(Asking') \in Nat /\ Cardinality(Asking') <= Cardinality(Workers)
        <3>1. IsFiniteSet(Asking) /\ IsFiniteSet(Checkers) /\ IsFiniteSet(Workers)
            BY RunsTyped, AskedFinite
        <3>2. IsFiniteSet(Asking') /\ Cardinality(Asking') <= Cardinality(Asking) + 1
            <4>1. Cardinality(Asking) \in Nat
                BY <3>1, FS_CardinalityType
            <4>2. IsFiniteSet(Asking \cup {p}) /\ Cardinality(Asking \cup {p}) \in {Cardinality(Asking), Cardinality(Asking) + 1}
                BY <3>1, FS_AddElement
            <4> QED BY <2>8, <4>1, <4>2
        <3>3. IsFiniteSet(Checkers') /\ Cardinality(Checkers') = Cardinality(Checkers) - 1
            BY <2>9, <3>1, FS_RemoveElement
        <3>4. /\ Cardinality(Asking) \in Nat /\ Cardinality(Checkers) \in Nat /\ Cardinality(Workers) \in Nat
              /\ Cardinality(Asking') \in Nat /\ Cardinality(Checkers') \in Nat
            BY <3>1, <3>2, <3>3, FS_CardinalityType
        <3>5. Cardinality(Asking) + Cardinality(Checkers) <= Cardinality(Workers)
            BY RunsTyped DEF AskedInv
        <3> QED BY <3>2, <3>3, <3>4, <3>5
    <2>11. AskedInv'
        <3>1. fetch'.pc \notin {"idle", "ended"}
            BY <1>1, <2>2, HandIs DEF HandTo
        <3>2. ASSUME ~ fetch'.interrupt, NEW q \in Asking' PROVE q \in Held'
            <4>1. CASE q = p
                BY <2>2, <2>3, <4>1 DEF Held, Holders
            <4>2. CASE q # p
                <5>1. q \in Held
                    BY <1>1, <2>2, <2>8, <3>2, <4>2, HandIs, RunsTyped DEF AskedInv, HandTo
                <5>2. PICK x \in Workers : worker[x].pc \in {"fetch", "status"} /\ worker[x].page = q
                    BY <5>1 DEF Held, Holders
                <5>3. worker'[x] = worker[x]
                    BY <1>1, <2>3, <5>2
                <5> QED BY <5>2, <5>3 DEF Held, Holders
            <4> QED BY <4>1, <4>2
        <3> QED BY <2>10, <3>1, <3>2 DEF AskedInv
    <2>12. BlockedSiteIsLeftAlone'
        <3> SUFFICES ASSUME NEW site \in Sites, OnlyBlocked(site)'
                     PROVE  Cardinality(Mine(site)') <= BreakerWindow + Cardinality(Workers) - 1
            BY DEF BlockedSiteIsLeftAlone, OnlyBlocked, Mine
        <3>1. OnlyBlocked(site)
            BY <1>1, <2>4 DEF OnlyBlocked, tables
        <3>2. CASE site # SiteOf[p]
            <4>1. Mine(site)' = Mine(site)
                BY <2>1, <3>2 DEF Mine
            <4> QED BY <3>1, <4>1, RunsTyped DEF IInv, BlockedSiteIsLeftAlone, OnlyBlocked, Mine
        <3>3. CASE site = SiteOf[p]
            <4> DEFINE seen == {q \in Known : SiteOf[q] = site /\ pages[q].status # "pending"}
            <4>1. IsFiniteSet(seen) /\ Cardinality(seen) \in Nat /\ Cardinality(seen) < BreakerWindow
                BY <1>4, <3>1, <3>3, RunsTyped, BreakerCounts
            <4>2. Mine(site)' \subseteq seen \cup Asking'
                BY <1>1, <2>4 DEF Mine, Asking, tables
            <4> HIDE DEF seen
            <4>3. /\ IsFiniteSet(seen \cup Asking')
                  /\ Cardinality(seen \cup Asking') <= Cardinality(seen) + Cardinality(Asking')
                <5>1. IsFiniteSet(seen \cup Asking') /\ IsFiniteSet(seen \cap Asking')
                    BY <2>10, <4>1, FS_Union, FS_Subset
                <5>2. Cardinality(seen \cup Asking')
                        = Cardinality(seen) + Cardinality(Asking') - Cardinality(seen \cap Asking')
                    BY <2>10, <4>1, FS_Union
                <5>3. Cardinality(seen \cap Asking') \in Nat
                    BY <5>1, FS_CardinalityType
                <5> QED BY <2>10, <4>1, <5>1, <5>2, <5>3
            <4>4. IsFiniteSet(Mine(site)') /\ Cardinality(Mine(site)') <= Cardinality(seen \cup Asking')
                BY <4>2, <4>3, FS_Subset
            <4>5. Cardinality(Mine(site)') \in Nat /\ Cardinality(seen \cup Asking') \in Nat
                BY <4>3, <4>4, FS_CardinalityType
            <4>6. BreakerWindow \in Nat /\ Cardinality(Workers) \in Nat
                BY ConstantsOK, FS_CardinalityType
            <4> QED BY <2>10, <4>1, <4>3, <4>4, <4>5, <4>6
        <3> QED BY <3>2, <3>3
    <2> QED BY <1>1, <1>2, <2>2, <2>4, <2>5, <2>6, <2>7, <2>11, <2>12, HandKeepsIInv
<1> QED BY <1>3, <1>4

(* The tables after a write to one page. *)
LEMMA TablesWritten ==
    ASSUME IInv, NEW p \in Known, NEW r \in PageRecord, PageBecomes(p, r),
           r.status = "pending" => r.attempts < MaxAttempts,
           UNCHANGED <<verdict, scored, runs, version, kills, resets>>,
           labelled' \in [Urls -> UrlRow \cup {None}], file' = file
    PROVE  TablesOK'
<1>1. pages' \in Seq(PageRecord) /\ Len(pages') <= NumUrls
    BY RunsTyped DEF PageBecomes, TypeOK, TablesOK
<1>2. \A q \in Known' : pages'[q].status = "pending" => pages'[q].attempts < MaxAttempts
    BY RunsTyped DEF PageBecomes, TypeOK, TablesOK
<1> QED BY <1>1, <1>2, RunsTyped DEF TypeOK, TablesOK

(* A fetch that fails keeps the invariant: the page has no evaluation, whether*)
(* it stays pending or not.                                                   *)
LEMMA FailsKeepsIInv ==
    ASSUME IInv, NEW w \in Workers, FetchFails(w) PROVE IInv'
<1>1. /\ Active(w) /\ worker[w].pc = "fetch" /\ DonePausing(w, {}) /\ {} \in SUBSET Sites
      /\ UNCHANGED <<verdict, scored, labelled, file, runs, version, val, cls, kills, resets>>
    BY DEF FetchFails, Active, Done
<1>2. PICK p \in Known : p = worker[w].page /\ p \in Urls /\ pages[p].status = "pending" /\ DataAt(p)
    BY <1>1, HandIs DEF WorkerAt
<1>3. MarkFailed(p) /\ asked' = asked \ {p}
    BY <1>2 DEF FetchFails
<1>4. PICK d \in PageRecord : /\ PageBecomes(p, d) /\ d.label = pages[p].label
                              /\ d.status \in {"pending", "failed"} /\ d.saved = pages[p].saved
                              /\ d.status = "pending" => d.attempts < MaxAttempts
    BY <1>2, <1>3, RunsTyped, MarkFailedWrites
<1>5. /\ Known' = Known /\ pages'[p] = d /\ \A q \in Known : q # p => pages'[q] = pages[q]
    BY <1>4 DEF PageBecomes
<1>6. PICK r, f : HandTo(w, r, f) /\ r.pc = "idle"
    BY <1>1, DoneHands
<1>7. labelled' \in [Urls -> UrlRow \cup {None}] /\ asked' \subseteq Known
    BY <1>1, <1>3, RunsTyped DEF TypeOK, TablesOK, LocalsOK
<1>8. TablesOK'
    BY <1>1, <1>4, <1>7, TablesWritten
<1>9. \A q \in Urls : q # p => SameRows(q)
    BY <1>1, <1>5 DEF SameRows
<1>10. DataAt(p)'
    <2>1. verdict[p] = None /\ scored[p] = None /\ ~ pages[p].saved
        BY <1>2 DEF DataAt, UnfetchedAt, Unfetched
    <2> QED BY <1>1, <1>2, <1>4, <1>5, <2>1
            DEF DataAt, UnfetchedAt, FetchedAt, ScoreAt, LabelAt, VerdictAt, Unfetched
<1>11. Asking' \subseteq Asking /\ p \notin Asking'
    BY <1>3, <1>5, RunsTyped DEF Asking, TypeOK, LocalsOK
<1>12. AskedInv'
    BY <1>1, <1>2, <1>6, <1>11, HandAsks
<1>13. BlockedSiteIsLeftAlone'
    <2>1. \A site \in Sites : OnlyBlocked(site)' => OnlyBlocked(site)
        BY <1>2, <1>5 DEF OnlyBlocked
    <2> QED BY <1>3, <2>1, RunsTyped, BlockedFrame DEF IInv
<1>14. HandOK(p, r)
    BY <1>6 DEF HandOK, Written
<1>15. pages[p].status \in Unfetched
    BY <1>2 DEF Unfetched
<1> QED BY <1>1, <1>2, <1>5, <1>6, <1>7, <1>8, <1>9, <1>10, <1>12, <1>13, <1>14, <1>15, HandKeepsIInv

(* Saving the file keeps the invariant: the page was pending, so nobody       *)
(* evaluated it.                                                              *)
LEMMA SavesKeepsIInv ==
    ASSUME IInv, NEW w \in Workers, FetchSaves(w) PROVE IInv'
<1>1. /\ Active(w) /\ worker[w].pc = "fetch"
      /\ UNCHANGED <<tables, runs, version, fetch, val, cls, asked, kills, resets>>
    BY DEF FetchSaves, Active
<1>2. PICK p \in Known : p = worker[w].page /\ p \in Urls /\ pages[p].status = "pending" /\ DataAt(p)
    BY <1>1, HandIs DEF WorkerAt
<1>3. PICK c \in Serves[p] : /\ file' = [file EXCEPT ![p] = c]
                             /\ worker' = [worker EXCEPT ![w].pc = "status", ![w].content = c]
    BY <1>2 DEF FetchSaves
<1>4. c \in Contents
    BY <1>2, <1>3, ConstantsOK
<1> DEFINE r == [worker[w] EXCEPT !.pc = "status", !.content = c]
<1>5. r \in WorkerRecord /\ r.pc = "status" /\ r.page = p /\ r.content = c
    BY <1>1, <1>2, <1>4, HandIs DEF WorkerRecord
<1>6. worker' = [worker EXCEPT ![w] = r]
    BY <1>3, RunsTyped
<1> HIDE DEF r
<1>7. HandTo(w, r, fetch)
    BY <1>1, <1>2, <1>5, <1>6, RunsTyped DEF HandTo
<1>8. file' \in [Urls -> Contents \cup {None}] /\ file'[p] = c /\ \A q \in Urls : q # p => file'[q] = file[q]
    BY <1>2, <1>3, <1>4, RunsTyped DEF TypeOK, TablesOK
<1>9. TablesOK' /\ Known' = Known /\ asked' \subseteq Known
    BY <1>1, <1>8, RunsTyped DEF TypeOK, TablesOK, LocalsOK, tables, Known
<1>10. \A q \in Urls : q # p => SameRows(q)
    BY <1>1, <1>8, <1>9 DEF SameRows, tables
<1>11. DataAt(p)'
    <2>1. verdict[p] = None /\ scored[p] = None /\ ~ pages[p].saved
        BY <1>2 DEF DataAt, UnfetchedAt, Unfetched
    <2> QED BY <1>1, <1>2, <2>1
            DEF DataAt, UnfetchedAt, FetchedAt, ScoreAt, LabelAt, VerdictAt, Unfetched, tables, Known
<1>12. HandOK(p, r)
    BY <1>1, <1>2, <1>4, <1>5, <1>8 DEF HandOK, Written, tables
<1>13. AskedInv'
    <2>1. Asking' \subseteq Asking
        BY <1>1 DEF Asking, tables
    <2> QED BY <1>1, <1>5, <1>7, <2>1, HandAsks
<1>14. BlockedSiteIsLeftAlone'
    <2>1. StatusKept
        BY <1>1, <1>9 DEF StatusKept, tables
    <2> QED BY <1>1, <2>1, RunsTyped, BlockedStatusKept DEF IInv
<1>15. pages[p].status \in Unfetched
    BY <1>2 DEF Unfetched
<1> QED BY <1>1, <1>2, <1>7, <1>9, <1>10, <1>11, <1>12, <1>13, <1>14, <1>15, HandKeepsIInv

(* Writing the status keeps the invariant: it is what this version gives the  *)
(* file.                                                                      *)
LEMMA StatusKeepsIInv ==
    ASSUME IInv, NEW w \in Workers, WriteStatus(w) PROVE IInv'
<1>1. /\ Active(w) /\ worker[w].pc = "status" /\ Goto(w, "verdict")
      /\ UNCHANGED <<verdict, scored, labelled, file, runs, version, fetch, val, cls, asked, kills, resets>>
    BY DEF WriteStatus, Active
<1>2. PICK p \in Known : /\ p = worker[w].page /\ p \in Urls /\ pages[p].status = "pending" /\ DataAt(p)
                         /\ worker[w].content \in Contents /\ file[p] = worker[w].content
    BY <1>1, HandIs DEF WorkerAt
<1>3. PICK c \in Contents : c = worker[w].content /\ file[p] = c
    BY <1>2
<1>4. PICK s \in Statuses : s = StatusOf[version][c] /\ s \notin Unfetched /\ version \in Versions
    BY RunsTyped, StatusTyped DEF TypeOK, TablesOK, Unfetched
<1>5. MarkStatus(p, s, TRUE)
    BY <1>2, <1>3, <1>4 DEF WriteStatus
<1>6. PICK d \in PageRecord : /\ PageBecomes(p, d) /\ d.status = s /\ d.saved = TRUE
                              /\ d.label = pages[p].label
    BY <1>5, RunsTyped, MarkStatusWrites
<1>7. Known' = Known /\ pages'[p] = d /\ \A q \in Known : q # p => pages'[q] = pages[q]
    BY <1>6 DEF PageBecomes
<1>8. PICK r, f : HandTo(w, r, f) /\ r.pc = "verdict" /\ r.page = p /\ r.content = c
    BY <1>1, <1>2, <1>3, GotoHands
<1>9. labelled' \in [Urls -> UrlRow \cup {None}] /\ asked' \subseteq Known
    BY <1>1, RunsTyped DEF TypeOK, TablesOK, LocalsOK
<1>10. TablesOK'
    BY <1>1, <1>4, <1>6, <1>9, TablesWritten DEF Unfetched
<1>11. \A q \in Urls : q # p => SameRows(q)
    BY <1>1, <1>7 DEF SameRows
<1>12. verdict[p] = None /\ scored[p] = None
    BY <1>2 DEF DataAt, UnfetchedAt, Unfetched
<1>13. DataAt(p)'
    <2>1. \E v \in Versions : s = StatusOf[v][c]
        BY <1>4
    <2> QED BY <1>1, <1>2, <1>3, <1>4, <1>6, <1>7, <1>12, <2>1
            DEF DataAt, UnfetchedAt, FetchedAt, ScoreAt, LabelAt, VerdictAt
<1>14. HandOK(p, r)
    BY <1>1, <1>3, <1>4, <1>6, <1>7, <1>8, <1>12 DEF HandOK
<1>15. Asking' \subseteq Asking /\ p \notin Asking'
    BY <1>1, <1>4, <1>6, <1>7, RunsTyped DEF Asking, TypeOK, LocalsOK, Unfetched
<1>16. AskedInv'
    BY <1>1, <1>2, <1>8, <1>15, HandAsks
<1>17. BlockedSiteIsLeftAlone'
    <2>1. \A site \in Sites : OnlyBlocked(site)' => OnlyBlocked(site)
        BY <1>2, <1>7 DEF OnlyBlocked
    <2> QED BY <1>1, <2>1, RunsTyped, BlockedFrame DEF IInv
<1>18. pages[p].status \in Unfetched
    BY <1>2 DEF Unfetched
<1> QED BY <1>1, <1>2, <1>7, <1>8, <1>9, <1>10, <1>11, <1>13, <1>14, <1>16, <1>17, <1>18, HandKeepsIInv

(* The steps after the status: the worker's page keeps it, and the file. *)
LEMMA WrittenIs ==
    ASSUME IInv, NEW w \in Workers, worker[w].pc \in Written
    PROVE  \E p \in Known, c \in Contents :
              /\ p = worker[w].page /\ c = worker[w].content /\ p \in Urls /\ Active(w)
              /\ file[p] = c /\ pages[p].status = StatusOf[version][c] /\ pages[p].status \notin Unfetched
              /\ verdict[p] # None => verdict[p].status = pages[p].status
              /\ DataAt(p) /\ version \in Versions
              /\ worker[w].pc = "label" => Relabels(c)
              /\ worker[w].before \in PageLabels
<1>1. Active(w)
    BY DEF Active, Written
<1>2. /\ worker[w].page \in Known /\ worker[w].page \in Urls /\ worker[w].content \in Contents
      /\ file[worker[w].page] = worker[w].content
      /\ pages[worker[w].page].status = StatusOf[version][worker[w].content]
      /\ verdict[worker[w].page] # None => verdict[worker[w].page].status = pages[worker[w].page].status
      /\ DataAt(worker[w].page) /\ worker[w].before \in PageLabels
      /\ worker[w].pc = "label" => Relabels(worker[w].content)
    BY <1>1, HandIs DEF WorkerAt, WorkerRecord
<1>3. version \in Versions
    BY RunsTyped DEF TypeOK, TablesOK
<1>4. StatusOf[version][worker[w].content] \notin Unfetched
    BY <1>2, <1>3, StatusTyped DEF Unfetched
<1> QED BY <1>1, <1>2, <1>3, <1>4

(* A step that keeps the status and the file of every page, and asks for none. *)
LEMMA WrittenKeepsIInv ==
    ASSUME IInv, NEW w \in Workers, worker[w].pc \in Written, NEW r, NEW f, HandTo(w, r, f),
           NEW p, p = worker[w].page, HandOK(p, r), r.pc # "fetch", r.pc # "status",
           TablesOK', Known' = Known, UNCHANGED <<file, asked>>, StatusKept,
           \A q \in Urls : q # p => SameRows(q), DataAt(p)', RowStays(p)
    PROVE  IInv'
<1>1. Active(w) /\ worker[w].pc \notin {"fetch", "status"}
    BY DEF Active, Written
<1>2. Asking' \subseteq Asking
    BY RunsTyped DEF Asking, StatusKept, TypeOK, LocalsOK
<1>3. AskedInv'
    BY <1>1, <1>2, HandAsks
<1>4. BlockedSiteIsLeftAlone' /\ asked' \subseteq Known
    BY RunsTyped, BlockedStatusKept DEF IInv, TypeOK, LocalsOK
<1> QED BY <1>1, <1>3, <1>4, HandKeepsIInv

(* The rows that are recorded. *)
LEMMA VerdictWrites ==
    ASSUME TypeOK, NEW p \in Urls, NEW s \in Statuses, NEW before \in Statuses,
           RecordValidate(p, s, before)
    PROVE  /\ verdict' \in [Urls -> VerdictRow \cup {None}] /\ verdict'[p].status = s
           /\ \A q \in Urls : q # p => verdict'[q] = verdict[q]
<1> DEFINE row == [status |-> s, version |-> version, before |-> before]
<1>1. verdict' = [verdict EXCEPT ![p] = row] /\ row \in VerdictRow /\ row.status = s
    BY DEF RecordValidate, VerdictRow, TypeOK, TablesOK
<1> HIDE DEF row
<1> QED BY <1>1 DEF TypeOK, TablesOK

(* The row of a score that is recorded.                                       *)
LEMMA ScoreWrites ==
    ASSUME TypeOK, NEW p \in Urls, NEW l \in PageLabels, NEW before \in PageLabels,
           RecordScore(p, l, before)
    PROVE  /\ scored' \in [Urls -> ScoreRow \cup {None}] /\ scored'[p].label = l
           /\ \A q \in Urls : q # p => scored'[q] = scored[q]
<1> DEFINE row == [label |-> l, before |-> before]
<1>1. scored' = [scored EXCEPT ![p] = row] /\ row \in ScoreRow /\ row.label = l
    BY DEF RecordScore, ScoreRow
<1> HIDE DEF row
<1> QED BY <1>1 DEF TypeOK, TablesOK

(* Writing the verdict of a fetch keeps the invariant.                        *)
LEMMA VerdictKeepsIInv ==
    ASSUME IInv, NEW w \in Workers, WriteVerdict(w) PROVE IInv'
<1>1. /\ worker[w].pc = "verdict" /\ worker[w].pc \in Written
      /\ UNCHANGED <<pages, scored, labelled, file, runs, version, fetch, val, cls, asked, kills, resets>>
    BY DEF WriteVerdict, Written
<1>2. PICK p \in Known, c \in Contents :
              /\ p = worker[w].page /\ c = worker[w].content /\ p \in Urls /\ Active(w)
              /\ file[p] = c /\ pages[p].status = StatusOf[version][c] /\ pages[p].status \notin Unfetched
              /\ DataAt(p) /\ version \in Versions
    BY <1>1, WrittenIs
<1>3. PICK s \in Statuses : s = StatusOf[version][c]
    BY <1>2, StatusTyped
<1>4. RecordValidate(p, s, "pending") /\ "pending" \in Statuses
    BY <1>2, <1>3 DEF WriteVerdict, Statuses
<1>5. /\ verdict' \in [Urls -> VerdictRow \cup {None}] /\ verdict'[p].status = s
      /\ \A q \in Urls : q # p => verdict'[q] = verdict[q]
    BY <1>2, <1>4, RunsTyped, VerdictWrites
<1>6. PICK t \in {"label", "score"} : Goto(w, t) /\ (t = "label" => Relabels(c))
    BY <1>2 DEF WriteVerdict
<1>7. PICK r, f : HandTo(w, r, f) /\ r.pc = t /\ r.page = p /\ r.content = c
    BY <1>1, <1>2, <1>6, GotoHands
<1>8. TablesOK' /\ Known' = Known /\ StatusKept
    BY <1>1, <1>5, RunsTyped DEF TypeOK, TablesOK, Known, StatusKept
<1>9. \A q \in Urls : q # p => SameRows(q)
    BY <1>1, <1>5, <1>8 DEF SameRows
<1>10. DataAt(p)'
    BY <1>1, <1>2, <1>3, <1>5, <1>8 DEF DataAt, UnfetchedAt, FetchedAt, ScoreAt, LabelAt, VerdictAt
<1>11. RowStays(p)
    BY <1>1, <1>2, <1>3, <1>5 DEF RowStays
<1>12. HandOK(p, r)
    BY <1>1, <1>2, <1>3, <1>5, <1>6, <1>7 DEF HandOK
<1> QED BY <1>1, <1>2, <1>6, <1>7, <1>8, <1>9, <1>10, <1>11, <1>12, WrittenKeepsIInv

(* A label taken from the file is written. *)
LEMMA LabelData ==
    ASSUME NEW p \in Known, NEW d, PageBecomes(p, d), DataAt(p),
           d.status = pages[p].status, d.saved = pages[p].saved,
           pages[p].status \notin Unfetched, d.label = LabelOf[file[p]], LabelOf[file[p]] # None,
           UNCHANGED <<verdict, scored, labelled, file>>
    PROVE  DataAt(p)'
<1>1. Known' = Known /\ pages'[p] = d
    BY DEF PageBecomes
<1> QED BY <1>1 DEF DataAt, UnfetchedAt, FetchedAt, ScoreAt, LabelAt, VerdictAt

(* Writing the label of a fetch keeps the invariant.                          *)
LEMMA LabelKeepsIInv ==
    ASSUME IInv, NEW w \in Workers, WriteLabel(w) PROVE IInv'
<1>1. /\ worker[w].pc = "label" /\ worker[w].pc \in Written /\ Goto(w, "score")
      /\ UNCHANGED <<verdict, scored, labelled, file, runs, version, fetch, val, cls, asked, kills, resets>>
    BY DEF WriteLabel, Written
<1>2. PICK p \in Known, c \in Contents :
              /\ p = worker[w].page /\ c = worker[w].content /\ p \in Urls /\ Active(w)
              /\ file[p] = c /\ pages[p].status = StatusOf[version][c] /\ pages[p].status \notin Unfetched
              /\ verdict[p] # None => verdict[p].status = pages[p].status
              /\ DataAt(p) /\ Relabels(c)
    BY <1>1, WrittenIs
<1>3. PICK l \in PageLabels : l = LabelOf[c] /\ l # None
    BY <1>2, LabelTyped DEF Relabels
<1>4. SetContentType(p, l)
    BY <1>2, <1>3 DEF WriteLabel
<1>5. PICK d \in PageRecord : /\ PageBecomes(p, d) /\ d.label = l
                              /\ d.status = pages[p].status /\ d.saved = pages[p].saved
                              /\ d.attempts = pages[p].attempts
    BY <1>4, RunsTyped, SetContentTypeWrites
<1>6. Known' = Known /\ pages'[p] = d /\ \A q \in Known : q # p => pages'[q] = pages[q]
    BY <1>5 DEF PageBecomes
<1>7. PICK r, f : HandTo(w, r, f) /\ r.pc = "score" /\ r.page = p /\ r.content = c
    BY <1>1, <1>2, GotoHands
<1>8. labelled' \in [Urls -> UrlRow \cup {None}]
    BY <1>1, RunsTyped DEF TypeOK, TablesOK
<1>9. TablesOK'
    BY <1>1, <1>2, <1>5, <1>8, TablesWritten DEF Unfetched
<1>10. StatusKept
    BY <1>5, <1>6 DEF StatusKept
<1>11. \A q \in Urls : q # p => SameRows(q)
    BY <1>1, <1>6 DEF SameRows
<1>12. DataAt(p)'
    BY <1>1, <1>2, <1>3, <1>5, LabelData
<1>13. RowStays(p)
    BY <1>1, <1>5, <1>6 DEF RowStays
<1>14. HandOK(p, r)
    BY <1>1, <1>2, <1>5, <1>6, <1>7 DEF HandOK
<1> QED BY <1>1, <1>2, <1>6, <1>7, <1>9, <1>10, <1>11, <1>12, <1>13, <1>14, WrittenKeepsIInv

(* Writing the score of a fetch keeps the invariant.                          *)
LEMMA ScoreKeepsIInv ==
    ASSUME IInv, NEW w \in Workers, WriteScore(w) PROVE IInv'
<1>1. /\ worker[w].pc = "score" /\ worker[w].pc \in Written
      /\ UNCHANGED <<pages, verdict, labelled, file, runs, version, val, cls, asked, kills, resets>>
    BY DEF WriteScore, Written
<1>2. PICK p \in Known, c \in Contents :
              /\ p = worker[w].page /\ c = worker[w].content /\ p \in Urls /\ Active(w)
              /\ file[p] = c /\ pages[p].status = StatusOf[version][c] /\ pages[p].status \notin Unfetched
              /\ verdict[p] # None => verdict[p].status = pages[p].status
              /\ DataAt(p) /\ worker[w].before \in PageLabels
    BY <1>1, WrittenIs
<1>3. PICK l \in PageLabels, b \in PageLabels : l = LabelOf[c] /\ b = worker[w].before
    BY <1>2, LabelTyped
<1>4. RecordScore(p, l, b)
    BY <1>2, <1>3 DEF WriteScore
<1>5. /\ scored' \in [Urls -> ScoreRow \cup {None}] /\ scored'[p].label = l
      /\ \A q \in Urls : q # p => scored'[q] = scored[q]
    BY <1>2, <1>4, RunsTyped, ScoreWrites
<1>6. PICK r, f : HandTo(w, r, f) /\ (r.pc = "idle" \/ (r.pc = "recheck" /\ r.page = p /\ r.content = c))
    <2>1. CASE Done(w)
        BY <1>1, <1>2, <2>1, DoneHands DEF Done
    <2>2. CASE Goto(w, "recheck") /\ UNCHANGED fetch
        BY <1>1, <1>2, <2>2, GotoHands
    <2> QED BY <2>1, <2>2 DEF WriteScore
<1>7. TablesOK' /\ Known' = Known /\ StatusKept
    BY <1>1, <1>5, RunsTyped DEF TypeOK, TablesOK, Known, StatusKept
<1>8. \A q \in Urls : q # p => SameRows(q)
    BY <1>1, <1>5, <1>7 DEF SameRows
<1>9. DataAt(p)'
    BY <1>1, <1>2, <1>3, <1>5, <1>7 DEF DataAt, UnfetchedAt, FetchedAt, ScoreAt, LabelAt, VerdictAt
<1>10. RowStays(p)
    BY <1>1, <1>2 DEF RowStays
<1>11. HandOK(p, r)
    BY <1>1, <1>2, <1>6 DEF HandOK, Written
<1> QED BY <1>1, <1>2, <1>6, <1>7, <1>8, <1>9, <1>10, <1>11, WrittenKeepsIInv

(* Every step of a worker keeps the invariant.                                *)
LEMMA ProcessKeepsIInv ==
    ASSUME IInv, NEW w \in Workers, ProcessOne(w) PROVE IInv'
BY TakeKeepsIInv, CheckKeepsIInv, FailsKeepsIInv, RefusedKeepsIInv, SavesKeepsIInv, StatusKeepsIInv,
   VerdictKeepsIInv, LabelKeepsIInv, ScoreKeepsIInv, RecheckKeepsIInv DEF ProcessOne

-------------------------------------------------------------------------------
(* The validate process, which leaves the fetch alone. *)
ValMove(v) ==
    /\ val' = v /\ v \in ValRecord
    /\ UNCHANGED <<fetch, worker, cls, version, file, labelled>>

(* A step of validate keeps the invariant, where it keeps what holds of its   *)
(* own rows and of the data, and makes no page pending or not.                *)
LEMMA ValMovesKeepIInv ==
    ASSUME IInv, NEW v, ValMove(v), TablesOK', Known' = Known, RunsInv', ValRowsInv', ValInv', DataInv',
           asked' \subseteq asked, \A w \in Workers : Active(w) => WorkerStays(w),
           \A p \in Known : (pages'[p].status = "pending") <=> (pages[p].status = "pending"),
           BlockedSiteIsLeftAlone'
    PROVE  IInv'
<1>1. UNCHANGED <<fetch, worker, cls, version>>
    BY DEF ValMove
<1>2. QueueInv'
    BY <1>1, RunsTyped DEF QueueInv, Active
<1>3. WorkerInv'
    <2> SUFFICES ASSUME NEW w \in Workers, Active(w)' PROVE WorkerAt(w)'
        BY DEF WorkerInv
    <2>1. WorkerStays(w)
        BY <1>1 DEF Active
    <2>2. \A x \in Workers : x # w /\ worker'[x].pc # "idle" =>
              \/ worker[x].pc # "idle" /\ worker'[x].page = worker[x].page
              \/ worker'[x].page # worker[w].page
        BY <1>1
    <2> QED BY <1>1, <2>1, <2>2, RunsTyped, WorkerFrame
<1>4. FatalInv'
    BY <1>1, RunsTyped DEF FatalInv, FatalIsReported
<1>5. AskedInv'
    <2>1. Asking' \subseteq Asking
        BY RunsTyped DEF Asking, TypeOK, LocalsOK
    <2>2. Checkers' = Checkers /\ Held' = Held
        BY <1>1 DEF Checkers, Held, Holders
    <2>3. fetch'.pc = "idle" => asked' = {}
        BY <1>1, RunsTyped DEF AskedInv
    <2>4. ~ fetch'.interrupt /\ fetch'.pc # "ended" => Asking' \subseteq Held'
        BY <1>1, <2>1, <2>2, RunsTyped DEF AskedInv
    <2> QED BY <2>1, <2>2, <2>3, <2>4, RunsTyped, AskedFrame
<1>6. TypeOK'
    BY <1>1, RunsTyped DEF TypeOK, LocalsOK, ValMove
<1> QED BY <1>2, <1>3, <1>4, <1>5, <1>6 DEF IInv, PlaceInv

(* The row at the head of the queue. *)
LEMMA RowInHand ==
    ASSUME IInv, val.queue # <<>>
    PROVE  \E d \in ValRow :
              /\ d = Row /\ 1 \in DOMAIN val.queue /\ d = val.queue[1]
              /\ d.page \in Known /\ d.page \in Urls /\ d.status \in Statuses /\ d.label \in PageLabels
              /\ pages[d.page].status \notin Unfetched /\ DataAt(d.page) /\ file[d.page] \in Contents
              /\ val.pc \in {"next", "status"} => d.status = pages[d.page].status
              /\ \A i \in DOMAIN val.queue : i # 1 => val.queue[i].page # d.page
<1>1. PICK d \in ValRow : d = Row /\ 1 \in DOMAIN val.queue /\ d = val.queue[1]
    BY RunsTyped, RowIs
<1>2. RowAt(1)
    BY <1>1, RunsTyped DEF ValRowsInv
<1>3. d.page \in Known /\ d.page \in Urls /\ d.status \in Statuses /\ d.label \in PageLabels
    BY <1>1, <1>2 DEF RowAt, ValRow
<1>4. pages[d.page].status \notin Unfetched
    BY <1>1, <1>2 DEF RowAt
<1>5. DataAt(d.page)
    BY <1>3, RunsTyped DEF DataInv
<1>6. file[d.page] \in Contents
    BY <1>3, <1>4, <1>5 DEF DataAt, FetchedAt
<1>7. val.pc \in {"next", "status"} => d.status = pages[d.page].status
    BY <1>1, <1>2 DEF RowAt
<1>8. \A i \in DOMAIN val.queue : i # 1 => val.queue[i].page # d.page
    BY <1>1, RunsTyped DEF ValRowsInv, RowAt
<1> QED BY <1>1, <1>3, <1>4, <1>5, <1>6, <1>7, <1>8

(* The rows after the one in hand, which alone is written. *)
LEMMA LaterRow ==
    ASSUME IInv, NEW i \in DOMAIN val.queue, NEW q, q = val.queue[i].page,
           i # 1 \/ val.pc = "next", RowStays(q), UNCHANGED <<version, file>>
    PROVE  /\ pages'[q].status \notin Unfetched /\ val.queue[i].status = pages'[q].status /\ q \in Known
           /\ verdict'[q] = None \/ scored'[q] = None \/ verdict'[q].status = StatusOf[version'][file'[q]]
<1>1. RowAt(i)
    BY RunsTyped DEF ValRowsInv
<1>2. /\ q \in Known /\ pages[q].status \notin Unfetched /\ val.queue[i].status = pages[q].status
      /\ verdict[q] = None \/ scored[q] = None \/ verdict[q].status = StatusOf[version][file[q]]
    BY <1>1 DEF RowAt
<1> QED BY <1>2 DEF RowStays

(* The queue stays while its first row is evaluated.                          *)
LEMMA RowsKept ==
    ASSUME IInv, val.queue # <<>>, NEW p, p = Row.page, NEW v, val' = v, v.queue = val.queue,
           v.pc \in Evaluating, UNCHANGED <<version, file>>, Known' = Known,
           pages'[p].status \notin Unfetched,
           v.pc # "status" \/ (val.pc = "next" /\ RowStays(p)),
           \A q \in Known : q # p => RowStays(q)
    PROVE  ValRowsInv'
<1>1. PICK d \in ValRow :
              /\ d = Row /\ 1 \in DOMAIN val.queue /\ d = val.queue[1] /\ d.page \in Known
              /\ \A i \in DOMAIN val.queue : i # 1 => val.queue[i].page # d.page
    BY RowInHand
<1>2. v.pc \notin {"idle", "clear"}
    BY DEF Evaluating
<1>3. ASSUME NEW i \in DOMAIN val.queue PROVE RowAt(i)'
    <2>1. PICK q \in Known : q = val.queue[i].page
        BY RunsTyped DEF ValRowsInv, RowAt
    <2>2. \A k \in DOMAIN val.queue : k # i => val.queue[k].page # q
        BY <2>1, RunsTyped DEF ValRowsInv, RowAt
    <2>3. CASE i # 1 \/ v.pc = "status"
        <3>1. RowStays(q) /\ (i # 1 \/ val.pc = "next")
            BY <1>1, <2>1, <2>3
        <3>2. /\ pages'[q].status \notin Unfetched /\ val.queue[i].status = pages'[q].status
              /\ verdict'[q] = None \/ scored'[q] = None \/ verdict'[q].status = StatusOf[version'][file'[q]]
            BY <2>1, <3>1, LaterRow
        <3> QED BY <2>1, <2>2, <3>2 DEF RowAt
    <2>4. CASE i = 1 /\ v.pc # "status"
        <3>1. v.pc \in {"verdict", "label", "score"}
            BY <2>4 DEF Evaluating
        <3>2. q = p
            BY <1>1, <2>1, <2>4
        <3> QED BY <2>1, <2>2, <2>4, <3>1, <3>2 DEF RowAt
    <2> QED BY <2>3, <2>4
<1> QED BY <1>2, <1>3 DEF ValRowsInv

(* The first row is done, or passed over.                                     *)
LEMMA RowsTail ==
    ASSUME IInv, val.queue # <<>>, NEW p, p = Row.page, NEW v, val' = v, v.queue = Tail(val.queue),
           v.pc = "next", UNCHANGED <<version, file>>, Known' = Known,
           \A q \in Known : q # p => RowStays(q)
    PROVE  ValRowsInv' /\ ValInv'
<1>1. PICK d \in ValRow :
              /\ d = Row /\ 1 \in DOMAIN val.queue /\ d = val.queue[1] /\ d.page \in Known
              /\ \A i \in DOMAIN val.queue : i # 1 => val.queue[i].page # d.page
    BY RowInHand
<1>2. val.queue \in Seq(ValRow)
    BY RunsTyped DEF ValRecord
<1>3. /\ Len(v.queue) = Len(val.queue) - 1 /\ v.queue \in Seq(ValRow)
      /\ \A i \in 1 .. Len(v.queue) : v.queue[i] = val.queue[i + 1]
    BY <1>2, HeadTailProperties
<1>4. /\ DOMAIN val.queue = 1 .. Len(val.queue) /\ Len(val.queue) \in Nat
      /\ DOMAIN v.queue = 1 .. Len(v.queue) /\ Len(v.queue) \in Nat
    BY <1>2, <1>3, LenProperties
<1>5. /\ \A i \in DOMAIN v.queue : i + 1 \in DOMAIN val.queue /\ v.queue[i] = val.queue[i + 1] /\ i + 1 # 1
      /\ \A i, k \in DOMAIN v.queue : i # k => i + 1 # k + 1
    BY <1>3, <1>4
<1>6. ASSUME NEW i \in DOMAIN v.queue PROVE RowAt(i)'
    <2>1. PICK j \in DOMAIN val.queue : j = i + 1 /\ v.queue[i] = val.queue[j] /\ j # 1
        BY <1>5
    <2>2. PICK q \in Known : q = val.queue[j].page /\ \A k \in DOMAIN val.queue : k # j => val.queue[k].page # q
        BY RunsTyped DEF ValRowsInv, RowAt
    <2>3. RowStays(q)
        BY <1>1, <2>1, <2>2
    <2>4. /\ pages'[q].status \notin Unfetched /\ val.queue[j].status = pages'[q].status
          /\ verdict'[q] = None \/ scored'[q] = None \/ verdict'[q].status = StatusOf[version'][file'[q]]
        BY <2>1, <2>2, <2>3, LaterRow
    <2>5. \A k \in DOMAIN v.queue : k # i => v.queue[k].page # q
        BY <1>5, <2>1, <2>2
    <2> QED BY <2>1, <2>2, <2>4, <2>5 DEF RowAt
<1>7. ValRowsInv'
    BY <1>6 DEF ValRowsInv
<1>8. ValInv'
    BY DEF ValInv, Evaluating
<1> QED BY <1>7, <1>8

(* The process goes from one step to another of the same row. *)
LEMMA EvaluatingRecord ==
    ASSUME IInv, val.queue # <<>>, NEW v, val' = v, v.queue = val.queue, v.content \in Contents,
           v.pc \in Evaluating, NEW d, d = Row, file'[d.page] = v.content, UNCHANGED version,
           v.pc = "status" => StatusOf[version][v.content] # d.status,
           v.pc \in {"verdict", "label", "score"} => pages'[d.page].status = StatusOf[version][v.content],
           v.pc = "label" => Relabels(v.content),
           v.pc \in {"label", "score"} /\ verdict'[d.page] # None => verdict'[d.page].status = pages'[d.page].status
    PROVE  ValInv'
<1>1. Row' = d
    BY DEF Row
<1>2. v.pc = "label" => Relabels(v.content)'
    BY DEF Relabels
<1> QED BY <1>1, <1>2 DEF ValInv, Relabels

(* Where pages and requests are left alone, so is all that counts them.       *)
LEMMA PagesSame ==
    ASSUME IInv, UNCHANGED <<pages, asked>>
    PROVE  StatusKept /\ Known' = Known /\ BlockedSiteIsLeftAlone'
<1>1. StatusKept /\ Known' = Known
    BY DEF StatusKept, Known
<1> QED BY <1>1, RunsTyped, BlockedStatusKept DEF IInv

(* Taking the next row keeps the invariant: its status is the one the page    *)
(* has.                                                                       *)
LEMMA NextRowKeepsIInv == ASSUME IInv, NextRow PROVE IInv'
<1>1. /\ val.pc = "next" /\ val.queue # <<>>
      /\ UNCHANGED <<tables, file, runs, version, fetch, worker, cls, asked, kills, resets>>
    BY DEF NextRow
<1>2. PICK d \in ValRow :
              /\ d = Row /\ d.page \in Known /\ d.page \in Urls
              /\ pages[d.page].status \notin Unfetched /\ file[d.page] \in Contents
              /\ d.status = pages[d.page].status
    BY <1>1, RowInHand
<1>3. PICK c \in Contents : c = file[d.page] /\ c # None
    BY <1>2, ConstantsOK
<1> DEFINE pc == IF StatusOf[version][c] # d.status THEN "status" ELSE "verdict"
           v  == [val EXCEPT !.content = c, !.pc = pc]
<1>4. val' = v
    BY <1>2, <1>3 DEF NextRow
<1>5. v \in ValRecord /\ v.queue = val.queue /\ v.content = c /\ v.pc = pc
    BY <1>3, RunsTyped DEF ValRecord
<1>6. /\ v.pc \in Evaluating /\ v.pc # "label" /\ v.pc # "score"
      /\ v.pc = "status" => StatusOf[version][c] # d.status
      /\ v.pc = "verdict" => pages[d.page].status = StatusOf[version][c]
    BY <1>2, <1>5 DEF Evaluating
<1> HIDE DEF v, pc
<1>7. ValMove(v)
    BY <1>1, <1>4, <1>5 DEF ValMove, tables
<1>8. TablesOK' /\ Known' = Known /\ DataInv' /\ StatusKept /\ BlockedSiteIsLeftAlone'
    BY <1>1, RunsTyped, DataFrame, PagesSame DEF TypeOK, TablesOK, tables, Known
<1>9. \A q \in Known : RowStays(q)
    BY <1>1 DEF RowStays, tables
<1>10. ValRowsInv'
    BY <1>1, <1>2, <1>4, <1>5, <1>6, <1>8, <1>9, RowsKept DEF tables
<1>11. ValInv'
    BY <1>1, <1>2, <1>3, <1>4, <1>5, <1>6, EvaluatingRecord DEF tables
<1>12. RunsInv'
    BY <1>1, <1>4, RunsTyped DEF RunsInv
<1>13. \A w \in Workers : WorkerStays(w)
    BY <1>1 DEF WorkerStays, tables
<1>14. \A p \in Known : (pages'[p].status = "pending") <=> (pages[p].status = "pending")
    BY <1>8 DEF StatusKept
<1> QED BY <1>1, <1>7, <1>8, <1>10, <1>11, <1>12, <1>13, <1>14, ValMovesKeepIInv

(* The status of the row is written: the file has no label, and nobody fetches  *)
(* the page.                                                                   *)
LEMMA RestatusKeepsIInv == ASSUME IInv, Restatus PROVE IInv'
<1>1. /\ val.pc = "status" /\ val.queue # <<>>
      /\ UNCHANGED <<verdict, scored, labelled, file, runs, version, fetch, worker, cls, kills, resets>>
    BY RunsTyped DEF Restatus, ValInv, Evaluating
<1>2. PICK d \in ValRow :
              /\ d = Row /\ d.page \in Known /\ d.page \in Urls
              /\ pages[d.page].status \notin Unfetched /\ DataAt(d.page)
              /\ d.status = pages[d.page].status
    BY <1>1, RowInHand
<1>3. PICK p \in Known : p = d.page /\ p \in Urls
    BY <1>2
<1>4. PICK c \in Contents : c = val.content /\ file[p] = c /\ StatusOf[version][c] # pages[p].status
    BY <1>1, <1>2, <1>3, RunsTyped DEF ValInv, Evaluating
<1>5. PICK s \in Statuses : s = StatusOf[version][c] /\ s \notin Unfetched /\ version \in Versions
    BY RunsTyped, StatusTyped DEF TypeOK, TablesOK, Unfetched
<1>6. PICK saved \in BOOLEAN : MarkStatus(p, s, saved)
    BY <1>2, <1>3, <1>4, <1>5 DEF Restatus
<1>7. PICK e \in PageRecord : /\ PageBecomes(p, e) /\ e.status = s /\ e.saved = saved
                              /\ e.label = pages[p].label
    BY <1>6, RunsTyped, MarkStatusWrites
<1>8. Known' = Known /\ pages'[p] = e /\ \A q \in Known : q # p => pages'[q] = pages[q]
    BY <1>7 DEF PageBecomes
<1>9. LabelOf[c] = None
    <2> SUFFICES ASSUME LabelOf[c] # None PROVE FALSE
        OBVIOUS
    <2>1. PICK u \in Versions : pages[p].status = StatusOf[u][c]
        BY <1>2, <1>3, <1>4 DEF DataAt, FetchedAt
    <2> QED BY <1>4, <1>5, <2>1, LabelledAreSteady
<1> DEFINE v == [val EXCEPT !.pc = "verdict"]
<1>10. val' = v /\ v \in ValRecord /\ v.queue = val.queue /\ v.pc = "verdict" /\ v.content = c
    BY <1>4, RunsTyped DEF Restatus, ValRecord
<1> HIDE DEF v
<1>11. ValMove(v)
    BY <1>1, <1>10 DEF ValMove
<1>12. TablesOK'
    <2>1. labelled' \in [Urls -> UrlRow \cup {None}]
        BY <1>1, RunsTyped DEF TypeOK, TablesOK
    <2> QED BY <1>1, <1>5, <1>7, <2>1, TablesWritten DEF Unfetched
<1>13. DataInv'
    <2>1. \A q \in Urls : q # p => SameRows(q)
        BY <1>1, <1>8 DEF SameRows
    <2>2. \E u \in Versions : s = StatusOf[u][c]
        BY <1>5
    <2>3. UnfetchedAt(p)' /\ FetchedAt(p)' /\ ScoreAt(p)'
        BY <1>1, <1>2, <1>3, <1>4, <1>5, <1>7, <1>8, <1>9, <2>2
           DEF DataAt, UnfetchedAt, FetchedAt, ScoreAt
    <2>4. LabelAt(p)'
        BY <1>1, <1>2, <1>3, <1>4, <1>7, <1>8, <1>9 DEF DataAt, LabelAt
    <2>5. VerdictAt(p)'
        <3>1. verdict[p] = None \/ scored[p] = None \/ verdict[p].status = s
            BY <1>1, <1>2, <1>3, <1>4, <1>5, RunsTyped, RowIs DEF ValRowsInv, RowAt
        <3> QED BY <1>1, <1>7, <1>8, <3>1 DEF VerdictAt
    <2>6. DataAt(p)'
        BY <2>3, <2>4, <2>5 DEF DataAt
    <2> QED BY <2>1, <2>6, RunsTyped, DataElsewhere
<1>14. \A q \in Known : q # p => RowStays(q)
    BY <1>1, <1>8 DEF RowStays
<1>15. ValRowsInv'
    BY <1>1, <1>2, <1>3, <1>5, <1>7, <1>8, <1>10, <1>14, RowsKept DEF Evaluating
<1>16. ValInv'
    BY <1>1, <1>2, <1>3, <1>4, <1>5, <1>7, <1>8, <1>10, EvaluatingRecord DEF Evaluating
<1>17. RunsInv'
    BY <1>1, <1>10, RunsTyped DEF RunsInv, Evaluating
<1>18. ASSUME NEW w \in Workers, Active(w) PROVE WorkerStays(w)
    <2>1. WorkerAt(w)
        BY <1>18, RunsTyped DEF WorkerInv
    <2>2. worker[w].page # p
        <3> SUFFICES ASSUME worker[w].page = p PROVE FALSE
            OBVIOUS
        <3>1. worker[w].pc \notin {"check", "fetch", "status"}
            BY <1>2, <1>3, <2>1 DEF WorkerAt, Unfetched
        <3>2. worker[w].pc \in Written
            BY <1>18, <3>1, RunsTyped DEF Active, Written, WorkerRecord
        <3> QED BY <1>4, <2>1, <3>2 DEF WorkerAt
    <2> QED BY <1>1, <1>8, <2>1, <2>2 DEF WorkerStays, WorkerAt
<1>19. \A q \in Known : (pages'[q].status = "pending") <=> (pages[q].status = "pending")
    BY <1>2, <1>3, <1>5, <1>7, <1>8 DEF Unfetched
<1>20. asked' = {q \in asked : SiteOf[q] # SiteOf[p]}
    BY <1>2, <1>3 DEF Restatus
<1>21. BlockedSiteIsLeftAlone'
    <2>1. ASSUME NEW site \in Sites, OnlyBlocked(site)' PROVE OnlyBlocked(site) \/ Mine(site)' = {}
        <3>1. CASE site = SiteOf[p]
            BY <1>20, <3>1 DEF Mine
        <3>2. CASE site # SiteOf[p]
            BY <1>8, <2>1, <3>2 DEF OnlyBlocked
        <3> QED BY <3>1, <3>2
    <2> QED BY <1>20, <2>1, RunsTyped, BlockedFrame DEF IInv
<1> QED BY <1>8, <1>11, <1>12, <1>13, <1>15, <1>16, <1>17, <1>18, <1>19, <1>20, <1>21, ValMovesKeepIInv

(* The row in hand after its status: page, file and status agree. *)
LEMMA EvaluatedIs ==
    ASSUME IInv, val.pc \in {"verdict", "label", "score"}
    PROVE  \E p \in Known, c \in Contents, d \in ValRow :
              /\ d = Row /\ p = d.page /\ p \in Urls /\ c = val.content /\ file[p] = c /\ val.queue # <<>>
              /\ d.status \in Statuses /\ d.label \in PageLabels /\ DataAt(p) /\ version \in Versions
              /\ pages[p].status = StatusOf[version][c] /\ pages[p].status \notin Unfetched
              /\ val.pc \in {"label", "score"} /\ verdict[p] # None => verdict[p].status = pages[p].status
              /\ val.pc = "label" => Relabels(c)
<1>1. val.queue # <<>> /\ val.content \in Contents /\ file[Row.page] = val.content
    BY RunsTyped DEF ValInv, Evaluating
<1>2. PICK d \in ValRow :
              /\ d = Row /\ d.page \in Known /\ d.page \in Urls /\ d.status \in Statuses /\ d.label \in PageLabels
              /\ pages[d.page].status \notin Unfetched /\ DataAt(d.page)
    BY <1>1, RowInHand
<1>3. version \in Versions
    BY RunsTyped DEF TypeOK, TablesOK
<1> QED BY <1>1, <1>2, <1>3, RunsTyped DEF ValInv

(* Writing the verdict anew keeps the invariant.                              *)
LEMMA ReverdictKeepsIInv == ASSUME IInv, Reverdict PROVE IInv'
<1>1. /\ val.pc = "verdict"
      /\ UNCHANGED <<pages, scored, labelled, file, runs, version, fetch, worker, cls, asked, kills, resets>>
    BY DEF Reverdict
<1>2. PICK p \in Known, c \in Contents, d \in ValRow :
              /\ d = Row /\ p = d.page /\ p \in Urls /\ c = val.content /\ file[p] = c /\ val.queue # <<>>
              /\ d.status \in Statuses /\ DataAt(p) /\ version \in Versions
              /\ pages[p].status = StatusOf[version][c] /\ pages[p].status \notin Unfetched
    BY <1>1, EvaluatedIs
<1>3. PICK s \in Statuses, b \in Statuses : s = StatusOf[version][c] /\ b = d.status
    BY <1>2, StatusTyped
<1>4. RecordValidate(p, s, b)
    BY <1>2, <1>3 DEF Reverdict
<1>5. /\ verdict' \in [Urls -> VerdictRow \cup {None}] /\ verdict'[p].status = s
      /\ \A q \in Urls : q # p => verdict'[q] = verdict[q]
    BY <1>2, <1>4, RunsTyped, VerdictWrites
<1>6. PICK t \in {"label", "score"} : val' = [val EXCEPT !.pc = t] /\ (t = "label" => Relabels(c))
    BY <1>2 DEF Reverdict
<1> DEFINE v == [val EXCEPT !.pc = t]
<1>7. val' = v /\ v \in ValRecord /\ v.queue = val.queue /\ v.pc = t /\ v.content = c
    BY <1>2, <1>6, RunsTyped DEF ValRecord
<1> HIDE DEF v
<1>8. ValMove(v)
    BY <1>1, <1>7 DEF ValMove
<1>9. TablesOK' /\ Known' = Known /\ StatusKept /\ BlockedSiteIsLeftAlone'
    BY <1>1, <1>5, RunsTyped, PagesSame DEF TypeOK, TablesOK, Known
<1>10. DataInv'
    <2>1. \A q \in Urls : q # p => SameRows(q)
        BY <1>1, <1>5, <1>9 DEF SameRows
    <2>2. DataAt(p)'
        BY <1>1, <1>2, <1>3, <1>5, <1>9 DEF DataAt, UnfetchedAt, FetchedAt, ScoreAt, LabelAt, VerdictAt
    <2> QED BY <2>1, <2>2, RunsTyped, DataElsewhere
<1>11. \A q \in Known : RowStays(q)
    BY <1>1, <1>2, <1>3, <1>5, KnownAre, RunsTyped DEF RowStays
<1>12. ValRowsInv'
    BY <1>1, <1>2, <1>7, <1>9, <1>11, RowsKept DEF Evaluating
<1>13. ValInv'
    BY <1>1, <1>2, <1>3, <1>5, <1>6, <1>7, EvaluatingRecord DEF Evaluating
<1>14. RunsInv'
    BY <1>1, <1>7, RunsTyped DEF RunsInv, Evaluating
<1>15. ASSUME NEW w \in Workers, Active(w) PROVE WorkerStays(w)
    <2>1. worker[w].page \in Urls
        BY <1>15, HandIs
    <2>2. worker[w].page # p => verdict'[worker[w].page] = verdict[worker[w].page]
        BY <1>5, <2>1
    <2> QED BY <1>1, <1>2, <1>3, <1>5, <2>2 DEF WorkerStays
<1>16. \A q \in Known : (pages'[q].status = "pending") <=> (pages[q].status = "pending")
    BY <1>9 DEF StatusKept
<1> QED BY <1>1, <1>8, <1>9, <1>10, <1>12, <1>13, <1>14, <1>15, <1>16, ValMovesKeepIInv

(* Writing the label anew keeps the invariant.                                *)
LEMMA RelabelKeepsIInv == ASSUME IInv, Relabel PROVE IInv'
<1>1. /\ val.pc = "label"
      /\ UNCHANGED <<verdict, scored, labelled, file, runs, version, fetch, worker, cls, asked, kills, resets>>
    BY DEF Relabel
<1>2. PICK p \in Known, c \in Contents, d \in ValRow :
              /\ d = Row /\ p = d.page /\ p \in Urls /\ c = val.content /\ file[p] = c /\ val.queue # <<>>
              /\ DataAt(p) /\ version \in Versions
              /\ pages[p].status = StatusOf[version][c] /\ pages[p].status \notin Unfetched
              /\ verdict[p] # None => verdict[p].status = pages[p].status
              /\ Relabels(c)
    BY <1>1, EvaluatedIs
<1>3. PICK l \in PageLabels : l = LabelOf[c] /\ l # None
    BY <1>2, LabelTyped DEF Relabels
<1>4. SetContentType(p, l)
    BY <1>2, <1>3 DEF Relabel
<1>5. PICK e \in PageRecord : /\ PageBecomes(p, e) /\ e.label = l
                              /\ e.status = pages[p].status /\ e.saved = pages[p].saved
                              /\ e.attempts = pages[p].attempts
    BY <1>4, RunsTyped, SetContentTypeWrites
<1>6. Known' = Known /\ pages'[p] = e /\ \A q \in Known : q # p => pages'[q] = pages[q]
    BY <1>5 DEF PageBecomes
<1> DEFINE v == [val EXCEPT !.pc = "score"]
<1>7. val' = v /\ v \in ValRecord /\ v.queue = val.queue /\ v.pc = "score" /\ v.content = c
    BY <1>2, RunsTyped DEF Relabel, ValRecord
<1> HIDE DEF v
<1>8. ValMove(v)
    BY <1>1, <1>7 DEF ValMove
<1>9. TablesOK'
    <2>1. labelled' \in [Urls -> UrlRow \cup {None}]
        BY <1>1, RunsTyped DEF TypeOK, TablesOK
    <2> QED BY <1>1, <1>2, <1>5, <2>1, TablesWritten DEF Unfetched
<1>10. StatusKept
    BY <1>5, <1>6 DEF StatusKept
<1>11. BlockedSiteIsLeftAlone'
    BY <1>1, <1>10, RunsTyped, BlockedStatusKept DEF IInv
<1>12. DataInv'
    <2>1. \A q \in Urls : q # p => SameRows(q)
        BY <1>1, <1>6 DEF SameRows
    <2>2. DataAt(p)'
        BY <1>1, <1>2, <1>3, <1>5, LabelData
    <2> QED BY <2>1, <2>2, RunsTyped, DataElsewhere
<1>13. \A q \in Known : RowStays(q)
    BY <1>1, <1>10 DEF RowStays, StatusKept
<1>14. ValRowsInv'
    BY <1>1, <1>2, <1>5, <1>6, <1>7, <1>13, RowsKept DEF Evaluating
<1>15. ValInv'
    BY <1>1, <1>2, <1>5, <1>6, <1>7, EvaluatingRecord DEF Evaluating
<1>16. RunsInv'
    BY <1>1, <1>7, RunsTyped DEF RunsInv, Evaluating
<1>17. ASSUME NEW w \in Workers, Active(w) PROVE WorkerStays(w)
    <2>1. worker[w].page \in Known
        BY <1>17, HandIs
    <2> QED BY <1>1, <1>10, <2>1 DEF WorkerStays, StatusKept
<1>18. \A q \in Known : (pages'[q].status = "pending") <=> (pages[q].status = "pending")
    BY <1>10 DEF StatusKept
<1> QED BY <1>1, <1>6, <1>8, <1>9, <1>11, <1>12, <1>14, <1>15, <1>16, <1>17, <1>18, ValMovesKeepIInv

(* The record of validate with its first row gone.                            *)
LEMMA ValQueueTail ==
    ASSUME IInv, val.queue # <<>>, NEW v, v = [val EXCEPT !.pc = "next", !.queue = Tail(val.queue), !.content = None]
    PROVE  v \in ValRecord /\ v.queue = Tail(val.queue) /\ v.pc = "next"
<1>1. val.queue \in Seq(ValRow) /\ val \in ValRecord
    BY RunsTyped DEF ValRecord
<1>2. Tail(val.queue) \in Seq(ValRow)
    BY <1>1, HeadTailProperties
<1> DEFINE t == Tail(val.queue)
<1> HIDE DEF t
<1>3. v = [val EXCEPT !.pc = "next", !.queue = t, !.content = None] /\ t \in Seq(ValRow)
    BY <1>2 DEF t
<1>4. v \in ValRecord /\ v.queue = t /\ v.pc = "next"
    BY <1>1, <1>3 DEF ValRecord
<1> QED BY <1>4 DEF t

(* Writing the score anew keeps the invariant, and is the last step of its    *)
(* row.                                                                       *)
LEMMA RescoreKeepsIInv == ASSUME IInv, Rescore PROVE IInv'
<1>1. /\ val.pc = "score"
      /\ UNCHANGED <<pages, verdict, labelled, file, runs, version, fetch, worker, cls, asked, kills, resets>>
    BY DEF Rescore
<1>2. PICK p \in Known, c \in Contents, d \in ValRow :
              /\ d = Row /\ p = d.page /\ p \in Urls /\ c = val.content /\ file[p] = c /\ val.queue # <<>>
              /\ d.label \in PageLabels /\ DataAt(p)
              /\ pages[p].status = StatusOf[version][c] /\ pages[p].status \notin Unfetched
              /\ verdict[p] # None => verdict[p].status = pages[p].status
    BY <1>1, EvaluatedIs
<1>3. PICK l \in PageLabels, b \in PageLabels : l = LabelOf[c] /\ b = d.label
    BY <1>2, LabelTyped
<1>4. RecordScore(p, l, b)
    BY <1>2, <1>3 DEF Rescore
<1>5. /\ scored' \in [Urls -> ScoreRow \cup {None}] /\ scored'[p].label = l
      /\ \A q \in Urls : q # p => scored'[q] = scored[q]
    BY <1>2, <1>4, RunsTyped, ScoreWrites
<1>6. PICK v : v = [val EXCEPT !.pc = "next", !.queue = Tail(val.queue), !.content = None] /\ val' = v
    BY DEF Rescore
<1>7. v \in ValRecord /\ v.queue = Tail(val.queue) /\ v.pc = "next"
    BY <1>2, <1>6, ValQueueTail
<1>8. ValMove(v)
    BY <1>1, <1>6, <1>7 DEF ValMove
<1>9. TablesOK' /\ Known' = Known /\ StatusKept /\ BlockedSiteIsLeftAlone'
    BY <1>1, <1>5, RunsTyped, PagesSame DEF TypeOK, TablesOK, Known
<1>10. DataInv'
    <2>1. \A q \in Urls : q # p => SameRows(q)
        BY <1>1, <1>5, <1>9 DEF SameRows
    <2>2. DataAt(p)'
        BY <1>1, <1>2, <1>3, <1>5, <1>9 DEF DataAt, UnfetchedAt, FetchedAt, ScoreAt, LabelAt, VerdictAt
    <2> QED BY <2>1, <2>2, RunsTyped, DataElsewhere
<1>11. \A q \in Known : q # p => RowStays(q)
    BY <1>1, <1>5, KnownAre, RunsTyped DEF RowStays
<1>12. ValRowsInv' /\ ValInv'
    BY <1>1, <1>2, <1>6, <1>7, <1>9, <1>11, RowsTail
<1>13. RunsInv'
    BY <1>1, <1>6, <1>7, RunsTyped DEF RunsInv, Evaluating
<1>14. \A w \in Workers : WorkerStays(w)
    BY <1>1 DEF WorkerStays
<1>15. \A q \in Known : (pages'[q].status = "pending") <=> (pages[q].status = "pending")
    BY <1>9 DEF StatusKept
<1> QED BY <1>1, <1>8, <1>9, <1>10, <1>12, <1>13, <1>14, <1>15, ValMovesKeepIInv

(* The process is at rest: it has no row in hand, and it may have deleted some  *)
(* evaluations.                                                                *)
LEMMA ValRestsKeepIInv ==
    ASSUME IInv, NEW v, ValMove(v), v.queue = <<>>, v.pc \in {"idle", "clear"},
           UNCHANGED <<pages, asked>>,
           verdict' \in [Urls -> VerdictRow \cup {None}], scored' \in [Urls -> ScoreRow \cup {None}],
           \A p \in Urls : verdict'[p] \in {verdict[p], None} /\ scored'[p] \in {scored[p], None},
           runs' \in [Stages -> [begun : Nat, finished : Nat]],
           \A s \in Stages : runs'[s].finished <= runs'[s].begun,
           runs'["fetch"] = runs["fetch"], runs'["classify_url"] = runs["classify_url"],
           {kills', resets'} \subseteq Nat
    PROVE  IInv'
<1>1. val' = v /\ UNCHANGED <<fetch, worker, cls, version, file, labelled>>
    BY DEF ValMove
<1>2. Known' = Known /\ StatusKept /\ BlockedSiteIsLeftAlone'
    BY PagesSame
<1>3. TablesOK'
    BY <1>1, <1>2, RunsTyped DEF TypeOK, TablesOK
<1>4. DataInv'
    <2> SUFFICES ASSUME NEW p \in Urls PROVE DataAt(p)'
        BY DEF DataInv
    <2>1. DataAt(p) /\ verdict'[p] \in {verdict[p], None} /\ scored'[p] \in {scored[p], None}
        BY RunsTyped DEF DataInv
    <2> QED BY <1>1, <1>2, <2>1 DEF DataAt, UnfetchedAt, FetchedAt, ScoreAt, LabelAt, VerdictAt
<1>5. ValRowsInv'
    <2>1. DOMAIN v.queue = {}
        BY EmptySeq, LenProperties
    <2> QED BY <1>1, <2>1 DEF ValRowsInv
<1>6. ValInv'
    BY <1>1 DEF ValInv, Evaluating
<1>7. RunsInv'
    BY <1>1, RunsTyped DEF RunsInv, Evaluating
<1>8. ASSUME NEW w \in Workers, Active(w) PROVE WorkerStays(w)
    <2>1. worker[w].page \in Urls
        BY <1>8, HandIs
    <2> QED BY <1>1, <2>1 DEF WorkerStays
<1>9. \A q \in Known : (pages'[q].status = "pending") <=> (pages[q].status = "pending")
    OBVIOUS
<1> QED BY <1>2, <1>3, <1>4, <1>5, <1>6, <1>7, <1>8, <1>9, ValMovesKeepIInv

(* The end of validate, a kill, and a reset of its evaluations, which deletes *)
(* verdicts first and scores after, keep the invariant.                       *)
LEMMA ResetKeepsIInv ==
    ASSUME IInv, FinishValidate \/ KillValidate \/ ClearScores \/ \E site \in AnySite : StartReset(site)
    PROVE  IInv'
<1>1. NoVal \in ValRecord /\ NoVal.queue = <<>> /\ NoVal.pc = "idle"
    BY IdleTyped DEF NoVal
<1>2. CASE FinishValidate
    <2>1. /\ val' = NoVal /\ FinishRun("validate_html") /\ val.pc = "next"
          /\ UNCHANGED <<tables, file, version, fetch, worker, cls, asked, kills, resets>>
        BY <1>2 DEF FinishValidate
    <2>2. "validate_html" \in Stages /\ runs["validate_html"].finished < runs["validate_html"].begun
        BY <2>1, RunsTyped DEF RunsInv
    <2>3. /\ runs' \in [Stages -> [begun : Nat, finished : Nat]]
          /\ \A s \in Stages : runs'[s].finished <= runs'[s].begun
          /\ runs'["fetch"] = runs["fetch"] /\ runs'["classify_url"] = runs["classify_url"]
        BY <2>1, <2>2, RunFinishes, RunsTyped
    <2>4. ValMove(NoVal)
        BY <1>1, <2>1 DEF ValMove, tables
    <2>5. verdict' \in [Urls -> VerdictRow \cup {None}] /\ scored' \in [Urls -> ScoreRow \cup {None}]
        BY <2>1, RunsTyped DEF tables, TypeOK, TablesOK
    <2> QED BY <1>1, <2>1, <2>3, <2>4, <2>5, RunsTyped, ValRestsKeepIInv DEF tables
<1>3. CASE KillValidate
    <2>1. /\ val' = NoVal /\ kills' \in Nat
          /\ UNCHANGED <<tables, file, runs, version, fetch, worker, cls, asked, resets>>
        BY <1>3, RunsTyped DEF KillValidate
    <2>2. ValMove(NoVal)
        BY <1>1, <2>1 DEF ValMove, tables
    <2>3. verdict' \in [Urls -> VerdictRow \cup {None}] /\ scored' \in [Urls -> ScoreRow \cup {None}]
        BY <2>1, RunsTyped DEF tables, TypeOK, TablesOK
    <2> QED BY <1>1, <2>1, <2>2, <2>3, RunsTyped, ValRestsKeepIInv DEF tables
<1>4. CASE ClearScores
    <2>1. /\ val' = NoVal
          /\ scored' = [p \in Urls |-> IF val.site \in {None, SiteOf[p]} THEN None ELSE scored[p]]
          /\ UNCHANGED <<pages, verdict, labelled, file, runs, version, fetch, worker, cls, asked, kills, resets>>
        BY <1>4 DEF ClearScores
    <2>2. ValMove(NoVal)
        BY <1>1, <2>1 DEF ValMove
    <2>3. verdict' \in [Urls -> VerdictRow \cup {None}] /\ scored' \in [Urls -> ScoreRow \cup {None}]
        BY <2>1, RunsTyped DEF TypeOK, TablesOK
    <2>4. \A p \in Urls : verdict'[p] \in {verdict[p], None} /\ scored'[p] \in {scored[p], None}
        BY <2>1
    <2> QED BY <1>1, <2>1, <2>2, <2>3, <2>4, RunsTyped, ValRestsKeepIInv
<1>5. CASE \E site \in AnySite : StartReset(site)
    <2>1. PICK site \in AnySite : StartReset(site)
        BY <1>5
    <2> DEFINE v == [NoVal EXCEPT !.pc = "clear", !.site = site]
    <2>2. /\ val' = v /\ resets' = resets + 1
          /\ verdict' = [p \in Urls |-> IF site \in {None, SiteOf[p]} THEN None ELSE verdict[p]]
          /\ UNCHANGED <<pages, scored, labelled, file, runs, version, fetch, worker, cls, asked, kills>>
        BY <2>1 DEF StartReset
    <2>7. resets' \in Nat
        BY <2>2, RunsTyped
    <2>3. v \in ValRecord /\ v.queue = <<>> /\ v.pc = "clear"
        BY <1>1 DEF NoVal, ValRecord
    <2> HIDE DEF v
    <2>4. ValMove(v)
        BY <2>2, <2>3 DEF ValMove
    <2>5. verdict' \in [Urls -> VerdictRow \cup {None}] /\ scored' \in [Urls -> ScoreRow \cup {None}]
        BY <2>2, RunsTyped DEF TypeOK, TablesOK
    <2>6. \A p \in Urls : verdict'[p] \in {verdict[p], None} /\ scored'[p] \in {scored[p], None}
        BY <2>2
    <2> QED BY <2>2, <2>3, <2>4, <2>5, <2>6, <2>7, RunsTyped, ValRestsKeepIInv
<1> QED BY <1>2, <1>3, <1>4, <1>5

(* The rows of a validate that starts have their file, and lack an evaluation. *)
LEMMA StartValidateKeepsIInv ==
    ASSUME IInv, NEW site \in AnySite, StartValidate(site) PROVE IInv'
<1> DEFINE S == ToValidate(site)
           queue == [i \in DOMAIN BySite(S) |->
                        [page |-> BySite(S)[i], status |-> pages[BySite(S)[i]].status,
                         label |-> pages[BySite(S)[i]].label]]
           v == [NoVal EXCEPT !.pc = "next", !.queue = queue]
<1>1. /\ val.pc = "idle" /\ val' = v /\ StartRun("validate_html")
      /\ UNCHANGED <<tables, file, version, fetch, worker, cls, asked, kills, resets>>
    BY DEF StartValidate
<1>2. S \subseteq Known /\ S \subseteq Urls
    BY KnownAre, RunsTyped DEF ToValidate
<1>3. ASSUME NEW p \in S
      PROVE  /\ p \in Known /\ p \in Urls /\ pages[p].status \notin Unfetched
             /\ pages[p].status \in Statuses /\ pages[p].label \in PageLabels
             /\ verdict[p] = None \/ scored[p] = None
    <2>1. p \in Known /\ p \in Urls /\ pages[p].saved /\ (verdict[p] = None \/ scored[p] = None)
        BY <1>2 DEF ToValidate
    <2>2. UnfetchedAt(p) /\ pages[p] \in PageRecord
        BY <2>1, KnownAre, RunsTyped DEF DataInv, DataAt
    <2> QED BY <2>1, <2>2 DEF UnfetchedAt, PageRecord
<1>4. /\ BySite(S) \in Seq(S) /\ \A i \in DOMAIN BySite(S) : BySite(S)[i] \in S
      /\ \A i, k \in DOMAIN BySite(S) : i # k => BySite(S)[i] # BySite(S)[k]
    <2> HIDE DEF S
    <2>1. BySite(S) \in Seq(S)
        BY <1>2, BySiteLists
    <2>2. \A i \in DOMAIN BySite(S) : BySite(S)[i] \in S
        BY <2>1, ElementOfSeq, LenProperties
    <2> QED BY <1>2, <2>1, <2>2, BySiteLists
<1> HIDE DEF S
<1>5. /\ queue \in Seq(ValRow) /\ DOMAIN queue = DOMAIN BySite(S)
      /\ \A i \in DOMAIN queue : queue[i].page = BySite(S)[i] /\ queue[i].status = pages[BySite(S)[i]].status
    <2>1. DOMAIN BySite(S) = 1 .. Len(BySite(S)) /\ Len(BySite(S)) \in Nat
        BY <1>4, LenProperties
    <2>2. \A i \in DOMAIN BySite(S) :
             [page |-> BySite(S)[i], status |-> pages[BySite(S)[i]].status,
              label |-> pages[BySite(S)[i]].label] \in ValRow
        BY <1>3, <1>4 DEF ValRow
    <2>3. queue \in [1 .. Len(BySite(S)) -> ValRow]
        BY <2>1, <2>2
    <2> QED BY <2>1, <2>3, SeqDef
<1> HIDE DEF queue
<1>6. v \in ValRecord /\ v.pc = "next" /\ v.queue = queue
    BY <1>5, IdleTyped DEF ValRecord, NoVal
<1> HIDE DEF v
<1>7. ValMove(v)
    BY <1>1, <1>6 DEF ValMove, tables
<1>8. /\ runs' \in [Stages -> [begun : Nat, finished : Nat]]
      /\ \A s \in Stages : runs'[s].finished <= runs'[s].begun
      /\ runs'["validate_html"].finished < runs'["validate_html"].begun
      /\ runs'["fetch"] = runs["fetch"] /\ runs'["classify_url"] = runs["classify_url"]
    BY <1>1, RunStarts, RunsTyped
<1>9. RunsInv'
    BY <1>1, <1>8, RunsTyped DEF RunsInv
<1>10. Known' = Known /\ StatusKept /\ BlockedSiteIsLeftAlone' /\ DataInv'
    BY <1>1, RunsTyped, PagesSame, DataFrame DEF tables
<1>11. TablesOK'
    BY <1>1, <1>8, <1>10, RunsTyped DEF TypeOK, TablesOK, tables
<1>12. ValRowsInv'
    <2>1. ASSUME NEW i \in DOMAIN queue PROVE RowAt(i)'
        <3>1. PICK p \in S : p = queue[i].page /\ queue[i].status = pages[p].status
            BY <1>4, <1>5
        <3>2. \A k \in DOMAIN queue : k # i => queue[k].page # p
            BY <1>4, <1>5, <3>1
        <3> QED BY <1>1, <1>3, <1>6, <1>10, <3>1, <3>2 DEF RowAt, tables
    <2> QED BY <1>1, <1>6, <2>1 DEF ValRowsInv
<1>13. ValInv'
    BY <1>1, <1>6 DEF ValInv, Evaluating
<1>14. \A w \in Workers : WorkerStays(w)
    BY <1>1 DEF WorkerStays, tables
<1>15. \A q \in Known : (pages'[q].status = "pending") <=> (pages[q].status = "pending")
    BY <1>10 DEF StatusKept
<1> QED BY <1>1, <1>7, <1>9, <1>10, <1>11, <1>12, <1>13, <1>14, <1>15, ValMovesKeepIInv

-------------------------------------------------------------------------------
(* The other processes: they leave statuses, evaluations and files alone. *)
LEMMA OthersKeepIInv ==
    ASSUME IInv, UNCHANGED <<verdict, scored, file, version, fetch, worker, val, asked>>,
           TablesOK', StatusKept, DataInv', RunsInv', cls' \in ClsRecord, cls'.calls \subseteq Known'
    PROVE  IInv'
<1>1. QueueInv'
    BY RunsTyped, QueueFrame DEF StatusKept
<1>2. WorkerInv'
    <2> SUFFICES ASSUME NEW w \in Workers, Active(w)' PROVE WorkerAt(w)'
        BY DEF WorkerInv
    <2>1. WorkerAt(w) /\ Active(w)
        BY RunsTyped DEF WorkerInv, Active
    <2>2. WorkerStays(w)
        BY <2>1 DEF WorkerStays, StatusKept, WorkerAt
    <2> QED BY <2>2, RunsTyped, WorkerFrame DEF StatusKept
<1>3. ValRowsInv' /\ ValInv'
    <2>1. \A q \in Known : RowStays(q)
        BY DEF RowStays, StatusKept
    <2> QED BY <2>1, RunsTyped, ValFrame DEF StatusKept
<1>4. FatalInv'
    BY RunsTyped DEF FatalInv, FatalIsReported
<1>5. AskedInv'
    <2>1. Asking' = Asking
        BY RunsTyped DEF Asking, StatusKept, TypeOK, LocalsOK
    <2>2. Checkers' = Checkers /\ Held' = Held
        BY DEF Checkers, Held, Holders
    <2> QED BY <2>1, <2>2, RunsTyped DEF AskedInv
<1>6. TypeOK'
    BY RunsTyped DEF TypeOK, LocalsOK, StatusKept
<1>7. BlockedSiteIsLeftAlone'
    BY RunsTyped, BlockedStatusKept DEF IInv
<1> QED BY <1>1, <1>2, <1>3, <1>4, <1>5, <1>6, <1>7 DEF IInv, PlaceInv

(* The record of classify is typed, and it has asked about known pages.       *)
LEMMA ClsTyped == IInv => cls \in ClsRecord /\ cls.calls \subseteq Known
BY RunsTyped DEF TypeOK, LocalsOK

(* A step of classify that writes no row. *)
LEMMA ClsMovesKeepIInv ==
    ASSUME IInv, NEW c \in ClsRecord, cls' = c, c.calls \subseteq Known,
           UNCHANGED <<tables, file, version, fetch, worker, val, asked, resets>>, kills' \in Nat,
           runs' \in [Stages -> [begun : Nat, finished : Nat]],
           \A s \in Stages : runs'[s].finished <= runs'[s].begun,
           runs'["fetch"] = runs["fetch"], runs'["validate_html"] = runs["validate_html"],
           c.pc # "idle" => runs'["classify_url"].finished < runs'["classify_url"].begun
    PROVE  IInv'
<1>1. DataInv' /\ StatusKept /\ Known' = Known
    BY RunsTyped, DataFrame DEF StatusKept, tables, Known
<1>2. TablesOK'
    BY <1>1, RunsTyped DEF TypeOK, TablesOK, tables
<1>3. RunsInv'
    BY RunsTyped DEF RunsInv
<1> QED BY <1>1, <1>2, <1>3, OthersKeepIInv DEF tables

(* The steps of classify that write no page keep the invariant.               *)
LEMMA ClassifyKeepsIInv ==
    ASSUME IInv, StartClassify \/ NextBatch \/ EndBatch \/ FinishClassify \/ KillClassify \/ \E p \in cls.calls : CallFails(p)
    PROVE  IInv'
<1>1. NoCls \in ClsRecord /\ NoCls.pc = "idle" /\ NoCls.calls = {}
    BY IdleTyped DEF NoCls
<1>2. cls \in ClsRecord /\ cls.calls \subseteq Known /\ Known \subseteq Urls
    BY ClsTyped, KnownAre, RunsTyped
<1>3. cls.pc # "idle" => runs["classify_url"].finished < runs["classify_url"].begun
    BY RunsTyped DEF RunsInv
<1>4. CASE StartClassify
    <2> DEFINE c == [NoCls EXCEPT !.pc = "batch"]
    <2>1. /\ cls' = c /\ StartRun("classify_url")
          /\ UNCHANGED <<tables, file, version, fetch, worker, val, asked, kills, resets>>
        BY <1>4 DEF StartClassify
    <2>2. c \in ClsRecord /\ c.calls \subseteq Known
        BY <1>1 DEF NoCls, ClsRecord
    <2>3. /\ runs' \in [Stages -> [begun : Nat, finished : Nat]]
          /\ \A s \in Stages : runs'[s].finished <= runs'[s].begun
          /\ runs'["classify_url"].finished < runs'["classify_url"].begun
          /\ runs'["fetch"] = runs["fetch"] /\ runs'["validate_html"] = runs["validate_html"]
        BY <2>1, RunStarts, RunsTyped
    <2> HIDE DEF c
    <2> QED BY <2>1, <2>2, <2>3, RunsTyped, ClsMovesKeepIInv
<1>5. CASE NextBatch
    <2> DEFINE c == [pc |-> "calls", calls |-> FirstOf(Unclassified, BatchSize), ok |-> FALSE]
    <2>1. /\ cls' = c /\ cls.pc = "batch"
          /\ UNCHANGED <<tables, file, runs, version, fetch, worker, val, asked, kills, resets>>
        BY <1>5 DEF NextBatch
    <2>2. FirstOf(Unclassified, BatchSize) \subseteq Known
        BY DEF FirstOf, Unclassified
    <2>3. c \in ClsRecord /\ c.calls \subseteq Known
        BY <1>2, <2>2 DEF ClsRecord
    <2> HIDE DEF c
    <2> QED BY <1>3, <2>1, <2>3, RunsTyped, ClsMovesKeepIInv
<1>6. CASE EndBatch
    <2> DEFINE pc == IF cls.ok THEN "batch" ELSE "end"
               c == [cls EXCEPT !.pc = pc]
    <2>1. /\ cls' = c /\ cls.pc = "calls"
          /\ UNCHANGED <<tables, file, runs, version, fetch, worker, val, asked, kills, resets>>
        BY <1>6 DEF EndBatch
    <2>2. pc \in {"batch", "end"}
        OBVIOUS
    <2> HIDE DEF pc
    <2>3. c \in ClsRecord /\ c.calls = cls.calls
        BY <1>2, <2>2 DEF ClsRecord
    <2> HIDE DEF c
    <2> QED BY <1>2, <1>3, <2>1, <2>3, RunsTyped, ClsMovesKeepIInv
<1>7. CASE FinishClassify
    <2>1. /\ cls' = NoCls /\ cls.pc # "idle" /\ FinishRun("classify_url")
          /\ UNCHANGED <<tables, file, version, fetch, worker, val, asked, kills, resets>>
        BY <1>7 DEF FinishClassify
    <2>2. /\ runs' \in [Stages -> [begun : Nat, finished : Nat]]
          /\ \A s \in Stages : runs'[s].finished <= runs'[s].begun
          /\ runs'["fetch"] = runs["fetch"] /\ runs'["validate_html"] = runs["validate_html"]
        BY <1>3, <2>1, RunFinishes, RunsTyped
    <2> QED BY <1>1, <2>1, <2>2, RunsTyped, ClsMovesKeepIInv
<1>8. CASE KillClassify
    <2>1. /\ cls' = NoCls /\ kills' \in Nat
          /\ UNCHANGED <<tables, file, runs, version, fetch, worker, val, asked, resets>>
        BY <1>8, RunsTyped DEF KillClassify
    <2> QED BY <1>1, <2>1, RunsTyped, ClsMovesKeepIInv
<1>9. CASE \E p \in cls.calls : CallFails(p)
    <2>1. PICK p \in cls.calls : CallFails(p)
        BY <1>9
    <2> DEFINE rest == cls.calls \ {p}
               c == [cls EXCEPT !.calls = rest]
    <2>2. /\ cls' = c
          /\ UNCHANGED <<tables, file, runs, version, fetch, worker, val, asked, kills, resets>>
        BY <2>1 DEF CallFails
    <2>3. rest \subseteq Known /\ rest \subseteq Urls
        BY <1>2
    <2> HIDE DEF rest
    <2>4. c \in ClsRecord /\ c.calls = rest /\ c.pc = cls.pc
        BY <1>2, <2>3 DEF ClsRecord
    <2> HIDE DEF c
    <2> QED BY <1>2, <1>3, <2>2, <2>3, <2>4, RunsTyped, ClsMovesKeepIInv
<1> QED BY <1>4, <1>5, <1>6, <1>7, <1>8, <1>9

(* An answer: the label and its row are written together. *)
LEMMA AnswersKeepsIInv == ASSUME IInv, NEW p \in cls.calls, CallAnswers(p) PROVE IInv'
<1>1. UNCHANGED <<verdict, scored, file, runs, version, fetch, worker, val, asked, kills, resets>>
    BY DEF CallAnswers
<1>2. cls \in ClsRecord /\ cls.calls \subseteq Known /\ Known \subseteq Urls /\ p \in Known /\ p \in Urls
    BY ClsTyped, KnownAre, RunsTyped
<1>3. PICK l \in UrlLabels : /\ labelled' = [labelled EXCEPT ![p] = [label |-> l, before |-> None]]
                             /\ SetContentType(p, l)
    BY DEF CallAnswers
<1>4. l \in PageLabels
    BY DEF PageLabels
<1>5. PICK d \in PageRecord : /\ PageBecomes(p, d) /\ d.label = l
                              /\ d.status = pages[p].status /\ d.saved = pages[p].saved
                              /\ d.attempts = pages[p].attempts
    BY <1>2, <1>3, <1>4, RunsTyped, SetContentTypeWrites
<1>6. Known' = Known /\ pages'[p] = d /\ \A q \in Known : q # p => pages'[q] = pages[q]
    BY <1>5 DEF PageBecomes
<1> DEFINE row == [label |-> l, before |-> None]
<1>7. row \in UrlRow /\ row # None /\ row.label = l
    BY ConstantsOK DEF UrlRow
<1> HIDE DEF row
<1>8. /\ labelled' \in [Urls -> UrlRow \cup {None}] /\ labelled'[p] = row
      /\ \A q \in Urls : q # p => labelled'[q] = labelled[q]
    BY <1>2, <1>3, <1>7, RunsTyped DEF TypeOK, TablesOK, row
<1>9. d.status = "pending" => d.attempts < MaxAttempts
    BY <1>2, <1>5, RunsTyped DEF TypeOK, TablesOK
<1>10. TablesOK'
    BY <1>1, <1>2, <1>5, <1>8, <1>9, TablesWritten
<1>11. StatusKept
    BY <1>5, <1>6 DEF StatusKept
<1>12. DataInv'
    <2>1. \A q \in Urls : q # p => SameRows(q)
        BY <1>1, <1>6, <1>8 DEF SameRows
    <2>2. DataAt(p)
        BY <1>2, RunsTyped DEF DataInv
    <2>3. DataAt(p)'
        BY <1>1, <1>2, <1>5, <1>6, <1>7, <1>8, <2>2
           DEF DataAt, UnfetchedAt, FetchedAt, ScoreAt, LabelAt, VerdictAt
    <2> QED BY <2>1, <2>3, RunsTyped, DataElsewhere
<1> DEFINE rest == cls.calls \ {p}
           c == [cls EXCEPT !.calls = rest, !.ok = TRUE]
<1>13. cls' = c
    BY DEF CallAnswers
<1>14. rest \subseteq Known /\ rest \subseteq Urls
    BY <1>2
<1> HIDE DEF rest
<1>15. c \in ClsRecord /\ c.calls = rest /\ c.pc = cls.pc
    BY <1>2, <1>14 DEF ClsRecord
<1> HIDE DEF c
<1>16. RunsInv'
    BY <1>1, <1>13, <1>15, RunsTyped DEF RunsInv
<1> QED BY <1>1, <1>6, <1>10, <1>11, <1>12, <1>13, <1>14, <1>15, <1>16, OthersKeepIInv

(* A reset of classify takes the rows and the labels together. *)
LEMMA ResetClassifyKeepsIInv == ASSUME IInv, NEW site, ResetClassify(site) PROVE IInv'
<1> DEFINE gone == {p \in Known : labelled[p] # None /\ site \in {None, SiteOf[p]}}
<1>1. /\ labelled' = [p \in Urls |-> IF p \in gone THEN None ELSE labelled[p]]
      /\ pages' = [p \in Known |-> IF p \in gone THEN [pages[p] EXCEPT !.label = None] ELSE pages[p]]
      /\ resets' = resets + 1
      /\ UNCHANGED <<verdict, scored, file, runs, version, fetch, worker, val, cls, asked, kills>>
    BY DEF ResetClassify
<1> HIDE DEF gone
<1>2. Known = 1 .. Len(pages) /\ Known \subseteq Urls /\ \A p \in Known : pages[p] \in PageRecord
    BY KnownAre, RunsTyped
<1>3. ASSUME NEW p \in Known
      PROVE  /\ pages'[p] \in PageRecord /\ pages'[p].status = pages[p].status
             /\ pages'[p].saved = pages[p].saved /\ pages'[p].attempts = pages[p].attempts
             /\ pages'[p].label = None \/ (pages'[p].label = pages[p].label /\ labelled'[p] = labelled[p])
    <2>1. CASE p \in gone
        <3> DEFINE r == [pages[p] EXCEPT !.label = None]
        <3>1. /\ r \in PageRecord /\ r.status = pages[p].status /\ r.saved = pages[p].saved
              /\ r.attempts = pages[p].attempts /\ r.label = None
            BY <1>2 DEF PageRecord, PageLabels
        <3>2. pages'[p] = r
            BY <1>1, <2>1
        <3> HIDE DEF r
        <3> QED BY <3>1, <3>2
    <2>2. CASE p \notin gone
        <3>1. pages'[p] = pages[p] /\ labelled'[p] = labelled[p]
            BY <1>1, <1>2, <2>2
        <3> QED BY <1>2, <3>1
    <2> QED BY <2>1, <2>2
<1>4. pages' \in Seq(PageRecord) /\ Len(pages') = Len(pages) /\ Known' = Known
    <2>1. Len(pages) \in Nat
        BY RunsTyped, LenProperties DEF TypeOK, TablesOK
    <2>2. DOMAIN pages' = 1 .. Len(pages)
        BY <1>1, <1>2
    <2>3. pages' \in [1 .. Len(pages) -> PageRecord]
        BY <1>1, <1>2, <1>3
    <2>4. pages' \in Seq(PageRecord)
        BY <2>1, <2>3, SeqDef
    <2>5. Len(pages') = Len(pages)
        BY <2>1, <2>2, <2>4, LenProperties
    <2> QED BY <1>2, <2>2, <2>4, <2>5 DEF Known
<1>5. labelled' \in [Urls -> UrlRow \cup {None}]
    BY <1>1, RunsTyped DEF TypeOK, TablesOK
<1>6. StatusKept
    BY <1>3, <1>4 DEF StatusKept
<1>7. TablesOK'
    <2>1. \A p \in Known' : pages'[p].status = "pending" => pages'[p].attempts < MaxAttempts
        BY <1>3, <1>4, RunsTyped DEF TypeOK, TablesOK
    <2>2. resets' \in Nat
        BY <1>1, RunsTyped
    <2> QED BY <1>1, <1>4, <1>5, <2>1, <2>2, RunsTyped DEF TypeOK, TablesOK
<1>8. DataInv'
    <2> SUFFICES ASSUME NEW p \in Urls PROVE DataAt(p)'
        BY DEF DataInv
    <2>1. DataAt(p)
        BY RunsTyped DEF DataInv
    <2> QED BY <1>1, <1>3, <1>4, <2>1 DEF DataAt, UnfetchedAt, FetchedAt, ScoreAt, LabelAt, VerdictAt
<1>9. RunsInv'
    BY <1>1, RunsTyped DEF RunsInv
<1>10. cls' \in ClsRecord /\ cls'.calls \subseteq Known'
    BY <1>1, <1>4, ClsTyped
<1> QED BY <1>1, <1>6, <1>7, <1>8, <1>9, <1>10, OthersKeepIInv

(* Pages that are discovered are pending. *)
LEMMA DiscoverKeepsIInv == ASSUME IInv, Discover PROVE IInv'
<1>1. UNCHANGED <<verdict, scored, labelled, file, runs, version, fetch, worker, val, cls, asked, kills, resets>>
    BY DEF Discover
<1>2. pages \in Seq(PageRecord) /\ Len(pages) \in Nat /\ Known = 1 .. Len(pages)
    BY KnownAre, RunsTyped, LenProperties DEF TypeOK, TablesOK
<1>3. PICK n \in SitemapEnds : n > Len(pages) /\ pages' = pages \o [i \in 1 .. n - Len(pages) |-> NewPage]
    BY DEF Discover
<1>4. n \in Nat /\ n <= NumUrls
    BY <1>3, ConstantsOK
<1> DEFINE more == [i \in 1 .. n - Len(pages) |-> NewPage]
<1>5. NewPage \in PageRecord /\ NewPage.status = "pending" /\ NewPage.attempts = 0 /\ ~ NewPage.saved /\ NewPage.label = None
    BY ConstantsOK DEF NewPage, PageRecord, PageLabels, Statuses
<1>6. n - Len(pages) \in Nat
    BY <1>2, <1>3, <1>4
<1>7. more \in Seq(PageRecord) /\ Len(more) = n - Len(pages)
    <2> DEFINE k == n - Len(pages)
    <2>1. k \in Nat
        BY <1>6
    <2> HIDE DEF k
    <2>2. [i \in 1 .. k |-> NewPage] \in Seq(PageRecord) /\ Len([i \in 1 .. k |-> NewPage]) = k
        <3>1. [i \in 1 .. k |-> NewPage] \in [1 .. k -> PageRecord]
            BY <1>5
        <3>2. [i \in 1 .. k |-> NewPage] \in Seq(PageRecord)
            BY <2>1, <3>1, SeqDef
        <3>3. DOMAIN [i \in 1 .. k |-> NewPage] = 1 .. k
            OBVIOUS
        <3> QED BY <2>1, <3>2, <3>3, LenProperties
    <2> QED BY <2>2 DEF k
<1>8. \A i \in 1 .. Len(more) : more[i] = NewPage
    BY <1>7
<1> HIDE DEF more
<1>9. pages' = pages \o more
    BY <1>3 DEF more
<1>10. /\ pages' \in Seq(PageRecord) /\ Len(pages') = n
       /\ \A p \in 1 .. n : pages'[p] = IF p <= Len(pages) THEN pages[p] ELSE NewPage
    <2>1. /\ pages' \in Seq(PageRecord) /\ Len(pages') = Len(pages) + Len(more)
          /\ \A p \in 1 .. Len(pages) + Len(more) :
                pages'[p] = IF p <= Len(pages) THEN pages[p] ELSE more[p - Len(pages)]
        BY <1>2, <1>7, <1>9, ConcatProperties
    <2>2. Len(pages) + Len(more) = n
        BY <1>2, <1>4, <1>7
    <2>3. \A p \in 1 .. n : ~ (p <= Len(pages)) => p - Len(pages) \in 1 .. Len(more)
        BY <1>2, <1>4, <1>7
    <2> QED BY <1>8, <2>1, <2>2, <2>3
<1>11. Known' = 1 .. n
    BY <1>10, LenProperties DEF Known
<1>12. /\ Known \subseteq Known' /\ \A p \in Known : pages'[p] = pages[p]
       /\ \A p \in Known' : p \notin Known => pages'[p] = NewPage
    BY <1>2, <1>3, <1>4, <1>10, <1>11
<1>13. StatusKept
    BY <1>12 DEF StatusKept
<1>14. TablesOK'
    <2>1. \A p \in Known' : pages'[p].status = "pending" => pages'[p].attempts < MaxAttempts
        BY <1>5, <1>12, ConstantsOK, RunsTyped DEF TypeOK, TablesOK
    <2> QED BY <1>1, <1>4, <1>10, <2>1, RunsTyped DEF TypeOK, TablesOK
<1>15. DataInv'
    <2> SUFFICES ASSUME NEW p \in Urls PROVE DataAt(p)'
        BY DEF DataInv
    <2>1. DataAt(p)
        BY RunsTyped DEF DataInv
    <2>2. CASE p \in Known \/ p \notin Known'
        BY <1>1, <1>12, <2>1, <2>2 DEF DataAt, UnfetchedAt, FetchedAt, ScoreAt, LabelAt, VerdictAt
    <2>3. CASE p \notin Known /\ p \in Known'
        <3>1. verdict'[p] = None /\ scored'[p] = None /\ pages'[p] = NewPage
            BY <1>1, <1>12, <2>1, <2>3 DEF DataAt, UnfetchedAt
        <3> QED BY <1>5, <3>1 DEF DataAt, UnfetchedAt, FetchedAt, ScoreAt, LabelAt, VerdictAt, Unfetched
    <2> QED BY <2>2, <2>3
<1>16. RunsInv'
    BY <1>1, RunsTyped DEF RunsInv
<1>17. cls' \in ClsRecord /\ cls'.calls \subseteq Known'
    BY <1>1, <1>12, ClsTyped
<1> QED BY <1>1, <1>13, <1>14, <1>15, <1>16, <1>17, OthersKeepIInv

(* A deployment while nothing runs: nobody holds a page, or a status. *)
LEMMA DeployKeepsIInv == ASSUME IInv, Deploy PROVE IInv'
<1>1. /\ fetch.pc = "idle" /\ val.pc = "idle" /\ version' \in Versions
      /\ UNCHANGED <<tables, file, runs, fetch, worker, val, cls, asked, kills, resets>>
    BY DEF Deploy
<1>2. DataInv' /\ StatusKept /\ Known' = Known
    BY <1>1, RunsTyped, DataFrame DEF StatusKept, tables, Known
<1>3. fetch.queue = <<>> /\ val.queue = <<>> /\ \A w \in Workers : ~ Active(w) /\ ~ Active(w)'
    BY <1>1, RunsTyped DEF QueueInv, ValRowsInv, Active
<1>4. QueueInv'
    BY <1>1, <1>2, <1>3, RunsTyped DEF QueueInv, tables, Active
<1>5. WorkerInv'
    BY <1>3 DEF WorkerInv
<1>6. ValRowsInv' /\ ValInv'
    <2>1. DOMAIN val'.queue = {}
        BY <1>1, <1>3, EmptySeq, LenProperties
    <2> QED BY <1>1, <1>3, <2>1 DEF ValRowsInv, ValInv, Evaluating
<1>7. FatalInv'
    BY <1>1, RunsTyped DEF FatalInv, FatalIsReported
<1>8. RunsInv'
    BY <1>1, RunsTyped DEF RunsInv
<1>9. AskedInv'
    BY <1>1, RunsTyped DEF AskedInv, Asking, Held, Holders, Checkers, tables
<1>10. TypeOK'
    BY <1>1, <1>2, RunsTyped DEF TypeOK, TablesOK, LocalsOK, tables
<1>11. BlockedSiteIsLeftAlone'
    BY <1>1, <1>2, RunsTyped, BlockedStatusKept DEF IInv
<1> QED BY <1>2, <1>4, <1>5, <1>6, <1>7, <1>8, <1>9, <1>10, <1>11 DEF IInv, PlaceInv

-------------------------------------------------------------------------------
(* The invariant holds at the start, and every step keeps it. *)
LEMMA InitIInv == Init => IInv
<1> SUFFICES ASSUME Init PROVE IInv
    OBVIOUS
<1>1. /\ pages = <<>> /\ file = [u \in Urls |-> None] /\ verdict = [u \in Urls |-> None]
      /\ scored = [u \in Urls |-> None] /\ labelled = [u \in Urls |-> None]
      /\ runs = [s \in Stages |-> [begun |-> 0, finished |-> 0]] /\ version = 1
      /\ fetch = NoFetch /\ worker = [w \in Workers |-> Idle] /\ val = NoVal /\ cls = NoCls
      /\ asked = {} /\ kills = 0 /\ resets = 0
    BY DEF Init
<1>2. /\ Idle \in WorkerRecord /\ NoFetch \in FetchRecord /\ NoVal \in ValRecord /\ NoCls \in ClsRecord
      /\ Idle.pc = "idle" /\ NoFetch.pc = "idle" /\ NoFetch.queue = <<>> /\ NoFetch.fatal = 0
      /\ NoVal.pc = "idle" /\ NoVal.queue = <<>> /\ NoCls.pc = "idle" /\ NoCls.calls = {}
    BY IdleTyped DEF Idle, NoFetch, NoVal, NoCls
<1>3. pages \in Seq(PageRecord) /\ Len(pages) = 0 /\ Known = {}
    <2>1. <<>> \in Seq(PageRecord) /\ Len(<<>>) = 0
        BY EmptySeq
    <2> QED BY <1>1, <2>1, LenProperties DEF Known
<1>4. DOMAIN fetch.queue = {} /\ DOMAIN val.queue = {}
    <2>1. <<>> \in Seq(FetchRow) /\ Len(<<>>) = 0
        BY EmptySeq
    <2>2. DOMAIN <<>> = {}
        BY <2>1, LenProperties
    <2> QED BY <1>1, <1>2, <2>2
<1>5. TypeOK
    <2>1. runs \in [Stages -> [begun : Nat, finished : Nat]] /\ \A s \in Stages : runs[s].finished <= runs[s].begun
        BY <1>1
    <2>2. TablesOK
        BY <1>1, <1>3, <2>1, ConstantsOK DEF TablesOK
    <2>3. LocalsOK
        BY <1>1, <1>2 DEF LocalsOK
    <2> QED BY <2>2, <2>3 DEF TypeOK
<1>6. DataInv
    BY <1>1, <1>3 DEF DataInv, DataAt, UnfetchedAt, FetchedAt, ScoreAt, LabelAt, VerdictAt
<1>7. \A w \in Workers : ~ Active(w) /\ worker[w].pc = "idle"
    BY <1>1, <1>2 DEF Active
<1>8. PlaceInv
    BY <1>1, <1>2, <1>4, <1>7 DEF PlaceInv, QueueInv, WorkerInv, ValRowsInv, ValInv, Evaluating
<1>9. RunsInv /\ FatalInv
    BY <1>1, <1>2 DEF RunsInv, FatalInv, FatalIsReported, Evaluating
<1>10. Cardinality({}) = 0 /\ Cardinality(Workers) \in Nat
    BY FS_EmptySet, FS_CardinalityType, ConstantsOK
<1>11. AskedInv
    <2>1. Asking = {} /\ Checkers = {}
        BY <1>1, <1>7 DEF Asking, Checkers
    <2> QED BY <1>1, <1>10, <2>1 DEF AskedInv
<1>12. BlockedSiteIsLeftAlone
    <2>1. 0 <= BreakerWindow + Cardinality(Workers) - 1
        BY <1>10, ConstantsOK
    <2>2. ASSUME NEW site \in Sites
          PROVE  Cardinality({p \in asked : SiteOf[p] = site}) <= BreakerWindow + Cardinality(Workers) - 1
        <3>1. {p \in asked : SiteOf[p] = site} = {}
            BY <1>1
        <3> QED BY <1>10, <2>1, <3>1
    <2> QED BY <2>2 DEF BlockedSiteIsLeftAlone
<1> QED BY <1>5, <1>6, <1>8, <1>9, <1>11, <1>12 DEF IInv

(* A step that changes nothing keeps the invariant.                           *)
LEMMA StutterKeepsIInv == ASSUME IInv, UNCHANGED vars PROVE IInv'
<1>1. UNCHANGED <<tables, file, runs, version, fetch, worker, val, cls, asked, kills, resets>>
    BY DEF vars
<1>2. cls \in ClsRecord /\ cls.calls \subseteq Known
    BY ClsTyped
<1>3. cls.pc # "idle" => runs["classify_url"].finished < runs["classify_url"].begun
    BY RunsTyped DEF RunsInv
<1> QED BY <1>1, <1>2, <1>3, RunsTyped, ClsMovesKeepIInv

(* Every step keeps the invariant.                                            *)
LEMMA NextKeepsIInv == IInv /\ [Next]_vars => IInv'
<1> SUFFICES ASSUME IInv, [Next]_vars PROVE IInv'
    OBVIOUS
<1>1. CASE Main
    BY <1>1, LoopKeepsIInv, EndKeepsIInv DEF Main
<1>2. CASE Revalidate
    BY <1>2, NextRowKeepsIInv, RestatusKeepsIInv, ReverdictKeepsIInv, RelabelKeepsIInv, RescoreKeepsIInv,
       ResetKeepsIInv DEF Revalidate
<1>3. CASE Classify
    BY <1>3, ClassifyKeepsIInv, AnswersKeepsIInv DEF Classify
<1>4. CASE Environment
    <2>1. CASE \E filter \in Filters, site, force \in AnySite : StartFetch(filter, site, force)
        BY <2>1, StartKeepsIInv
    <2>2. CASE \E site \in AnySite : StartValidate(site) \/ StartReset(site) \/ ResetClassify(site)
        BY <2>2, StartValidateKeepsIInv, ResetKeepsIInv, ResetClassifyKeepsIInv
    <2>3. CASE Discover \/ Deploy \/ CtrlC \/ KillFetch \/ KillValidate \/ KillClassify \/ StartClassify
        BY <2>3, DiscoverKeepsIInv, DeployKeepsIInv, LoopKeepsIInv, EndKeepsIInv, ResetKeepsIInv,
           ClassifyKeepsIInv
    <2> QED BY <1>4, <2>1, <2>2, <2>3 DEF Environment, AnySite
<1>5. CASE \E w \in Workers : ProcessOne(w)
    BY <1>5, ProcessKeepsIInv
<1>6. CASE UNCHANGED vars
    BY <1>6, StutterKeepsIInv
<1> QED BY <1>1, <1>2, <1>3, <1>4, <1>5, <1>6 DEF Next

(* Every reachable state of the scraper satisfies the invariant. *)
THEOREM Invariant == Spec => []IInv
<1> QED BY InitIInv, NextKeepsIInv, PTL DEF Spec

(* The tables and the locals of the processes keep their ranges. *)
THEOREM TypeCorrect == Spec => []TypeOK
<1>1. IInv => TypeOK
    BY DEF IInv
<1> QED BY <1>1, Invariant, PTL

(* What validate passes over has the status its row says, whatever was killed,  *)
(* reset or deployed before.                                                   *)
THEOREM SettledIsRecorded == Spec => []SettledStatusIsRecorded
<1>1. IInv => SettledStatusIsRecorded
    <2> SUFFICES ASSUME IInv, NEW p \in Known, pages[p].saved, verdict[p] # None, scored[p] # None
                 PROVE  pages[p].status = verdict[p].status
        BY DEF SettledStatusIsRecorded
    <2>1. VerdictAt(p)
        BY KnownAre, RunsTyped DEF DataInv, DataAt
    <2> QED BY <2>1 DEF VerdictAt
<1> QED BY <1>1, Invariant, PTL

(* A label has its account: the row of its url, the score of its file, or an    *)
(* evaluation still to come.                                                   *)
THEOREM LabelsExplained == Spec => []LabelIsExplained
<1>1. IInv => LabelIsExplained
    <2> SUFFICES ASSUME IInv, NEW p \in Known, pages[p].label # None
                 PROVE  \/ labelled[p] # None /\ labelled[p].label = pages[p].label
                        \/ scored[p] # None /\ scored[p].label = pages[p].label
                        \/ p \in ToValidate(None)
        BY DEF LabelIsExplained
    <2>1. LabelAt(p) /\ ScoreAt(p)
        BY KnownAre, RunsTyped DEF DataInv, DataAt
    <2> QED BY <2>1 DEF LabelAt, ScoreAt, ToValidate
<1> QED BY <1>1, Invariant, PTL

(* A refused account is reported at the end of the fetch. *)
THEOREM FatalReported == Spec => []FatalIsReported
<1>1. IInv => FatalIsReported
    BY DEF IInv, FatalInv
<1> QED BY <1>1, Invariant, PTL

(* A site with nothing but blocked pages is left alone after a window of them,  *)
(* for any number of workers, any window and any number of pages.              *)
THEOREM BlockedSiteLeftAlone == Spec => []BlockedSiteIsLeftAlone
<1>1. IInv => BlockedSiteIsLeftAlone
    BY DEF IInv
<1> QED BY <1>1, Invariant, PTL
================================================================================
