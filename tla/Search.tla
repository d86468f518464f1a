------------------------------- MODULE Search -------------------------------
(***************************************************************************)
(* One search or facets request (search_listings and list_facets in        *)
(* app/api/routes/listings.py, over list_listings and facet_counts in      *)
(* app/core/db.py; the MCP tools call the same two functions) while        *)
(* listings are written and time passes.                                   *)
(*                                                                         *)
(* Every SELECT of a request is a statement of its own with a snapshot of  *)
(* its own, and `stale` is decided twice: by the database's now() when a   *)
(* statement filters on it, and by the process when it shows the row,      *)
(* after the row's trust badge was awaited.                                *)
(*                                                                         *)
(* Pages and cursors are in Pagination; here a page holds every row found. *)
(***************************************************************************)
EXTENDS Integers, FiniteSets, FiniteSetsExt

CONSTANTS
    ListingIds,         \* listing ids
    Shapes,             \* rows, but for the time of their last activity
    Questions,          \* the filters clients ask with
    TaskCategories,     \* TASK_CATEGORIES
    Stablecoins,        \* stablecoin_keys: <<network, asset in lower case>>
    Lower,              \* [assets as written -> assets in lower case]
    WordHits,           \* texts q finds by full-text search
    LetterHits,         \* texts q finds by trigrams
    TrigramsWork,       \* _trigram_available
    StaleAfter,         \* STALE_AFTER_DAYS, in clock ticks
    Any,                \* a filter that was not given
    Absent,             \* an id without a row
    MaxWrites,          \* bound on the writes while one request is under way
    MaxSearchTime       \* bound on the clock

ASSUME SearchAssumption ==
    /\ IsFiniteSet(ListingIds)
    /\ TrigramsWork \in BOOLEAN
    /\ StaleAfter \in Nat
    /\ MaxWrites \in Nat
    /\ MaxSearchTime \in Nat

VARIABLES
    table,      \* the listings table
    time,
    request     \* where the request is, and what it has gathered

searchVars == <<table, time, request>>

Networks == UNION {{po.network : po \in s.payment_options} : s \in Shapes}
ListingTypes == {s.listing_type : s \in Shapes}
Sources == {s.source : s \in Shapes}

(* Listing types are an enumeration, and of sources there are only so many *)
(* (import batches name them).  A filter that was not given is no value of *)
(* its field, and a question has these filters.                            *)
ASSUME QuestionAssumption ==
    /\ IsFiniteSet(ListingTypes) /\ IsFiniteSet(Sources)
    /\ Any \notin BOOLEAN \cup ListingTypes \cup Networks
    /\ \A ask \in Questions :
         ask = [active |-> ask.active, include_test |-> ask.include_test, listing_type |-> ask.listing_type,
                task_categories |-> ask.task_categories, claimed |-> ask.claimed,
                payment_network |-> ask.payment_network, max_price |-> ask.max_price,
                has_template |-> ask.has_template, stale |-> ask.stale, has_q |-> ask.has_q,
                compact |-> ask.compact]
    /\ \A ask \in Questions : ask.has_q \in BOOLEAN /\ ask.compact \in BOOLEAN

IsListed(i) == table[i] # Absent

(* Mutant: is_stale without its first return.                              *)
IsStaleBySilenceAlone(row, now) == now - row.last_activity_at > StaleAfter

(* is_stale, in the process. *)
is_stale(row, now) ==
    row.shape.missing_from_source \/ now - row.last_activity_at > StaleAfter

-----------------------------------------------------------------------------
(* The WHERE clause. *)

stale_expr(row, now) ==
    row.shape.missing_from_source \/ now - row.last_activity_at > StaleAfter

(* One option satisfies the network and the price cap together; only a     *)
(* stablecoin's amount is comparable to the cap.                           *)
Payable(ask, row) ==
    ask.payment_network # Any \/ ask.max_price # Any =>
        \E po \in row.shape.payment_options :
            /\ ask.payment_network \in {Any, po.network}
            /\ ask.max_price # Any =>
                 /\ <<po.network, Lower[po.asset]>> \in Stablecoins
                 /\ po.amount <= ask.max_price

FilterConditions(ask, row, now) ==
    /\ row.shape.active = ask.active
    /\ row.shape.is_test => ask.include_test
    /\ ask.listing_type \in {Any, row.shape.listing_type}
    /\ ask.task_categories = {} \/ ask.task_categories \cap row.shape.task_categories # {}
    /\ ask.claimed \in {Any, row.shape.claimed}
    /\ Payable(ask, row)
    /\ ask.has_template \in {Any, row.shape.has_schema}
    /\ ask.stale \in {Any, stale_expr(row, now)}

(* What q adds to it, in each mode. *)
IsHit(mode, row) ==
    \/ mode = "activity"
    \/ mode = "rank" /\ row.shape.text \in WordHits
    \/ mode = "similarity" /\ TrigramsWork /\ row.shape.text \in LetterHits

Found(ask, mode, now) ==
    {i \in ListingIds : IsListed(i) /\ FilterConditions(ask, table[i], now) /\ IsHit(mode, table[i])}

-----------------------------------------------------------------------------
(* The request.  `disturbed` is history: the table was written, or time    *)
(* passed under a filter on staleness, since it began.                     *)

NoRequest == [pc |-> "idle", page |-> {}, writes |-> 0]

NewRequest(kind, ask) ==
    [pc |-> IF ask.has_q THEN "decide" ELSE "count",
     kind |-> kind, ask |-> ask, mode |-> "activity", began |-> time,
     total |-> 0, page |-> {}, shown |-> {}, disturbed |-> FALSE, writes |-> 0,
     by_task_category |-> [c \in TaskCategories |-> 0],
     by_listing_type |-> [t \in ListingTypes |-> 0],
     by_network |-> [n \in Networks |-> 0],
     by_source |-> [s \in Sources |-> 0]]

Receive(kind, ask) ==
    /\ request.pc = "idle"
    /\ request' = NewRequest(kind, ask)
    /\ UNCHANGED <<table, time>>

(* Mutant: a threshold of one hit too few.                                 *)
SearchModeAlwaysRank(ft_total) == "rank"

(* FULLTEXT_FALLBACK_THRESHOLD is 0; list_listings and facet_counts each   *)
(* compare with it.                                                        *)
SearchMode(ft_total) == IF ft_total > 0 THEN "rank" ELSE "similarity"

FacetMode(ft_total) == IF ft_total > 0 THEN "rank" ELSE "similarity"

(* With a q: how many full-text hits?  A search by rank has its total with *)
(* that; facets count it again; similarity opens a transaction.            *)
Decide ==
    /\ request.pc = "decide"
    /\ LET ft_total == Cardinality(Found(request.ask, "rank", time))
           mode == IF request.kind = "search" THEN SearchMode(ft_total) ELSE FacetMode(ft_total)
       IN request' = [request EXCEPT
              !.mode = mode,
              !.total = ft_total,
              !.pc = CASE mode = "similarity" -> "begin"
                       [] mode = "rank" /\ request.kind = "search" -> "select"
                       [] OTHER -> "count"]
    /\ UNCHANGED <<table, time>>

(* In a transaction now() stays at the time of BEGIN. *)
BeginTransaction ==
    /\ request.pc = "begin"
    /\ request' = [request EXCEPT !.pc = "count", !.began = time]
    /\ UNCHANGED <<table, time>>

Now == IF request.mode = "similarity" THEN request.began ELSE time
Hits == Found(request.ask, request.mode, Now)

Count ==
    /\ request.pc = "count"
    /\ request' = [request EXCEPT !.total = Cardinality(Hits),
                                  !.pc = IF request.kind = "search" THEN "select" ELSE "by_task_category"]
    /\ UNCHANGED <<table, time>>

(* Compact items carry no badge and no stale flag: they are ready at once. *)
Select ==
    /\ request.pc = "select"
    /\ LET page == {[id |-> i, row |-> table[i]] : i \in Hits} IN
       request' = [request EXCEPT !.page = page,
                                  !.pc = IF page = {} \/ request.ask.compact THEN "answered" ELSE "show"]
    /\ UNCHANGED <<table, time>>

(* _to_response of one row, when its badge has come; gather waits for all. *)
Show(entry) ==
    /\ request.pc = "show"
    /\ entry \in request.page /\ \A s \in request.shown : s.id # entry.id
    /\ request' = [request EXCEPT
           !.shown = @ \cup {[id |-> entry.id, row |-> entry.row, stale |-> is_stale(entry.row, time)]},
           !.pc = IF Cardinality(request.shown) + 1 = Cardinality(request.page) THEN "answered" ELSE "show"]
    /\ UNCHANGED <<table, time>>

(* GROUP BY: how many of the listings found have each value. *)
Grouped(values, of) ==
    [v \in values |-> Cardinality({i \in Hits : v \in of[i]})]

ByTaskCategory ==
    /\ request.pc = "by_task_category"
    /\ request' = [request EXCEPT !.pc = "by_listing_type",
                                  !.by_task_category = Grouped(TaskCategories, [i \in Hits |-> table[i].shape.task_categories])]
    /\ UNCHANGED <<table, time>>

ByListingType ==
    /\ request.pc = "by_listing_type"
    /\ request' = [request EXCEPT !.pc = "by_network",
                                  !.by_listing_type = Grouped(ListingTypes, [i \in Hits |-> {table[i].shape.listing_type}])]
    /\ UNCHANGED <<table, time>>

(* Every network a listing is payable on, whatever the price filter asked. *)
NetworkCounts == Grouped(Networks, [i \in Hits |-> {po.network : po \in table[i].shape.payment_options}])

ByNetwork ==
    /\ request.pc = "by_network"
    /\ request' = [request EXCEPT !.pc = "by_source", !.by_network = NetworkCounts]
    /\ UNCHANGED <<table, time>>

BySource ==
    /\ request.pc = "by_source"
    /\ request' = [request EXCEPT !.pc = "answered",
                                  !.by_source = Grouped(Sources, [i \in Hits |-> {table[i].shape.source}])]
    /\ UNCHANGED <<table, time>>

Return ==
    /\ request.pc = "answered"
    /\ request' = NoRequest
    /\ UNCHANGED <<table, time>>

RequestNext ==
    \/ \E kind \in {"search", "facets"}, ask \in Questions : Receive(kind, ask)
    \/ Decide \/ BeginTransaction \/ Count \/ Select
    \/ \E entry \in request.page : Show(entry)
    \/ ByTaskCategory \/ ByListingType \/ ByNetwork \/ BySource \/ Return

-----------------------------------------------------------------------------
(* Everybody else. *)

(* Bounded: MaxWrites while a request is under way. *)
Written ==
    /\ request.pc # "answered" /\ request.writes < MaxWrites
    /\ request' = IF request.pc = "idle" THEN request
                  ELSE [request EXCEPT !.disturbed = TRUE, !.writes = @ + 1]
    /\ UNCHANGED time

(* A post, an import, an edit, a claim, a heartbeat, a deactivation. *)
Write(i, shape) ==
    /\ table' = [table EXCEPT ![i] = [shape |-> shape, last_activity_at |-> time]]
    /\ Written

(* A sync that no longer finds a listing leaves its activity alone. *)
GoMissing(i) ==
    /\ IsListed(i)
    /\ [table[i].shape EXCEPT !.missing_from_source = TRUE] \in Shapes
    /\ table' = [table EXCEPT ![i].shape.missing_from_source = TRUE]
    /\ Written

(* A removal, a delete of a test listing, or the purge. *)
Vanish(i) ==
    /\ IsListed(i)
    /\ table' = [table EXCEPT ![i] = Absent]
    /\ Written

Tick ==
    /\ time < MaxSearchTime
    /\ time' = time + 1
    /\ request' = IF request.pc # "idle" /\ request.ask.stale # Any
                  THEN [request EXCEPT !.disturbed = TRUE] ELSE request
    /\ UNCHANGED table

SearchInit ==
    /\ table = [i \in ListingIds |-> Absent]
    /\ time = 0
    /\ request = NoRequest

SearchNext ==
    \/ RequestNext
    \/ \E i \in ListingIds : (\E s \in Shapes : Write(i, s)) \/ GoMissing(i) \/ Vanish(i)
    \/ Tick

SearchSpec == SearchInit /\ [][SearchNext]_searchVars

-----------------------------------------------------------------------------
(* Properties. *)

Quiet(kind) == request.pc = "answered" /\ request.kind = kind /\ ~request.disturbed

(* What a whole search would report over the table as it stands. *)
TotalOf(ask) ==
    LET hits(mode) == Cardinality(Found(ask, mode, time)) IN
    IF ~ask.has_q THEN hits("activity")
    ELSE IF hits("rank") > 0 THEN hits("rank")
    ELSE hits("similarity")

(* A search nobody disturbs counts what it selects, and finds by trigrams  *)
(* exactly when full-text search finds nothing (list_listings: COUNT, then *)
(* SELECT, and the mode chosen by a COUNT before both).                    *)
QuietSearchesAddUp ==
    Quiet("search") =>
        /\ request.total = Cardinality(request.page)
        /\ request.total = TotalOf(request.ask)
        /\ ~request.ask.compact => {s.id : s \in request.shown} = {p.id : p \in request.page}

Narrowed(field, value) == [request.ask EXCEPT ![field] = value]
Sum(f, S) == MapThenSumSet(LAMBDA v : f[v], S)

(* Facets nobody disturbs say what a search would: the same total, split   *)
(* without loss by type and by source; and whoever then narrows the search *)
(* by a value with a count finds that many listings (facet_counts: "so an  *)
(* agent can see what's out there before deciding how to narrow").  Under  *)
(* a price cap a network counts listings whose affordable option may be on *)
(* another network: narrowing to it finds at most that many.               *)
QuietFacetsForetellSearches ==
    Quiet("facets") =>
        /\ request.total = TotalOf(request.ask)
        /\ request.total = Sum(request.by_listing_type, ListingTypes)
        /\ request.total = Sum(request.by_source, Sources)
        /\ \A t \in ListingTypes : request.by_listing_type[t] > 0 =>
             request.by_listing_type[t] = TotalOf(Narrowed("listing_type", t))
        /\ request.ask.task_categories = {} =>
             \A c \in TaskCategories : request.by_task_category[c] > 0 =>
                 request.by_task_category[c] = TotalOf(Narrowed("task_categories", {c}))
        /\ request.ask.payment_network = Any =>
             \A n \in Networks : request.by_network[n] > 0 =>
                 LET found == TotalOf(Narrowed("payment_network", n)) IN
                 IF request.ask.max_price = Any THEN found = request.by_network[n]
                 ELSE ~request.ask.has_q => found <= request.by_network[n]

(* Both: whoever looks at the facets and then searches, with nobody        *)
(* writing, never meets two numbers for one thing.                         *)
QuietAnswersAgree == QuietSearchesAddUp /\ QuietFacetsForetellSearches

(* Whoever asks for stale listings is shown no listing as fresh, however   *)
(* long the badges took and whatever was written meanwhile: the database   *)
(* and the process judge staleness alike, and it does not wear off.        *)
StaleAnswersAreShownStale ==
    request.pc \in {"show", "answered"} /\ request.ask.stale = TRUE =>
        \A s \in request.shown : s.stale

=============================================================================
