----------------------------- MODULE Pagination -----------------------------
(***************************************************************************)
(* Clients that walk through GET /listings or a search, page by page       *)
(* (app/core/pagination.py, list_listings in app/core/db.py), while        *)
(* listings are posted, edited, re-synced, removed and heard from.         *)
(*                                                                         *)
(* A page resumes strictly below the last item of the page before it, in   *)
(* the order of the walk: last activity, text rank or trigram similarity,  *)
(* then id.                                                                *)
(***************************************************************************)
EXTENDS Integers, FiniteSets

CONSTANTS
    Ids,               \* listing ids, in their order as text
    Texts,             \* what full-text and trigram search see of a listing
    Queries, NoQuery,
    Rank, Similarity,  \* [Queries -> [Texts -> Nat]]; 0 is "does not match"
    TrigramAvailable,  \* _trigram_available
    Limit,             \* page size
    MinInterval,       \* HEARTBEAT_MIN_INTERVAL, in clock ticks
    Walks,             \* clients, each on one walk at a time
    Missing,           \* an id without a row
    MaxTime            \* bound on the clock

ASSUME PagingAssumption ==
    /\ Ids \subseteq Int /\ IsFiniteSet(Ids)
    /\ NoQuery \notin Queries
    /\ Rank \in [Queries -> [Texts -> Nat]]
    /\ Similarity \in [Queries -> [Texts -> Nat]]
    /\ TrigramAvailable \in BOOLEAN
    /\ Limit \in Nat \ {0}
    /\ MinInterval \in Nat
    /\ MaxTime \in Nat

VARIABLES
    listings,   \* the listings table
    clock,
    walk        \* what each client has asked for and got

pagingVars == <<listings, clock, walk>>

Time == 0 .. MaxTime
NoTime == -1

(* created_at is where updated_at starts; the maximum below has no use for it. *)
Row == [updated_at : Time, last_seen_at : Time \cup {NoTime}, active : BOOLEAN, text : Texts]

ASSUME MissingAssumption == Missing \notin Row

Exists(i) == listings[i] # Missing
Larger(a, b) == IF a >= b THEN a ELSE b

(* last_activity_at, and ACTIVITY_SQL *)
last_activity_at(row) == Larger(row.updated_at, row.last_seen_at)

(* The value a walk is ordered by, in each of its modes. *)
ValueIn(mode, q, row) ==
    CASE mode = "activity"   -> last_activity_at(row)
      [] mode = "rank"       -> Rank[q][row.text]
      [] mode = "similarity" -> Similarity[q][row.text]

(* The WHERE clause, without the cursor's part: active listings by         *)
(* default, and those the search finds.                                    *)
Matches(mode, q, row) ==
    /\ row.active
    /\ mode # "activity" => ValueIn(mode, q, row) > 0
    /\ mode = "similarity" => TrigramAvailable

(* (value, id) < (value, id), as PostgreSQL compares rows. *)
Below(p, c) == p.value < c.value \/ (p.value = c.value /\ p.id < c.id)

Position(mode, q, i) == [value |-> ValueIn(mode, q, listings[i]), id |-> i]

(* Mutant: a cursor that resumes at its own listing.                       *)
CandidatesFromCursor(w) ==
    {i \in Ids : /\ Exists(i)
                 /\ Matches(walk[w].mode, walk[w].q, listings[i])
                 /\ walk[w].started => ~Below(walk[w].cursor, Position(walk[w].mode, walk[w].q, i))}

Candidates(w) ==
    {i \in Ids : /\ Exists(i)
                 /\ Matches(walk[w].mode, walk[w].q, listings[i])
                 /\ walk[w].started => Below(Position(walk[w].mode, walk[w].q, i), walk[w].cursor)}

-----------------------------------------------------------------------------
(* The client's side.  A walk keeps its query, the mode and position its   *)
(* cursor carries, and (history) what it returned, what it returned twice, *)
(* which listings were written since it began and which were lowered.      *)

Modes == {"activity", "rank", "similarity"}
Nowhere == [value |-> 0, id |-> 0]

NewWalk(q) ==
    [pc |-> "page", q |-> q, mode |-> "none", started |-> FALSE, cursor |-> Nowhere,
     seen |-> {}, repeated |-> {}, written |-> {}, lowered |-> {}]

Begin(w, q) ==
    /\ walk[w].pc = "ended"
    /\ walk' = [walk EXCEPT ![w] = NewWalk(q)]
    /\ UNCHANGED <<listings, clock>>

(* A first page counts the full-text hits to choose between rank and       *)
(* similarity; its SELECT comes later.  A later page trusts its cursor,    *)
(* whose fingerprint must be the query's.                                  *)
DecideMode(w) ==
    /\ walk[w].pc = "page" /\ walk[w].q # NoQuery
    /\ walk' = [walk EXCEPT ![w].pc = "select",
                            ![w].mode = IF walk[w].started THEN @
                                        ELSE IF \E i \in Ids : Exists(i) /\ Matches("rank", walk[w].q, listings[i])
                                        THEN "rank" ELSE "similarity"]
    /\ UNCHANGED <<listings, clock>>

(* A browse is ordered by activity on every page. *)
DecideActivity(w) ==
    /\ walk[w].pc = "page" /\ walk[w].q = NoQuery
    /\ walk' = [walk EXCEPT ![w].pc = "select", ![w].mode = "activity"]
    /\ UNCHANGED <<listings, clock>>

(* Mutant: LIMIT without the extra row, so has_more is never true.         *)
HasMoreNever(page, w) == FALSE

(* One row more than the page holds was found. *)
HasMore(page, w) == page # Candidates(w)

(* ORDER BY value DESC, id DESC LIMIT: the sets of ids one page may be. *)
Pages(w) ==
    {page \in SUBSET Candidates(w) :
        /\ \A i \in page, j \in Candidates(w) \ page :
             Below(Position(walk[w].mode, walk[w].q, j), Position(walk[w].mode, walk[w].q, i))
        /\ page = Candidates(w) => Cardinality(page) <= Limit
        /\ page # Candidates(w) => Cardinality(page) = Limit}

(* The last row of a page, whose position becomes next_cursor. *)
IsLastOf(i, page, w) ==
    \A j \in page \ {i} :
        Below(Position(walk[w].mode, walk[w].q, i), Position(walk[w].mode, walk[w].q, j))

Returned(w, page) ==
    [walk[w] EXCEPT !.seen = @ \cup page, !.repeated = @ \cup (walk[w].seen \cap page)]

(* A page with more to come hands out a cursor. *)
SelectPage(w) ==
    /\ walk[w].pc = "select"
    /\ \E page \in Pages(w) : \E last \in page :
         /\ HasMore(page, w) /\ IsLastOf(last, page, w)
         /\ walk' = [walk EXCEPT ![w] = [Returned(w, page) EXCEPT
                        !.pc = "page", !.started = TRUE,
                        !.cursor = Position(walk[w].mode, walk[w].q, last)]]
    /\ UNCHANGED <<listings, clock>>

(* The last page: next_cursor is null. *)
SelectLastPage(w) ==
    /\ walk[w].pc = "select"
    /\ \E page \in Pages(w) :
         /\ page = {} \/ ~HasMore(page, w)
         /\ walk' = [walk EXCEPT ![w] = [Returned(w, page) EXCEPT !.pc = "ended"]]
    /\ UNCHANGED <<listings, clock>>

WalkNext(w) ==
    \/ \E q \in Queries \cup {NoQuery} : Begin(w, q)
    \/ DecideMode(w) \/ DecideActivity(w)
    \/ SelectPage(w) \/ SelectLastPage(w)

-----------------------------------------------------------------------------
(* The writers.  A handler reads the clock before its statement runs, so a *)
(* write may carry any time up to now.                                     *)

(* The row of i becomes row. *)
Writes(i, row) ==
    /\ listings' = [listings EXCEPT ![i] = row]
    /\ UNCHANGED clock

Noted(i) ==
    walk' = [w \in Walks |-> IF walk[w].pc = "ended" THEN walk[w]
                             ELSE [walk[w] EXCEPT !.written = @ \cup {i}]]

(* Walk w has begun and now finds i further down in its order. *)
Lowers(w, i, row) ==
    /\ walk[w].started
    /\ ValueIn(walk[w].mode, walk[w].q, row) < ValueIn(walk[w].mode, walk[w].q, listings[i])

NotedLowering(i, row) ==
    walk' = [w \in Walks |-> IF walk[w].pc = "ended" THEN walk[w]
                             ELSE [walk[w] EXCEPT
                                     !.written = @ \cup {i},
                                     !.lowered = @ \cup {j \in {i} : Lowers(w, i, row)}]]

(* create_listing, or the insert of an import_upsert; uuid4 ids are new to *)
(* every walk under way.                                                   *)
Insert(i, now, text) ==
    /\ ~Exists(i)
    /\ \A w \in Walks : i \notin walk[w].written
    /\ Writes(i, [updated_at |-> now, last_seen_at |-> NoTime,
                  active |-> TRUE, text |-> text])
    /\ Noted(i)

RecordHeartbeat(i, now) ==
    /\ Exists(i) /\ listings[i].active
    /\ listings[i].last_seen_at = NoTime \/ listings[i].last_seen_at <= now - MinInterval
    /\ Writes(i, [listings[i] EXCEPT !.last_seen_at = now])
    /\ Noted(i)

(* update_listing: a PATCH, a deactivation or a claim. *)
Update(i, now, text, active) ==
    /\ Exists(i)
    /\ LET row == [listings[i] EXCEPT !.updated_at = now, !.text = text, !.active = active] IN
       Writes(i, row) /\ NotedLowering(i, row)

(* import_upsert of an unclaimed listing: its content, and no time. *)
Resync(i, text) ==
    /\ Exists(i)
    /\ LET row == [listings[i] EXCEPT !.text = text] IN
       Writes(i, row) /\ NotedLowering(i, row)

(* remove_imported_listing, or a purge. *)
Remove(i) == Exists(i) /\ Writes(i, Missing) /\ Noted(i)

PagingTick == clock < MaxTime /\ clock' = clock + 1 /\ UNCHANGED <<listings, walk>>

WriteNext ==
    \E i \in Ids :
        \/ \E now \in 0 .. clock, text \in Texts : Insert(i, now, text)
        \/ \E now \in 0 .. clock : RecordHeartbeat(i, now)
        \/ \E now \in 0 .. clock, text \in Texts, active \in BOOLEAN : Update(i, now, text, active)
        \/ \E text \in Texts : Resync(i, text)
        \/ Remove(i)

PagingInit ==
    /\ listings = [i \in Ids |-> Missing]
    /\ clock = 0
    /\ walk = [w \in Walks |-> [NewWalk(NoQuery) EXCEPT !.pc = "ended"]]

PagingNext == (\E w \in Walks : WalkNext(w)) \/ WriteNext \/ PagingTick

PagingSpec == PagingInit /\ [][PagingNext]_pagingVars

-----------------------------------------------------------------------------
Walk == [pc : {"page", "select", "ended"}, q : Queries \cup {NoQuery}, mode : Modes \cup {"none"},
         started : BOOLEAN, cursor : [value : Int, id : Int],
         seen : SUBSET Ids, repeated : SUBSET Ids, written : SUBSET Ids, lowered : SUBSET Ids]

PagingTypeOK ==
    /\ listings \in [Ids -> Row \cup {Missing}]
    /\ clock \in Time
    /\ walk \in [Walks -> Walk]

(* A listing nobody wrote since the walk began, and that the walk is about. *)
Steady(w, i) == /\ i \notin walk[w].written /\ Exists(i)
                /\ walk[w].mode # "none" /\ Matches(walk[w].mode, walk[w].q, listings[i])

(* A finished walk has returned every listing that was there all along,    *)
(* whatever was posted, edited, heard from or removed between its pages    *)
(* (README: listings added while you page never cause skips).              *)
SteadyWereSeen ==
    \A w \in Walks, i \in Ids :
        walk[w].pc # "ended" /\ walk'[w].pc = "ended" /\ Steady(w, i) => i \in walk'[w].seen
NothingSteadyIsSkipped == [][SteadyWereSeen]_pagingVars

(* A walk returns a listing a second time only if an edit or a re-sync     *)
(* moved it down in between: never because of a post, a removal or a       *)
(* heartbeat (README: it jumps to the front and is not revisited).         *)
OnlyLoweredAreRepeated == \A w \in Walks : walk[w].repeated \subseteq walk[w].lowered

(* A walk's cursor moves strictly down and keeps its query and its way of  *)
(* searching (pagination.py: locks in which of the two search modes).      *)
CursorDescends ==
    \A w \in Walks :
        walk[w].started /\ walk'[w].started =>
            /\ walk'[w].mode = walk[w].mode /\ walk'[w].q = walk[w].q
            /\ walk'[w].cursor # walk[w].cursor => Below(walk'[w].cursor, walk[w].cursor)
CursorsDescend == [][CursorDescends]_pagingVars

(* What the two rest on: a steady listing has been returned exactly if it  *)
(* is not below the cursor, one returned before is below it only if it was *)
(* lowered, and only a removed listing is missing after it was returned.   *)
ListedOK(w, i) ==
    LET p == Position(walk[w].mode, walk[w].q, i) IN
    /\ i \in walk[w].seen /\ i \notin walk[w].lowered => ~Below(p, walk[w].cursor)
    /\ Steady(w, i) /\ i \notin walk[w].seen => Below(p, walk[w].cursor)

WalkOK(w) ==
    /\ walk[w].pc = "select" \/ walk[w].started => walk[w].mode # "none"
    /\ walk[w].mode \in {"rank", "similarity"} => walk[w].q # NoQuery
    /\ walk[w].pc # "ended" =>
         /\ ~walk[w].started => walk[w].seen = {}
         /\ \A i \in walk[w].seen : i \in walk[w].written \/ Exists(i)
         /\ walk[w].started => \A i \in Ids : Exists(i) => ListedOK(w, i)

WalkInv ==
    /\ PagingTypeOK
    /\ \A w \in Walks : WalkOK(w)
    /\ OnlyLoweredAreRepeated
=============================================================================
