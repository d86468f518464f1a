----------------------------- MODULE ReadingProofs -----------------------------
(***************************************************************************)
(* Proofs about what a reader of the board meets, for every value of the   *)
(* constants: a page-by-page walk skips no steady listing and repeats only *)
(* lowered ones, a badge is recent and a span of time costs only so many   *)
(* lookups, an answer to a search adds up.                                 *)
(***************************************************************************)
EXTENDS Search, Pagination, BadgeCache, FiniteSums

(* Pages. *)


Cursors == [value : Int, id : Int]

(* Below is a strict total order on positions.                             *)
LEMMA BelowOrder ==
    /\ \A a, b, c \in Cursors : Below(a, b) /\ Below(b, c) => Below(a, c)
    /\ \A a, b \in Cursors : Below(a, b) => ~Below(b, a)
    /\ \A a, b \in Cursors : Below(a, b) \/ a = b \/ Below(b, a)
BY DEF Below, Cursors

(* The value of an existing row is a number in every mode of a walk.       *)
LEMMA ValueIsInt ==
    ASSUME NEW mode \in Modes, NEW q \in Queries \cup {NoQuery}, NEW row \in Row,
           mode \in {"rank", "similarity"} => q # NoQuery
    PROVE  ValueIn(mode, q, row) \in Int
<1>1. CASE mode = "activity"
  BY <1>1, PagingAssumption DEF ValueIn, Row, Time, NoTime, last_activity_at, Larger
<1>2. CASE mode = "rank"
  BY <1>2, PagingAssumption DEF ValueIn, Row
<1>3. CASE mode = "similarity"
  BY <1>3, PagingAssumption DEF ValueIn, Row
<1> QED BY <1>1, <1>2, <1>3 DEF Modes

(* So the position of every candidate can be compared with a cursor.       *)
LEMMA PositionIsCursor ==
    ASSUME PagingTypeOK, NEW w \in Walks, WalkOK(w), walk[w].mode # "none",
           NEW i \in Ids, Exists(i)
    PROVE  Position(walk[w].mode, walk[w].q, i) \in Cursors
<1>1. walk[w] \in Walk /\ listings[i] \in Row
  BY MissingAssumption DEF PagingTypeOK, Exists
<1>2. walk[w].mode \in Modes /\ walk[w].q \in Queries \cup {NoQuery}
  BY <1>1 DEF Walk
<1>3. ValueIn(walk[w].mode, walk[w].q, listings[i]) \in Int
  BY <1>1, <1>2, ValueIsInt DEF WalkOK
<1> QED BY <1>3, PagingAssumption DEF Position, Cursors

(* A new walk has returned nothing.                                        *)
LEMMA NewWalkOK ==
    \A q \in Queries \cup {NoQuery} :
        /\ NewWalk(q) \in Walk
        /\ [NewWalk(q) EXCEPT !.pc = "ended"] \in Walk
<1> SUFFICES ASSUME NEW q \in Queries \cup {NoQuery}
             PROVE  NewWalk(q) \in Walk /\ [NewWalk(q) EXCEPT !.pc = "ended"] \in Walk
  OBVIOUS
<1>1. Nowhere \in [value : Int, id : Int] BY DEF Nowhere
<1>2. NewWalk(q) \in Walk BY <1>1 DEF NewWalk, Walk
<1>3. [NewWalk(q) EXCEPT !.pc = "ended"] \in Walk BY <1>2 DEF Walk
<1> QED BY <1>2, <1>3

LEMMA PagingStart == PagingInit => WalkInv
<1> SUFFICES ASSUME PagingInit PROVE WalkInv OBVIOUS
<1>1. PagingTypeOK
  <2>1. \A w \in Walks : walk[w] \in Walk BY NewWalkOK DEF PagingInit
  <2>2. clock \in Time BY PagingAssumption DEF PagingInit, Time
  <2>3. listings \in [Ids -> Row \cup {Missing}] BY DEF PagingInit
  <2>4. walk \in [Walks -> Walk] BY <2>1 DEF PagingInit
  <2> QED BY <2>2, <2>3, <2>4 DEF PagingTypeOK
<1>2. \A w \in Walks : WalkOK(w)
  BY DEF PagingInit, NewWalk, WalkOK
<1>3. OnlyLoweredAreRepeated
  BY DEF PagingInit, NewWalk, OnlyLoweredAreRepeated
<1> QED BY <1>1, <1>2, <1>3 DEF WalkInv

-----------------------------------------------------------------------------
(* A step of walk w leaves the others alone. *)
LEMMA OneWalkMoves ==
    ASSUME WalkInv, NEW w \in Walks, NEW v \in Walk,
           walk' = [walk EXCEPT ![w] = v], UNCHANGED <<listings, clock>>,
           WalkOK(w)', v.repeated \subseteq v.lowered
    PROVE  WalkInv'
<1>1. walk'[w] = v /\ \A u \in Walks \ {w} : walk'[u] = walk[u]
  BY DEF WalkInv, PagingTypeOK
<1>2. \A u \in Walks \ {w} : WalkOK(u)'
  BY <1>1 DEF WalkInv, WalkOK, ListedOK, Steady, Exists, Position
<1>3. OnlyLoweredAreRepeated'
  BY <1>1 DEF WalkInv, OnlyLoweredAreRepeated
<1>4. PagingTypeOK'
  BY DEF WalkInv, PagingTypeOK
<1> QED BY <1>2, <1>3, <1>4 DEF WalkInv

(* A new walk begins. *)
LEMMA BeginKeeps ==
    ASSUME WalkInv, NEW w \in Walks, NEW q \in Queries \cup {NoQuery}, Begin(w, q)
    PROVE  WalkInv'
<1>1. walk' = [walk EXCEPT ![w] = NewWalk(q)] /\ UNCHANGED <<listings, clock>>
  BY DEF Begin
<1>2. NewWalk(q) \in Walk BY NewWalkOK
<1>3. walk'[w] = NewWalk(q) BY <1>1 DEF WalkInv, PagingTypeOK
<1>4. WalkOK(w)' BY <1>3 DEF WalkOK, NewWalk
<1>5. NewWalk(q).repeated \subseteq NewWalk(q).lowered BY DEF NewWalk
<1> QED BY <1>1, <1>2, <1>4, <1>5, OneWalkMoves

(* The mode of a walk is chosen once, before it has a cursor. *)
LEMMA DecideKeeps ==
    ASSUME WalkInv, NEW w \in Walks, DecideMode(w) \/ DecideActivity(w)
    PROVE  WalkInv'
<1>1. PICK mode \in Modes :
        /\ walk' = [walk EXCEPT ![w] = [walk[w] EXCEPT !.pc = "select", !.mode = mode]]
        /\ walk[w].pc = "page"
        /\ walk[w].started => mode = walk[w].mode
        /\ mode \in {"rank", "similarity"} => walk[w].q # NoQuery
  <2>1. CASE DecideMode(w)
    <3>1. walk[w] \in Walk /\ WalkOK(w) BY DEF WalkInv, PagingTypeOK
    <3>2. walk[w].started => walk[w].mode \in Modes BY <3>1 DEF WalkOK, Walk
    <3> QED BY <2>1, <3>1, <3>2 DEF DecideMode, Modes
  <2>2. CASE DecideActivity(w)
    <3>1. walk[w] \in Walk /\ WalkOK(w) BY DEF WalkInv, PagingTypeOK
    <3>2. walk[w].started => walk[w].mode = "activity" BY <2>2, <3>1 DEF WalkOK, Walk, Modes, DecideActivity
    <3> QED BY <2>2, <3>2 DEF DecideActivity, Modes
  <2> QED BY <2>1, <2>2
<1> DEFINE v == [walk[w] EXCEPT !.pc = "select", !.mode = mode]
<1>2. walk[w] \in Walk /\ WalkOK(w) BY DEF WalkInv, PagingTypeOK
<1>3. v \in Walk BY <1>2 DEF Walk
<1>4. walk' = [walk EXCEPT ![w] = v] /\ walk'[w] = v BY <1>1 DEF WalkInv, PagingTypeOK
<1>5. UNCHANGED <<listings, clock>> BY DEF DecideMode, DecideActivity
<1>6. WalkOK(w)'
  <2>1. /\ v.pc = "select" /\ v.mode = mode /\ v.started = walk[w].started /\ v.seen = walk[w].seen
        /\ v.written = walk[w].written /\ v.lowered = walk[w].lowered /\ v.q = walk[w].q
        /\ v.cursor = walk[w].cursor
    BY <1>2 DEF Walk
  <2>2. walk[w].started => v.mode = walk[w].mode BY <1>1, <2>1
  <2>3. mode # "none" BY DEF Modes
  <2>4. \A i \in Ids : walk[w].started /\ Exists(i) => ListedOK(w, i)'
    BY <1>1, <1>2, <1>4, <1>5, <2>1, <2>2 DEF WalkOK, ListedOK, Steady, Exists, Position
  <2> HIDE DEF v
  <2> QED BY <1>1, <1>2, <1>4, <1>5, <2>1, <2>3, <2>4 DEF WalkOK, Exists
<1>7. v.repeated \subseteq v.lowered BY <1>2 DEF WalkInv, OnlyLoweredAreRepeated, Walk
<1> QED BY <1>3, <1>4, <1>5, <1>6, <1>7, OneWalkMoves

(* What a page returns again, the walk saw lowered. *)
LEMMA RepeatsWereLowered ==
    ASSUME WalkInv, NEW w \in Walks, walk[w].pc = "select", NEW page \in Pages(w)
    PROVE  /\ page \subseteq Candidates(w) /\ page \subseteq Ids
           /\ Returned(w, page) \in Walk
           /\ Returned(w, page).repeated \subseteq Returned(w, page).lowered
<1>1. walk[w] \in Walk /\ WalkOK(w) BY DEF WalkInv, PagingTypeOK
<1>2. page \subseteq Candidates(w) /\ page \subseteq Ids BY DEF Pages, Candidates
<1>3. Returned(w, page) \in Walk BY <1>1, <1>2 DEF Returned, Walk
<1>4. walk[w].seen \cap page \subseteq walk[w].lowered
  BY <1>1, <1>2 DEF WalkOK, ListedOK, Candidates
<1>5. walk[w].repeated \subseteq walk[w].lowered BY DEF WalkInv, OnlyLoweredAreRepeated
<1> QED BY <1>1, <1>2, <1>3, <1>4, <1>5 DEF Returned, Walk

(* After the last page a walk promises nothing more. *)
LEMMA SelectLastPageKeeps ==
    ASSUME WalkInv, NEW w \in Walks, SelectLastPage(w)
    PROVE  WalkInv'
<1>1. PICK page \in Pages(w) :
        walk' = [walk EXCEPT ![w] = [Returned(w, page) EXCEPT !.pc = "ended"]]
  BY DEF SelectLastPage
<1> DEFINE v == [Returned(w, page) EXCEPT !.pc = "ended"]
<1>2. walk[w].pc = "select" /\ UNCHANGED <<listings, clock>> BY DEF SelectLastPage
<1>3. /\ Returned(w, page) \in Walk
      /\ Returned(w, page).repeated \subseteq Returned(w, page).lowered
  BY <1>2, RepeatsWereLowered
<1>4. v \in Walk /\ v.repeated \subseteq v.lowered /\ v.pc = "ended"
  BY <1>3 DEF Walk
<1>5. walk' = [walk EXCEPT ![w] = v] /\ walk'[w] = v BY <1>1 DEF WalkInv, PagingTypeOK
<1>6. v.mode = walk[w].mode /\ v.q = walk[w].q /\ v.started = walk[w].started
  BY DEF Returned, WalkInv, PagingTypeOK, Walk
<1>7. WalkOK(w) BY DEF WalkInv
<1> HIDE DEF v
<1>8. WalkOK(w)' BY <1>2, <1>4, <1>5, <1>6, <1>7 DEF WalkOK
<1> QED BY <1>2, <1>4, <1>5, <1>8, OneWalkMoves

(* A page moves the cursor down to its last row. *)
LEMMA SelectPageKeeps ==
    ASSUME WalkInv, NEW w \in Walks, SelectPage(w)
    PROVE  WalkInv' /\ (walk[w].started => Below(walk'[w].cursor, walk[w].cursor))
<1> DEFINE Pos(i) == Position(walk[w].mode, walk[w].q, i)
<1>0. PICK page \in Pages(w) : \E last \in page :
        /\ IsLastOf(last, page, w)
        /\ walk' = [walk EXCEPT ![w] = [Returned(w, page) EXCEPT
                        !.pc = "page", !.started = TRUE, !.cursor = Pos(last)]]
  BY DEF SelectPage
<1>1. PICK last \in page :
        /\ IsLastOf(last, page, w)
        /\ walk' = [walk EXCEPT ![w] = [Returned(w, page) EXCEPT
                        !.pc = "page", !.started = TRUE, !.cursor = Pos(last)]]
  BY <1>0
<1> DEFINE v == [Returned(w, page) EXCEPT !.pc = "page", !.started = TRUE, !.cursor = Pos(last)]
<1>2. walk[w].pc = "select" /\ UNCHANGED <<listings, clock>> BY DEF SelectPage
<1>3. /\ page \subseteq Candidates(w) /\ page \subseteq Ids
      /\ Returned(w, page) \in Walk
      /\ Returned(w, page).repeated \subseteq Returned(w, page).lowered
  BY <1>2, RepeatsWereLowered
<1>4. walk[w] \in Walk /\ WalkOK(w) /\ walk[w].mode # "none"
  BY <1>2 DEF WalkInv, PagingTypeOK, WalkOK
<1>5. \A i \in Ids : Exists(i) => Pos(i) \in Cursors
  BY <1>4, PositionIsCursor DEF WalkInv
<1>6. last \in Ids /\ Exists(last) /\ Pos(last) \in Cursors
  BY <1>3, <1>5 DEF Candidates
<1>7. v \in Walk /\ v.repeated \subseteq v.lowered
  BY <1>3, <1>6 DEF Walk, Cursors
<1>8. walk' = [walk EXCEPT ![w] = v] /\ walk'[w] = v BY <1>1 DEF WalkInv, PagingTypeOK
<1>9. /\ v.mode = walk[w].mode /\ v.q = walk[w].q /\ v.written = walk[w].written
      /\ v.lowered = walk[w].lowered /\ v.seen = walk[w].seen \cup page
      /\ v.cursor = Pos(last) /\ v.started /\ v.pc = "page"
  BY <1>4 DEF Returned, Walk
<1> HIDE DEF v
<1>10. walk[w].started => walk[w].cursor \in Cursors /\ Below(Pos(last), walk[w].cursor)
  BY <1>3, <1>4 DEF Candidates, Walk, Cursors
<1>11. ASSUME NEW i \in Ids, Exists(i) PROVE ListedOK(w, i)'
  <2>1. Pos(i) \in Cursors BY <1>5, <1>11
  <2>2. Position(walk[w].mode, walk[w].q, i)' = Pos(i)
    BY <1>2, <1>8, <1>9 DEF Position
  <2>3. Steady(w, i)' => Steady(w, i)
    BY <1>2, <1>4, <1>8, <1>9 DEF Steady, Exists
  <2>4. ASSUME i \in v.seen, i \notin v.lowered PROVE ~Below(Pos(i), v.cursor)
    <3>1. CASE i \in page
      <4>1. i = last \/ Below(Pos(last), Pos(i)) BY <1>1, <3>1 DEF IsLastOf
      <4> QED BY <1>6, <1>9, <2>1, <4>1, BelowOrder
    <3>2. CASE i \notin page
      <4>1. i \in walk[w].seen /\ walk[w].started BY <1>2, <1>4, <1>9, <2>4, <3>2 DEF WalkOK
      <4>2. ~Below(Pos(i), walk[w].cursor)
        BY <1>2, <1>4, <1>9, <1>11, <2>4, <4>1 DEF WalkOK, ListedOK
      <4> QED BY <1>6, <1>9, <1>10, <2>1, <4>1, <4>2, BelowOrder
    <3> QED BY <3>1, <3>2
  <2>5. ASSUME Steady(w, i), i \notin v.seen PROVE Below(Pos(i), v.cursor)
    <3>1. walk[w].started => Below(Pos(i), walk[w].cursor)
      BY <1>2, <1>4, <1>9, <1>11, <2>5 DEF WalkOK, ListedOK
    <3>2. i \in Candidates(w) BY <2>5, <3>1 DEF Candidates, Steady
    <3> QED BY <1>9, <2>5, <3>2 DEF Pages
  <2> QED BY <1>8, <2>2, <2>3, <2>4, <2>5 DEF ListedOK
<1>12. WalkOK(w)'
  <2>1. \A i \in page : Exists(i) BY <1>3 DEF Candidates
  <2>2. \A i \in v.seen : i \in v.written \/ Exists(i)
    BY <1>2, <1>4, <1>9, <2>1 DEF WalkOK
  <2>3. v.mode \in {"rank", "similarity"} => v.q # NoQuery BY <1>4, <1>9 DEF WalkOK
  <2>4. \A i : Exists(i)' <=> Exists(i) BY <1>2 DEF Exists
  <2> QED BY <1>4, <1>8, <1>9, <1>11, <2>2, <2>3, <2>4 DEF WalkOK
<1>13. WalkInv' BY <1>2, <1>7, <1>8, <1>12, OneWalkMoves
<1> QED BY <1>8, <1>9, <1>10, <1>13

-----------------------------------------------------------------------------
(* A write to listing i that every walk under way takes note of: one that  *)
(* was returned before may be further down only in walks that know.        *)
LEMMA WritesKeep ==
    ASSUME WalkInv, NEW i \in Ids, NEW row \in Row \cup {Missing}, Writes(i, row),
           walk' \in [Walks -> Walk],
           \A w \in Walks :
             IF walk[w].pc = "ended" THEN walk'[w] = walk[w]
             ELSE /\ walk'[w].pc = walk[w].pc /\ walk'[w].q = walk[w].q
                  /\ walk'[w].mode = walk[w].mode /\ walk'[w].started = walk[w].started
                  /\ walk'[w].cursor = walk[w].cursor /\ walk'[w].seen = walk[w].seen
                  /\ walk'[w].repeated = walk[w].repeated
                  /\ walk'[w].written = walk[w].written \cup {i}
                  /\ walk[w].lowered \subseteq walk'[w].lowered
                  /\ Exists(i) \/ row = Missing \/ i \notin walk[w].written
                  /\ walk[w].started /\ Exists(i) /\ row # Missing =>
                       \/ i \in walk'[w].lowered
                       \/ ValueIn(walk[w].mode, walk[w].q, listings[i])
                            <= ValueIn(walk[w].mode, walk[w].q, row)
    PROVE  WalkInv'
<1>1. listings' = [listings EXCEPT ![i] = row] /\ clock' = clock BY DEF Writes
<1>2. PagingTypeOK' BY <1>1 DEF WalkInv, PagingTypeOK
<1>3. OnlyLoweredAreRepeated' BY DEF WalkInv, OnlyLoweredAreRepeated
<1>4. /\ listings'[i] = row
      /\ \A j \in Ids \ {i} : listings'[j] = listings[j]
  BY <1>1 DEF WalkInv, PagingTypeOK
<1>5. ASSUME NEW w \in Walks PROVE WalkOK(w)'
  <2>1. WalkOK(w) /\ walk[w] \in Walk BY DEF WalkInv, PagingTypeOK
  <2>2. CASE walk[w].pc = "ended" BY <2>1, <2>2 DEF WalkOK
  <2>3. CASE walk[w].pc # "ended"
    <3>1. \A j \in walk'[w].seen : j \in walk'[w].written \/ Exists(j)'
      BY <1>4, <2>1, <2>3 DEF WalkOK, Exists, Walk
    <3>2. ASSUME NEW j \in Ids, walk[w].started, Exists(j)' PROVE ListedOK(w, j)'
      <4>1. CASE j # i
        <5>1. Exists(j) /\ ListedOK(w, j) BY <1>4, <2>1, <2>3, <3>2, <4>1 DEF WalkOK, Exists
        <5>2. Position(walk[w].mode, walk[w].q, j)' = Position(walk[w].mode, walk[w].q, j)
          BY <1>4, <2>3, <4>1 DEF Position
        <5>3. Steady(w, j)' => Steady(w, j) BY <1>4, <2>3, <4>1 DEF Steady, Exists
        <5> QED BY <2>3, <4>1, <5>1, <5>2, <5>3 DEF ListedOK
      <4>2. CASE j = i
        <5>1. ~Steady(w, i)' BY <2>3 DEF Steady
        <5>2. ASSUME i \in walk[w].seen, i \notin walk'[w].lowered
              PROVE  ~Below(Position(walk[w].mode, walk[w].q, i)', walk[w].cursor)
          <6>1. row # Missing BY <1>4, <3>2, <4>2 DEF Exists
          <6>2. Exists(i) BY <2>1, <2>3, <5>2, <6>1 DEF WalkOK
          <6>3. ~Below(Position(walk[w].mode, walk[w].q, i), walk[w].cursor)
            BY <2>1, <2>3, <3>2, <5>2, <6>2 DEF WalkOK, ListedOK
          <6>4. ValueIn(walk[w].mode, walk[w].q, listings[i])
                  <= ValueIn(walk[w].mode, walk[w].q, row)
            BY <2>3, <3>2, <5>2, <6>1, <6>2
          <6>5. walk[w].mode # "none" BY <2>1, <3>2 DEF WalkOK
          <6>6. /\ walk[w].mode \in Modes /\ walk[w].q \in Queries \cup {NoQuery}
                /\ walk[w].mode \in {"rank", "similarity"} => walk[w].q # NoQuery
            BY <2>1, <6>5 DEF WalkOK, Walk
          <6>7. row \in Row /\ listings[i] \in Row
            BY <6>1, <6>2 DEF WalkInv, PagingTypeOK, Exists
          <6>8. /\ ValueIn(walk[w].mode, walk[w].q, row) \in Int
                /\ ValueIn(walk[w].mode, walk[w].q, listings[i]) \in Int
            BY <6>6, <6>7, ValueIsInt
          <6>9. Position(walk[w].mode, walk[w].q, i)'
                  = [value |-> ValueIn(walk[w].mode, walk[w].q, row), id |-> i]
            BY <1>4, <2>3 DEF Position
          <6>10. walk[w].cursor \in Cursors /\ i \in Int
            BY <2>1, PagingAssumption DEF Walk, Cursors
          <6> QED BY <6>3, <6>4, <6>8, <6>9, <6>10 DEF Below, Position, Cursors
        <5> QED BY <2>3, <4>2, <5>1, <5>2 DEF ListedOK
      <4> QED BY <4>1, <4>2
    <3> QED BY <2>1, <2>3, <3>1, <3>2 DEF WalkOK
  <2> QED BY <2>2, <2>3
<1> QED BY <1>2, <1>3, <1>5 DEF WalkInv

(* What a write is noted as, in a walk under way. *)
LEMMA NotedWalks ==
    ASSUME PagingTypeOK, NEW i \in Ids, Noted(i)
    PROVE  /\ walk' \in [Walks -> Walk]
           /\ \A w \in Walks :
                IF walk[w].pc = "ended" THEN walk'[w] = walk[w]
                ELSE /\ walk'[w].pc = walk[w].pc /\ walk'[w].q = walk[w].q
                     /\ walk'[w].mode = walk[w].mode /\ walk'[w].started = walk[w].started
                     /\ walk'[w].cursor = walk[w].cursor /\ walk'[w].seen = walk[w].seen
                     /\ walk'[w].repeated = walk[w].repeated
                     /\ walk'[w].written = walk[w].written \cup {i}
                     /\ walk'[w].lowered = walk[w].lowered
BY DEF PagingTypeOK, Noted, Walk

LEMMA NotedLoweringWalks ==
    ASSUME PagingTypeOK, NEW i \in Ids, NEW row \in Row, NotedLowering(i, row)
    PROVE  /\ walk' \in [Walks -> Walk]
           /\ \A w \in Walks :
                IF walk[w].pc = "ended" THEN walk'[w] = walk[w]
                ELSE /\ walk'[w].pc = walk[w].pc /\ walk'[w].q = walk[w].q
                     /\ walk'[w].mode = walk[w].mode /\ walk'[w].started = walk[w].started
                     /\ walk'[w].cursor = walk[w].cursor /\ walk'[w].seen = walk[w].seen
                     /\ walk'[w].repeated = walk[w].repeated
                     /\ walk'[w].written = walk[w].written \cup {i}
                     /\ walk[w].lowered \subseteq walk'[w].lowered
                     /\ walk[w].started => \/ i \in walk'[w].lowered
                                           \/ ~(ValueIn(walk[w].mode, walk[w].q, row)
                                                  < ValueIn(walk[w].mode, walk[w].q, listings[i]))
<1> DEFINE new(w) == {j \in {i} : Lowers(w, i, row)}
<1>1. \A w \in Walks : new(w) \subseteq Ids /\ (Lowers(w, i, row) => i \in new(w)) OBVIOUS
<1>2. \A w \in Walks : walk[w] \in Walk BY DEF PagingTypeOK
<1>3. walk' = [w \in Walks |-> IF walk[w].pc = "ended" THEN walk[w]
                               ELSE [walk[w] EXCEPT !.written = @ \cup {i}, !.lowered = @ \cup new(w)]]
  BY DEF NotedLowering
<1> HIDE DEF new
<1>4. ASSUME NEW w \in Walks, walk[w].pc # "ended"
      PROVE  /\ walk'[w] \in Walk
             /\ walk'[w].pc = walk[w].pc /\ walk'[w].q = walk[w].q
             /\ walk'[w].mode = walk[w].mode /\ walk'[w].started = walk[w].started
             /\ walk'[w].cursor = walk[w].cursor /\ walk'[w].seen = walk[w].seen
             /\ walk'[w].repeated = walk[w].repeated
             /\ walk'[w].written = walk[w].written \cup {i}
             /\ walk'[w].lowered = walk[w].lowered \cup new(w)
  <2>1. walk[w].written \cup {i} \in SUBSET Ids /\ walk[w].lowered \cup new(w) \in SUBSET Ids
    BY <1>1, <1>2 DEF Walk
  <2>2. walk'[w] = [walk[w] EXCEPT !.written = walk[w].written \cup {i},
                                   !.lowered = walk[w].lowered \cup new(w)]
    BY <1>3, <1>4
  <2>3. walk[w] \in Walk BY <1>2
  <2> QED BY <2>1, <2>2, <2>3 DEF Walk
<1>5. walk' \in [Walks -> Walk] BY <1>2, <1>3, <1>4
<1>6. \A w \in Walks : walk[w].pc = "ended" => walk'[w] = walk[w] BY <1>3
<1>7. \A w \in Walks : walk[w].started /\ ~Lowers(w, i, row) =>
        ~(ValueIn(walk[w].mode, walk[w].q, row) < ValueIn(walk[w].mode, walk[w].q, listings[i]))
  BY DEF Lowers
<1> QED BY <1>1, <1>4, <1>5, <1>6, <1>7

(* Every writer keeps the invariant. *)
LEMMA WritersKeep == WalkInv /\ WriteNext => WalkInv'
<1> SUFFICES ASSUME WalkInv, NEW i \in Ids,
                    \/ \E now \in 0 .. clock, text \in Texts : Insert(i, now, text)
                    \/ \E now \in 0 .. clock : RecordHeartbeat(i, now)
                    \/ \E now \in 0 .. clock, text \in Texts, active \in BOOLEAN :
                          Update(i, now, text, active)
                    \/ \E text \in Texts : Resync(i, text)
                    \/ Remove(i)
             PROVE  WalkInv'
  BY DEF WriteNext
<1>1. PagingTypeOK /\ 0 .. clock \subseteq Time
  BY PagingAssumption DEF WalkInv, PagingTypeOK, Time
<1>2. ASSUME Exists(i) PROVE listings[i] \in Row
  BY <1>1, <1>2 DEF PagingTypeOK, Exists
<1>3. \A w \in Walks : walk[w] \in Walk /\ WalkOK(w) BY DEF WalkInv, PagingTypeOK
(* Rows that cannot be further down than before, in no mode of any walk.   *)
<1>4. ASSUME NEW row \in Row, Exists(i), row.text = listings[i].text,
             last_activity_at(listings[i]) <= last_activity_at(row), NEW w \in Walks,
             walk[w].started
      PROVE  ValueIn(walk[w].mode, walk[w].q, listings[i]) <= ValueIn(walk[w].mode, walk[w].q, row)
  <2>1. /\ walk[w].mode \in Modes /\ walk[w].q \in Queries \cup {NoQuery}
        /\ walk[w].mode \in {"rank", "similarity"} => walk[w].q # NoQuery
    BY <1>3, <1>4 DEF WalkOK, Walk
  <2>2. ValueIn(walk[w].mode, walk[w].q, row) \in Int BY <2>1, ValueIsInt
  <2>3. CASE walk[w].mode = "activity" BY <1>4, <2>3 DEF ValueIn
  <2>4. CASE walk[w].mode # "activity"
    <3>1. ValueIn(walk[w].mode, walk[w].q, listings[i]) = ValueIn(walk[w].mode, walk[w].q, row)
      BY <1>4, <2>1, <2>4 DEF ValueIn, Modes
    <3> QED BY <2>2, <3>1
  <2> QED BY <2>3, <2>4
<1>5. ASSUME NEW row \in Row, Exists(i), Writes(i, row), NotedLowering(i, row) PROVE WalkInv'
  <2>1. ASSUME NEW w \in Walks, walk[w].pc # "ended", walk[w].started
        PROVE  \/ i \in walk'[w].lowered
               \/ ValueIn(walk[w].mode, walk[w].q, listings[i])
                     <= ValueIn(walk[w].mode, walk[w].q, row)
    <3>1. /\ walk[w].mode \in Modes /\ walk[w].q \in Queries \cup {NoQuery}
          /\ walk[w].mode \in {"rank", "similarity"} => walk[w].q # NoQuery
      BY <1>3, <2>1 DEF WalkOK, Walk
    <3>2. /\ ValueIn(walk[w].mode, walk[w].q, row) \in Int
          /\ ValueIn(walk[w].mode, walk[w].q, listings[i]) \in Int
      BY <1>2, <1>5, <3>1, ValueIsInt
    <3>3. \/ i \in walk'[w].lowered
          \/ ~(ValueIn(walk[w].mode, walk[w].q, row) < ValueIn(walk[w].mode, walk[w].q, listings[i]))
      BY <1>1, <1>5, <2>1, NotedLoweringWalks
    <3> QED BY <3>2, <3>3
  <2> QED BY <1>1, <1>5, <2>1, NotedLoweringWalks, WritesKeep
<1>6. ASSUME NEW now \in 0 .. clock, NEW text \in Texts, Insert(i, now, text) PROVE WalkInv'
  <2> DEFINE row == [updated_at |-> now, last_seen_at |-> NoTime, active |-> TRUE, text |-> text]
  <2>1. row \in Row /\ Writes(i, row) /\ Noted(i) BY <1>1, <1>6 DEF Insert, Row
  <2>2. ~Exists(i) /\ \A w \in Walks : i \notin walk[w].written BY <1>6 DEF Insert
  <2> HIDE DEF row
  <2> QED BY <1>1, <2>1, <2>2, NotedWalks, WritesKeep
<1>7. ASSUME NEW now \in 0 .. clock, RecordHeartbeat(i, now) PROVE WalkInv'
  <2> DEFINE row == [listings[i] EXCEPT !.last_seen_at = now]
  <2>1. Exists(i) /\ Writes(i, row) /\ Noted(i) BY <1>7 DEF RecordHeartbeat
  <2>2. row \in Row /\ row.text = listings[i].text /\ row.updated_at = listings[i].updated_at
        /\ row.last_seen_at = now /\ now \in Int
    BY <1>1, <1>2, <2>1 DEF Row, Time
  <2>3. listings[i].last_seen_at <= now
    BY <1>1, <1>2, <1>7, <2>1, PagingAssumption DEF RecordHeartbeat, Row, Time, NoTime
  <2>4. last_activity_at(listings[i]) <= last_activity_at(row)
    BY <1>1, <1>2, <2>1, <2>2, <2>3 DEF last_activity_at, Larger, Row, Time, NoTime
  <2> HIDE DEF row
  <2>5. \A w \in Walks : walk[w].started =>
          ValueIn(walk[w].mode, walk[w].q, listings[i]) <= ValueIn(walk[w].mode, walk[w].q, row)
    BY <1>4, <2>1, <2>2, <2>4
  <2> QED BY <1>1, <2>1, <2>2, <2>5, NotedWalks, WritesKeep
<1>8. ASSUME NEW now \in 0 .. clock, NEW text \in Texts, NEW active \in BOOLEAN,
             Update(i, now, text, active)
      PROVE  WalkInv'
  <2> DEFINE row == [listings[i] EXCEPT !.updated_at = now, !.text = text, !.active = active]
  <2>1. Exists(i) /\ Writes(i, row) /\ NotedLowering(i, row) BY <1>8 DEF Update
  <2>2. row \in Row BY <1>1, <1>2, <2>1 DEF Row
  <2> QED BY <1>5, <2>1, <2>2
<1>9. ASSUME NEW text \in Texts, Resync(i, text) PROVE WalkInv'
  <2> DEFINE row == [listings[i] EXCEPT !.text = text]
  <2>1. Exists(i) /\ Writes(i, row) /\ NotedLowering(i, row) BY <1>9 DEF Resync
  <2>2. row \in Row BY <1>2, <2>1 DEF Row
  <2> QED BY <1>5, <2>1, <2>2
<1>10. CASE Remove(i)
  <2>1. Writes(i, Missing) /\ Noted(i) BY <1>10 DEF Remove
  <2> QED BY <1>1, <2>1, NotedWalks, WritesKeep
<1> QED BY <1>6, <1>7, <1>8, <1>9, <1>10

-----------------------------------------------------------------------------
LEMMA WalkInvStep == WalkInv /\ [PagingNext]_pagingVars => WalkInv'
<1> SUFFICES ASSUME WalkInv, [PagingNext]_pagingVars PROVE WalkInv' OBVIOUS
<1>1. ASSUME walk' = walk, listings' = listings, clock' \in Time PROVE WalkInv'
  BY <1>1 DEF WalkInv, PagingTypeOK, WalkOK, ListedOK, Steady, Exists, Position, OnlyLoweredAreRepeated
<1>2. CASE UNCHANGED pagingVars
  BY <1>1, <1>2 DEF pagingVars, WalkInv, PagingTypeOK
<1>3. CASE PagingTick
  <2>1. clock' \in Time BY <1>3, PagingAssumption DEF PagingTick, WalkInv, PagingTypeOK, Time
  <2> QED BY <1>1, <1>3, <2>1 DEF PagingTick
<1>4. ASSUME NEW w \in Walks, WalkNext(w) PROVE WalkInv'
  BY <1>4, BeginKeeps, DecideKeeps, SelectPageKeeps, SelectLastPageKeeps DEF WalkNext
<1> QED BY <1>2, <1>3, <1>4, WritersKeep DEF PagingNext

(* The inductive invariant: the cursor of a walk separates the steady      *)
(* listings it has returned from those it has yet to return.               *)
THEOREM CursorSeparates == PagingSpec => []WalkInv
BY PagingStart, WalkInvStep, PTL DEF PagingSpec

(* A listing comes back on a later page only if an edit or a re-sync moved *)
(* it down in between (list_listings and its cursors).                     *)
THEOREM RepeatsAreLowered == PagingSpec => []OnlyLoweredAreRepeated
<1>1. WalkInv => OnlyLoweredAreRepeated BY DEF WalkInv
<1> QED BY <1>1, CursorSeparates, PTL

(* A page that is the last one returned every candidate. *)
LEMMA LastPageIsComplete ==
    ASSUME NEW w \in Walks, NEW page \in Pages(w), page = {} \/ ~HasMore(page, w)
    PROVE  page = Candidates(w)
<1>1. CASE page = {}
  <2>1. Cardinality(page) # Limit BY <1>1, FS_EmptySet, PagingAssumption
  <2> QED BY <2>1 DEF Pages
<1> QED BY <1>1 DEF HasMore

LEMMA EndsHavingSeenAll ==
    ASSUME WalkInv, NEW w \in Walks, NEW i \in Ids, SelectLastPage(w), Steady(w, i)
    PROVE  i \in walk'[w].seen
<1>1. PICK page \in Pages(w) :
        /\ page = {} \/ ~HasMore(page, w)
        /\ walk' = [walk EXCEPT ![w] = [Returned(w, page) EXCEPT !.pc = "ended"]]
  BY DEF SelectLastPage
<1>2. walk[w] \in Walk /\ WalkOK(w) /\ walk[w].pc = "select"
  BY DEF WalkInv, PagingTypeOK, SelectLastPage
<1>3. walk'[w].seen = walk[w].seen \cup page
  BY <1>1 DEF Returned, WalkInv, PagingTypeOK, Walk
<1>4. page = Candidates(w) BY <1>1, LastPageIsComplete
<1>5. i \in walk[w].seen \/ i \in Candidates(w)
  BY <1>2 DEF WalkOK, ListedOK, Steady, Candidates
<1> QED BY <1>3, <1>4, <1>5

(* Every write is noted in the walks. *)
LEMMA WritesAreNoted == WriteNext => \E j \in Ids : Noted(j) \/ \E row : NotedLowering(j, row)
<1> SUFFICES ASSUME NEW j \in Ids,
                    \/ \E now, text : Insert(j, now, text)
                    \/ \E now : RecordHeartbeat(j, now)
                    \/ \E now, text, active : Update(j, now, text, active)
                    \/ \E text : Resync(j, text)
                    \/ Remove(j)
             PROVE  Noted(j) \/ \E row : NotedLowering(j, row)
  BY DEF WriteNext
<1>1. \A now, text : Insert(j, now, text) => Noted(j) BY DEF Insert
<1>2. \A now : RecordHeartbeat(j, now) => Noted(j) BY DEF RecordHeartbeat
<1>3. \A now, text, active : Update(j, now, text, active) => \E row : NotedLowering(j, row)
  BY DEF Update
<1>4. \A text : Resync(j, text) => \E row : NotedLowering(j, row) BY DEF Resync
<1> QED BY <1>1, <1>2, <1>3, <1>4 DEF Remove

LEMMA StepsSkipNothing == WalkInv /\ [PagingNext]_pagingVars => [SteadyWereSeen]_pagingVars
<1> SUFFICES ASSUME WalkInv, PagingNext, NEW w \in Walks, NEW i \in Ids,
                    walk[w].pc # "ended", walk'[w].pc = "ended", Steady(w, i)
             PROVE  i \in walk'[w].seen
  BY DEF SteadyWereSeen
<1>1. WalkInv /\ walk \in [Walks -> Walk] BY DEF WalkInv, PagingTypeOK
<1>2. SelectLastPage(w)
  <2>1. CASE WriteNext
    <3>1. \E j \in Ids : Noted(j) \/ \E row : NotedLowering(j, row) BY <2>1, WritesAreNoted
    <3>2. ASSUME NEW j \in Ids, Noted(j) PROVE walk'[w].pc = walk[w].pc
      BY <1>1, <3>2 DEF Noted, Walk
    <3>3. ASSUME NEW j \in Ids, NEW row, NotedLowering(j, row) PROVE walk'[w].pc = walk[w].pc
      BY <1>1, <3>3 DEF NotedLowering, Walk
    <3> QED BY <3>1, <3>2, <3>3
  <2>2. CASE PagingTick BY <2>2 DEF PagingTick
  <2>3. ASSUME NEW u \in Walks, WalkNext(u) PROVE SelectLastPage(w)
    <3>1. CASE SelectLastPage(u)
      BY <1>1, <3>1 DEF SelectLastPage
    <3>2. CASE \E q \in Queries \cup {NoQuery} : Begin(u, q)
      BY <1>1, <3>2 DEF Begin, NewWalk
    <3>3. CASE DecideMode(u) \/ DecideActivity(u)
      BY <1>1, <3>3 DEF DecideMode, DecideActivity, Walk
    <3>4. CASE SelectPage(u)
      BY <1>1, <3>4 DEF SelectPage, Returned, Walk
    <3> QED BY <2>3, <3>1, <3>2, <3>3, <3>4 DEF WalkNext
  <2> QED BY <2>1, <2>2, <2>3 DEF PagingNext
<1> QED BY <1>2, EndsHavingSeenAll

(* What one step of walk u does to a cursor that is there before and after. *)
LEMMA MovesDescend ==
    ASSUME WalkInv, NEW u \in Walks, WalkNext(u), walk[u].started, walk'[u].started
    PROVE  /\ walk'[u].mode = walk[u].mode /\ walk'[u].q = walk[u].q
           /\ walk'[u].cursor # walk[u].cursor => Below(walk'[u].cursor, walk[u].cursor)
<1>1. walk \in [Walks -> Walk] /\ walk[u] \in Walk /\ WalkOK(u) BY DEF WalkInv, PagingTypeOK
<1>2. CASE \E q \in Queries \cup {NoQuery} : Begin(u, q)
  BY <1>1, <1>2 DEF Begin, NewWalk
<1>3. CASE DecideMode(u) BY <1>1, <1>3 DEF DecideMode, Walk
<1>4. CASE DecideActivity(u)
  <2>1. walk[u].mode = "activity" BY <1>1, <1>4 DEF DecideActivity, WalkOK, Walk, Modes
  <2> QED BY <1>1, <1>4, <2>1 DEF DecideActivity, Walk
<1>5. CASE SelectPage(u)
  <2>1. walk'[u].mode = walk[u].mode /\ walk'[u].q = walk[u].q
    BY <1>1, <1>5 DEF SelectPage, Returned, Walk
  <2> QED BY <1>5, <2>1, SelectPageKeeps
<1>6. CASE SelectLastPage(u)
  BY <1>1, <1>6 DEF SelectLastPage, Returned, Walk
<1> QED BY <1>2, <1>3, <1>4, <1>5, <1>6 DEF WalkNext

(* A step of walk u leaves walk w alone, and a write every cursor. *)
LEMMA OthersKeepCursors ==
    ASSUME WalkInv, NEW w \in Walks,
           PagingTick \/ WriteNext \/ \E u \in Walks \ {w} : WalkNext(u)
    PROVE  /\ walk'[w].mode = walk[w].mode /\ walk'[w].q = walk[w].q
           /\ walk'[w].cursor = walk[w].cursor
<1>1. walk \in [Walks -> Walk] BY DEF WalkInv, PagingTypeOK
<1>2. CASE PagingTick BY <1>2 DEF PagingTick
<1>3. CASE WriteNext
  <2>1. PICK j \in Ids : Noted(j) \/ \E row : NotedLowering(j, row) BY <1>3, WritesAreNoted
  <2>2. ASSUME Noted(j)
        PROVE  /\ walk'[w].mode = walk[w].mode /\ walk'[w].q = walk[w].q
               /\ walk'[w].cursor = walk[w].cursor
    BY <1>1, <2>2 DEF Noted, Walk
  <2>3. ASSUME NEW row, NotedLowering(j, row)
        PROVE  /\ walk'[w].mode = walk[w].mode /\ walk'[w].q = walk[w].q
               /\ walk'[w].cursor = walk[w].cursor
    BY <1>1, <2>3 DEF NotedLowering, Walk
  <2> QED BY <2>1, <2>2, <2>3
<1>4. ASSUME NEW u \in Walks \ {w}, WalkNext(u) PROVE walk'[w] = walk[w]
  BY <1>1, <1>4 DEF WalkNext, Begin, DecideMode, DecideActivity, SelectPage, SelectLastPage
<1> QED BY <1>2, <1>3, <1>4

(* Cursors only move down, and keep their query and mode.                  *)
THEOREM CursorsMoveDown == PagingSpec => CursorsDescend
<1>1. WalkInv /\ [PagingNext]_pagingVars => [CursorDescends]_pagingVars
  <2> SUFFICES ASSUME WalkInv, PagingNext, NEW w \in Walks, walk[w].started, walk'[w].started
               PROVE  /\ walk'[w].mode = walk[w].mode /\ walk'[w].q = walk[w].q
                      /\ walk'[w].cursor # walk[w].cursor => Below(walk'[w].cursor, walk[w].cursor)
    BY DEF CursorDescends
  <2>1. CASE WalkNext(w) BY <2>1, MovesDescend
  <2>2. CASE PagingTick \/ WriteNext \/ \E u \in Walks \ {w} : WalkNext(u)
    BY <2>2, OthersKeepCursors
  <2> QED BY <2>1, <2>2 DEF PagingNext
<1> QED BY <1>1, CursorSeparates, PTL DEF PagingSpec, CursorsDescend

(* A walk that ends has returned every listing that stayed put, whatever   *)
(* happened to the others (README: no skips).                              *)
THEOREM SteadyNeverSkipped == PagingSpec => NothingSteadyIsSkipped
BY CursorSeparates, StepsSkipNothing, PTL DEF PagingSpec, NothingSteadyIsSkipped

-----------------------------------------------------------------------------
(* Badges. *)


(* In the first state there is nothing to date. *)
LEMMA DatedInit == BadgeInit => DatedBeforeRead
  BY BadgeAssumption DEF BadgeInit, DatedBeforeRead, BadgeTypeOK, Entries, Times, NoEntry, Idle

(* Each step keeps the order of the three times: an entry's date, the      *)
(* moment its answer was read, and now.                                    *)
LEMMA DatedStep == DatedBeforeRead /\ [BadgeNext]_badgeVars => DatedBeforeRead'
<1> SUFFICES ASSUME DatedBeforeRead, [BadgeNext]_badgeVars
             PROVE  DatedBeforeRead'
  OBVIOUS
<1> DEFINE Typed == [pc : {"idle", "asked", "answered"}, agent : Agents \cup {"none"},
                     now : Times, read : Times, ok : BOOLEAN]
<1> USE DEF DatedBeforeRead
<1>0. /\ monotonic \in 0 .. MaxClock /\ MaxClock \in Nat /\ Times \subseteq Nat /\ monotonic \in Times /\ 0 \in Times
      /\ cache \in [Agents -> Entries] /\ begun \in [Agents -> [Times -> Nat]]
      /\ lookup \in [Lookups -> Typed]
      /\ \A l \in Lookups : lookup[l].pc # "idle" => lookup[l].agent \in Agents
  BY BadgeAssumption DEF BadgeTypeOK, Times
<1>1. ASSUME NEW l \in Lookups, NEW a \in Agents, Ask(l, a)
      PROVE  DatedBeforeRead'
  <2>1. begun' \in [Agents -> [Times -> Nat]]
    BY <1>0, <1>1 DEF Ask
  <2>2. /\ lookup' \in [Lookups -> Typed]
        /\ \A m \in Lookups : m # l => lookup'[m] = lookup[m]
        /\ lookup'[l].pc = "asked" /\ lookup'[l].agent = a /\ lookup'[l].now = monotonic
    BY <1>0, <1>1 DEF Ask
  <2>3. UNCHANGED <<monotonic, cache>>
    BY <1>1 DEF Ask
  <2>4. BadgeTypeOK'
    BY <1>0, <2>1, <2>2, <2>3 DEF BadgeTypeOK
  <2>5. QED
    BY <1>0, <2>2, <2>3, <2>4
<1>2. ASSUME NEW l \in Lookups, NEW ok \in BOOLEAN, Answer(l, ok)
      PROVE  DatedBeforeRead'
  <2>1. /\ lookup' \in [Lookups -> Typed]
        /\ \A m \in Lookups : m # l => lookup'[m] = lookup[m]
        /\ lookup'[l].agent = lookup[l].agent /\ lookup'[l].now = lookup[l].now
        /\ lookup'[l].pc = "answered" /\ lookup'[l].read = monotonic /\ lookup[l].pc = "asked"
    <3> DEFINE c == [lookup[l] EXCEPT !.pc = "answered", !.read = monotonic, !.ok = ok]
    <3>1. lookup[l] \in Typed /\ monotonic \in Times
      BY <1>0
    <3>2. /\ c \in Typed /\ c.agent = lookup[l].agent /\ c.now = lookup[l].now
          /\ c.pc = "answered" /\ c.read = monotonic
      BY <3>1
    <3>3. lookup' = [lookup EXCEPT ![l] = c] /\ lookup[l].pc = "asked"
      BY <1>2 DEF Answer
    <3> HIDE DEF c
    <3> QED
      BY <1>0, <3>2, <3>3
  <2>2. UNCHANGED <<monotonic, cache, begun>>
    BY <1>2 DEF Answer
  <2>3. BadgeTypeOK'
    BY <1>0, <2>1, <2>2 DEF BadgeTypeOK
  <2>4. QED
    BY <1>0, <2>1, <2>2, <2>3
<1>3. ASSUME NEW l \in Lookups, Store(l)
      PROVE  DatedBeforeRead'
  <2>1. /\ lookup' \in [Lookups -> Typed]
        /\ \A m \in Lookups : m # l => lookup'[m] = lookup[m]
        /\ lookup'[l].pc = "idle"
    BY <1>0, <1>3 DEF Store, Idle
  <2>2. /\ lookup[l].agent \in Agents /\ lookup[l] \in Typed
        /\ lookup[l].now <= lookup[l].read /\ lookup[l].read <= monotonic
    BY <1>0, <1>3 DEF Store
  <2>3. EntryOf(lookup[l]) \in Entries
    BY <2>2 DEF EntryOf, Entries
  <2>4. /\ cache' = [cache EXCEPT ![lookup[l].agent] = EntryOf(lookup[l])]
        /\ UNCHANGED <<monotonic, begun>>
    BY <1>3 DEF Store
  <2>5. BadgeTypeOK'
    BY <1>0, <2>1, <2>3, <2>4 DEF BadgeTypeOK
  <2>6. \A a \in Agents : cache'[a].at <= cache'[a].read /\ cache'[a].read <= monotonic'
    BY <1>0, <2>2, <2>4 DEF EntryOf
  <2>7. \A m \in Lookups :
          /\ lookup'[m].pc # "idle" => lookup'[m].now <= monotonic'
          /\ lookup'[m].pc = "answered" => lookup'[m].now <= lookup'[m].read /\ lookup'[m].read <= monotonic'
    BY <2>1, <2>4
  <2>8. QED
    BY <2>5, <2>6, <2>7
<1>4. CASE BadgeTick
  <2>1. /\ monotonic' = monotonic + 1 /\ monotonic' \in Times
        /\ UNCHANGED <<cache, lookup, begun>>
    BY <1>0, <1>4 DEF BadgeTick, Times
  <2>2. BadgeTypeOK'
    BY <1>0, <2>1 DEF BadgeTypeOK
  <2>3. ASSUME NEW a \in Agents
        PROVE  cache[a].read \in Int
    <3>1. cache[a] \in [at : Times, read : Times, ok : BOOLEAN] \/ cache[a] = NoEntry
      BY <1>0 DEF Entries
    <3>2. CASE cache[a] \in [at : Times, read : Times, ok : BOOLEAN]
      <4>1. cache[a].read \in Times
        BY <3>2
      <4>2. QED
        BY <4>1 DEF Times
    <3>3. CASE cache[a] = NoEntry
      BY <3>3 DEF NoEntry
    <3>4. QED
      BY <3>1, <3>2, <3>3
  <2>4. \A l \in Lookups : lookup[l].now \in Nat /\ lookup[l].read \in Nat
    BY <1>0
  <2>5. ASSUME NEW a \in Agents
        PROVE  cache'[a].at <= cache'[a].read /\ cache'[a].read <= monotonic'
    <3>1. cache[a].at <= cache[a].read /\ cache[a].read <= monotonic /\ monotonic \in Int
      BY <1>0
    <3>2. QED
      BY <2>1, <2>3, <3>1
  <2>6. ASSUME NEW l \in Lookups
        PROVE  /\ lookup'[l].pc # "idle" => lookup'[l].now <= monotonic'
               /\ lookup'[l].pc = "answered" => lookup'[l].now <= lookup'[l].read /\ lookup'[l].read <= monotonic'
    <3>1. /\ monotonic \in Int
          /\ lookup[l].pc # "idle" => lookup[l].now <= monotonic
          /\ lookup[l].pc = "answered" => lookup[l].now <= lookup[l].read /\ lookup[l].read <= monotonic
      BY <1>0
    <3>2. QED
      BY <2>1, <2>4, <3>1
  <2>7. QED
    BY <2>2, <2>5, <2>6
<1>5. CASE UNCHANGED badgeVars
  BY <1>5 DEF badgeVars, BadgeTypeOK
<1>6. QED
  BY <1>1, <1>2, <1>3, <1>4, <1>5 DEF BadgeNext, Finishes

(* An entry, and every answer on its way to becoming one, is dated before  *)
(* the service was read.                                                   *)
THEOREM EntriesAreDatedBeforeRead == BadgeSpec => []DatedBeforeRead
  BY DatedInit, DatedStep, PTL DEF BadgeSpec

(* What the cache shows was read less than one TTL ago. *)
THEOREM ShownBadgesAreRecent == BadgeSpec => []ShownIsRecent
<1>1. DatedBeforeRead => ShownIsRecent
  <2> SUFFICES ASSUME DatedBeforeRead, NEW a \in Agents, Fresh(a)
               PROVE  monotonic - cache[a].read < TTL
    BY DEF ShownIsRecent
  <2>1. cache[a].at \in Int /\ cache[a].read \in Int /\ monotonic \in Int /\ TTL \in Int
    BY BadgeAssumption DEF DatedBeforeRead, BadgeTypeOK, Entries, NoEntry, Times
  <2>2. monotonic - cache[a].at < TTL /\ cache[a].at <= cache[a].read
    BY DEF Fresh, DatedBeforeRead
  <2>3. QED
    BY <2>1, <2>2
<1>2. QED
  BY <1>1, EntriesAreDatedBeforeRead, PTL

(* What an agent costs in one TTL.  Of the lookups of an agent under way,  *)
(* those begun before t can still set the entry's time back behind t, each *)
(* once; as long as the entry is that old, each lookup that is not under   *)
(* way may be the next to miss.                                            *)
UnderWay(a) == {l \in Lookups : lookup[l].pc # "idle" /\ lookup[l].agent = a}
BegunBefore(a, t) == {l \in UnderWay(a) : lookup[l].now < t}
BegunInside(a, t) == {l \in UnderWay(a) : t <= lookup[l].now /\ lookup[l].now < t + TTL}
Window(t) == {s \in Times : t <= s /\ s < t + TTL}

(* Twice what those of k begun before t can bring about, of c lookups.     *)
Room(c, k) == 2 * c * k - k * (k - 1)

SpendsWithin(a, t) ==
    LET c == Cardinality(Lookups)
        k == Cardinality(BegunBefore(a, t))
        m == Cardinality(BegunInside(a, t))
    IN  2 * BegunWithin(a, t) + Room(c, k) + (IF cache[a].at < t THEN 2 * (c - k - m) ELSE 0) <= c * (c + 1)

NothingBegunAhead == \A a \in Agents, s \in Times : s > monotonic => begun[a][s] = 0

SpendingInv ==
    /\ DatedBeforeRead
    /\ NothingBegunAhead
    /\ \A a \in Agents, t \in Times : SpendsWithin(a, t)

(* The arithmetic of it.                                                   *)
LEMMA SquareIsLarger == ASSUME NEW d \in Nat PROVE d * d \in Nat /\ d <= d * d
<1>1. CASE d = 0
    BY <1>1
<1>2. CASE d >= 1
  <2>1. d - 1 \in Nat /\ d * d - d = d * (d - 1)
      BY <1>2
  <2>2. d * (d - 1) \in Nat /\ d * d \in Nat
      BY <2>1
  <2> QED
      BY <2>1, <2>2
<1> QED
    BY <1>1, <1>2

LEMMA RoomAtFirst ==
    ASSUME NEW c \in Nat, NEW k \in Nat, k <= c
    PROVE  Room(c, k) + 2 * (c - k) <= c * (c + 1)
<1> DEFINE d == c - k
           X == Room(c, k)
           Y == c * (c + 1)
           Z == d * d
<1>1. d \in Nat /\ c = k + d
    OBVIOUS
<1>2. Y - (X + 2 * d) = Z - d
    BY <1>1 DEF Room
<1>3. Z \in Nat /\ d <= Z
    BY <1>1, SquareIsLarger
<1>4. X \in Int /\ Y \in Int
    BY DEF Room
<1>5. X + 2 * d <= Y
  <2> HIDE DEF d, X, Y, Z
  <2> QED
      BY <1>1, <1>2, <1>3, <1>4
<1> QED
    BY <1>5

LEMMA RoomIsNat ==
    ASSUME NEW c \in Nat, NEW k \in Nat, k <= c
    PROVE  Room(c, k) \in Nat
<1> DEFINE d == c - k
           U == k * k
           V == d * k
<1>1. d \in Nat /\ c = k + d
    OBVIOUS
<1>2. 2 * c * k - k * (k - 1) = U + 2 * V + k
    BY <1>1
<1>3. U \in Nat /\ V \in Nat
    BY <1>1
<1>4. U + 2 * V + k \in Nat
  <2> HIDE DEF U, V
  <2> QED
      BY <1>3
<1> QED
    BY <1>2, <1>4 DEF Room

LEMMA OneLessRoom ==
    ASSUME NEW c \in Nat, NEW k \in Nat
    PROVE  Room(c, k - 1) = Room(c, k) - 2 * c + 2 * (k - 1)
    BY DEF Room

LEMMA WindowIsFinite == ASSUME NEW t PROVE IsFiniteSet(Window(t))
<1>1. IsFiniteSet(Times) /\ Window(t) \subseteq Times
    BY BadgeAssumption, FS_Interval DEF Times, Window
<1> QED
    BY <1>1, FS_Subset

LEMMA UnderWayCounted ==
    ASSUME DatedBeforeRead, NEW a \in Agents, NEW t \in Times
    PROVE  /\ IsFiniteSet(BegunBefore(a, t)) /\ IsFiniteSet(BegunInside(a, t))
           /\ Cardinality(BegunBefore(a, t)) \in Nat /\ Cardinality(BegunInside(a, t)) \in Nat
           /\ Cardinality(Lookups) \in Nat
           /\ Cardinality(BegunBefore(a, t)) + Cardinality(BegunInside(a, t)) <= Cardinality(Lookups)
           /\ BegunWithin(a, t) \in Nat
<1> DEFINE B == BegunBefore(a, t)
           I == BegunInside(a, t)
<1>1. t \in Nat /\ TTL \in Nat /\ IsFiniteSet(Lookups)
    BY BadgeAssumption DEF Times
<1>2. \A l \in Lookups : lookup[l].now \in Nat
    BY BadgeAssumption DEF DatedBeforeRead, BadgeTypeOK, Times
<1>3. B \subseteq Lookups /\ I \subseteq Lookups /\ B \cap I = {}
    BY <1>1, <1>2 DEF BegunBefore, BegunInside, UnderWay
<1> HIDE DEF B, I
<1>4. /\ IsFiniteSet(B) /\ IsFiniteSet(I) /\ Cardinality(B) \in Nat /\ Cardinality(I) \in Nat
      /\ Cardinality(Lookups) \in Nat
    BY <1>1, <1>3, FS_Subset, FS_CardinalityType
<1>5. Cardinality(B \cup I) = Cardinality(B) + Cardinality(I)
  <2>1. Cardinality(B \cup I) = Cardinality(B) + Cardinality(I) - Cardinality(B \cap I)
      BY <1>4, FS_Union
  <2>2. Cardinality(B \cap I) = 0
      BY <1>3, FS_EmptySet
  <2> QED
      BY <1>4, <2>1, <2>2
<1>6. Cardinality(B \cup I) <= Cardinality(Lookups)
    BY <1>1, <1>3, FS_Subset
<1>7. BegunWithin(a, t) = SumOver(begun[a], Window(t))
    BY DEF BegunWithin, Window, SumOver
<1>8. SumOver(begun[a], Window(t)) \in Nat
    BY WindowIsFinite, SumType DEF DatedBeforeRead, BadgeTypeOK, Window
<1> QED
    BY <1>4, <1>5, <1>6, <1>7, <1>8 DEF B, I

LEMMA WithinIsSum ==
    ASSUME NEW a, NEW t
    PROVE  /\ BegunWithin(a, t) = SumOver(begun[a], Window(t))
           /\ BegunWithin(a, t)' = SumOver(begun'[a], Window(t))
    BY DEF BegunWithin, Window, SumOver, MapThenSumSet, MapThenFoldSet

(* What is still ahead has cost nothing yet.                               *)
AheadSpendsWithin == \A a \in Agents, t \in Times : monotonic < t => SpendsWithin(a, t)

LEMMA AheadNow == DatedBeforeRead /\ NothingBegunAhead => AheadSpendsWithin
<1> SUFFICES ASSUME DatedBeforeRead, NothingBegunAhead, NEW a \in Agents, NEW t \in Times, monotonic < t
             PROVE  SpendsWithin(a, t)
    BY DEF AheadSpendsWithin
<1> DEFINE c == Cardinality(Lookups)
           k == Cardinality(BegunBefore(a, t))
           m == Cardinality(BegunInside(a, t))
           most == c * (c + 1)
<1>1. /\ t \in Nat /\ TTL \in Nat /\ monotonic \in Nat
      /\ \A l \in Lookups : lookup[l].now \in Nat /\ (lookup[l].pc # "idle" => lookup[l].now <= monotonic)
    BY BadgeAssumption DEF DatedBeforeRead, BadgeTypeOK, Times
<1>2. BegunInside(a, t) = {}
    BY <1>1 DEF BegunInside, UnderWay
<1>3. cache[a].at < t
  <2>1. cache[a].at \in Int /\ cache[a].read \in Int
      BY DEF DatedBeforeRead, BadgeTypeOK, Entries, NoEntry, Times
  <2>2. cache[a].at <= cache[a].read /\ cache[a].read <= monotonic
      BY DEF DatedBeforeRead
  <2> QED
      BY <1>1, <2>1, <2>2
<1>4. BegunWithin(a, t) = 0
  <2>1. \A s \in Window(t) : begun[a][s] = 0
      BY <1>1 DEF NothingBegunAhead, Window, Times
  <2>2. SumOver(begun[a], Window(t)) = 0
      BY <2>1, WindowIsFinite, SumOfNothing
  <2> QED
      BY <2>2, WithinIsSum
<1>5. m = 0
    BY <1>2, FS_EmptySet
<1>6. c \in Nat /\ k \in Nat /\ k <= c
    BY <1>5, UnderWayCounted
<1>7. Room(c, k) + 2 * (c - k) <= most /\ Room(c, k) \in Nat
    BY <1>6, RoomAtFirst, RoomIsNat
<1>8. 2 * BegunWithin(a, t) + Room(c, k) + (IF cache[a].at < t THEN 2 * (c - k - m) ELSE 0) <= most
  <2> HIDE DEF c, k, m, most
  <2> QED
      BY <1>3, <1>4, <1>5, <1>6, <1>7
<1> QED
    BY <1>8 DEF SpendsWithin

LEMMA AheadNext == DatedBeforeRead' /\ NothingBegunAhead' => AheadSpendsWithin'
    BY AheadNow, PTL

(* A step that leaves alone what counts for a and t.                       *)
LEMMA SpendsAsBefore ==
    ASSUME NEW a \in Agents, NEW t \in Times, SpendsWithin(a, t),
           BegunBefore(a, t)' = BegunBefore(a, t), BegunInside(a, t)' = BegunInside(a, t),
           \A s \in Window(t) : begun'[a][s] = begun[a][s], cache'[a] = cache[a]
    PROVE  SpendsWithin(a, t)'
<1>1. SumOver(begun[a], Window(t)) = SumOver(begun'[a], Window(t))
    BY WindowIsFinite, SumOfSame
<1>2. BegunWithin(a, t)' = BegunWithin(a, t)
    BY <1>1, WithinIsSum
<1> QED
    BY <1>2 DEF SpendsWithin

(* A miss.  It finds no fresh entry, so inside the window it finds one     *)
(* from before the window.                                                 *)
LEMMA AskSpendsWithin ==
    ASSUME SpendingInv, AheadSpendsWithin', NEW l \in Lookups, NEW b \in Agents, Ask(l, b),
           NEW a \in Agents, NEW t \in Times
    PROVE  SpendsWithin(a, t)'
<1> DEFINE c == Cardinality(Lookups)
           k == Cardinality(BegunBefore(a, t))
           m == Cardinality(BegunInside(a, t))
           most == c * (c + 1)
<1>0. DatedBeforeRead /\ SpendsWithin(a, t)
    BY DEF SpendingInv
<1>7. \A i \in Lookups : lookup[i].now \in Nat
    BY <1>0, BadgeAssumption DEF DatedBeforeRead, BadgeTypeOK, Times
<1>8. /\ t \in Nat /\ TTL \in Nat /\ monotonic \in Nat /\ monotonic \in Times
      /\ begun \in [Agents -> [Times -> Nat]]
  <2>1. BadgeTypeOK
      BY <1>0 DEF DatedBeforeRead
  <2>2. monotonic \in Nat /\ monotonic \in Times
      BY <2>1, BadgeAssumption DEF BadgeTypeOK, Times
  <2>3. begun \in [Agents -> [Times -> Nat]]
      BY <2>1 DEF BadgeTypeOK
  <2>4. t \in Nat /\ TTL \in Nat
      BY BadgeAssumption DEF Times
  <2> QED
      BY <2>2, <2>3, <2>4
<1>1. /\ DatedBeforeRead /\ SpendsWithin(a, t)
      /\ t \in Nat /\ TTL \in Nat /\ monotonic \in Nat /\ monotonic \in Times
      /\ \A i \in Lookups : lookup[i].now \in Nat
      /\ begun \in [Agents -> [Times -> Nat]]
    BY <1>0, <1>7, <1>8
<1>2. /\ lookup[l].pc = "idle" /\ lookup'[l].pc = "asked" /\ lookup'[l].agent = b /\ lookup'[l].now = monotonic
      /\ \A i \in Lookups \ {l} : lookup'[i] = lookup[i]
      /\ monotonic' = monotonic /\ cache' = cache
      /\ begun' = [begun EXCEPT ![b][monotonic] = @ + 1]
  <2>1. /\ lookup[l].pc = "idle" /\ monotonic' = monotonic /\ cache' = cache
        /\ begun' = [begun EXCEPT ![b][monotonic] = @ + 1]
      BY DEF Ask
  <2>2. PICK T : lookup \in [Lookups -> T]
      BY <1>0 DEF DatedBeforeRead, BadgeTypeOK
  <2> DEFINE x == [pc |-> "asked", agent |-> b, now |-> monotonic, read |-> 0, ok |-> FALSE]
  <2>3. lookup' = [lookup EXCEPT ![l] = x]
      BY DEF Ask
  <2>4. x.pc = "asked" /\ x.agent = b /\ x.now = monotonic
      OBVIOUS
  <2> HIDE DEF x
  <2>5. lookup'[l] = x /\ \A i \in Lookups \ {l} : lookup'[i] = lookup[i]
      BY <2>2, <2>3
  <2> QED
      BY <2>1, <2>4, <2>5
<1>3. CASE monotonic < t
    BY <1>2, <1>3 DEF AheadSpendsWithin
<1>4. CASE a # b
  <2>1. BegunBefore(a, t)' = BegunBefore(a, t) /\ BegunInside(a, t)' = BegunInside(a, t)
      BY <1>2, <1>4 DEF BegunBefore, BegunInside, UnderWay
  <2> QED
      BY <1>1, <1>2, <1>4, <2>1, SpendsAsBefore
<1>5. CASE a = b /\ t + TTL <= monotonic
  <2>1. BegunBefore(a, t)' = BegunBefore(a, t) /\ BegunInside(a, t)' = BegunInside(a, t)
      BY <1>1, <1>2, <1>5 DEF BegunBefore, BegunInside, UnderWay
  <2>2. \A s \in Window(t) : begun'[a][s] = begun[a][s]
      BY <1>1, <1>2, <1>5 DEF Window, Times
  <2> QED
      BY <1>1, <1>2, <2>1, <2>2, SpendsAsBefore
<1>6. CASE a = b /\ t <= monotonic /\ monotonic < t + TTL
  <2>1. BegunBefore(a, t)' = BegunBefore(a, t)
      BY <1>1, <1>2, <1>6 DEF BegunBefore, UnderWay
  <2>2. BegunInside(a, t)' = BegunInside(a, t) \cup {l} /\ l \notin BegunInside(a, t)
      BY <1>1, <1>2, <1>6 DEF BegunInside, UnderWay
  <2>3. Cardinality(BegunInside(a, t))' = m + 1
    <3>1. IsFiniteSet(BegunInside(a, t))
        BY <1>1, UnderWayCounted
    <3>2. Cardinality(BegunInside(a, t) \cup {l}) = Cardinality(BegunInside(a, t)) + 1
        BY <2>2, <3>1, FS_AddElement
    <3> QED
        BY <2>2, <3>2
  <2>4. BegunWithin(a, t)' = BegunWithin(a, t) + 1
    <3>1. monotonic \in Window(t)
        BY <1>1, <1>6 DEF Window
    <3>2. \A s \in Window(t) : begun[a][s] \in Nat /\ begun'[a][s] = IF s = monotonic THEN begun[a][s] + 1 ELSE begun[a][s]
        BY <1>1, <1>2, <1>6 DEF Window
    <3>3. SumOver(begun'[a], Window(t)) = SumOver(begun[a], Window(t)) + 1
        BY <3>1, <3>2, WindowIsFinite, SumOfOneMore
    <3> QED
        BY <3>3, WithinIsSum
  <2>5. cache[a].at < t
    <3>1. CASE cache[a] = NoEntry
        BY <1>1, <3>1 DEF NoEntry
    <3>2. CASE cache[a] # NoEntry
      <4>1. ~(monotonic - cache[a].at < TTL)
          BY <1>6, <3>2 DEF Ask, Fresh
      <4>2. cache[a].at \in Int
          BY <1>1 DEF DatedBeforeRead, BadgeTypeOK, Entries, NoEntry, Times
      <4> QED
          BY <1>1, <1>6, <4>1, <4>2
    <3> QED
        BY <3>1, <3>2
  <2>6. c \in Nat /\ k \in Nat /\ m \in Nat /\ k + m <= c /\ BegunWithin(a, t) \in Nat
      BY <1>1, UnderWayCounted
  <2>7. 2 * BegunWithin(a, t) + Room(c, k) + 2 * (c - k - m) <= most
      BY <1>1, <2>5 DEF SpendsWithin
  <2>8. Room(c, k) \in Nat /\ most \in Nat
      BY <2>6, RoomIsNat
  <2>9. 2 * (BegunWithin(a, t) + 1) + Room(c, k) + 2 * (c - k - (m + 1)) <= most
    <3> HIDE DEF c, k, m, most
    <3> QED
        BY <2>6, <2>7, <2>8
  <2> QED
      BY <1>2, <2>1, <2>3, <2>4, <2>5, <2>9 DEF SpendsWithin
<1> QED
    BY <1>1, <1>3, <1>4, <1>5, <1>6

(* An answer is stored.  One begun before the window sets the entry's time *)
(* back and will not do so again, every other one leaves a recent entry.   *)
LEMMA StoreSpendsWithin ==
    ASSUME SpendingInv, NEW l \in Lookups, Store(l), NEW a \in Agents, NEW t \in Times
    PROVE  SpendsWithin(a, t)'
<1> DEFINE c == Cardinality(Lookups)
           k == Cardinality(BegunBefore(a, t))
           m == Cardinality(BegunInside(a, t))
           most == c * (c + 1)
<1>0. DatedBeforeRead /\ SpendsWithin(a, t)
    BY DEF SpendingInv
<1>7. \A i \in Lookups : lookup[i].now \in Nat
    BY <1>0, BadgeAssumption DEF DatedBeforeRead, BadgeTypeOK, Times
<1>8. t \in Nat /\ TTL \in Nat /\ cache \in [Agents -> Entries]
    BY <1>0, BadgeAssumption DEF DatedBeforeRead, BadgeTypeOK, Times
<1>1. /\ DatedBeforeRead /\ SpendsWithin(a, t)
      /\ t \in Nat /\ TTL \in Nat
      /\ \A i \in Lookups : lookup[i].now \in Nat
      /\ cache \in [Agents -> Entries]
    BY <1>0, <1>7, <1>8
<1>2. /\ lookup[l].pc = "answered" /\ lookup'[l].pc = "idle" /\ lookup[l].agent \in Agents
      /\ \A i \in Lookups \ {l} : lookup'[i] = lookup[i]
      /\ begun' = begun
      /\ cache' = [cache EXCEPT ![lookup[l].agent] = EntryOf(lookup[l])]
    BY DEF Store, Idle, SpendingInv, DatedBeforeRead, BadgeTypeOK
<1>3. CASE lookup[l].agent # a
  <2>1. BegunBefore(a, t)' = BegunBefore(a, t) /\ BegunInside(a, t)' = BegunInside(a, t)
      BY <1>2, <1>3 DEF BegunBefore, BegunInside, UnderWay
  <2>2. cache'[a] = cache[a]
      BY <1>1, <1>2, <1>3
  <2> QED
      BY <1>1, <1>2, <2>1, <2>2, SpendsAsBefore
<1>4. CASE lookup[l].agent = a
  <2>1. cache'[a].at = lookup[l].now
      BY <1>1, <1>2, <1>4 DEF EntryOf
  <2>2. c \in Nat /\ k \in Nat /\ m \in Nat /\ k + m <= c /\ BegunWithin(a, t) \in Nat
        /\ IsFiniteSet(BegunBefore(a, t)) /\ IsFiniteSet(BegunInside(a, t))
      BY <1>1, UnderWayCounted
  <2>3. BegunWithin(a, t)' = BegunWithin(a, t)
      BY <1>2, WithinIsSum
  <2>4. Room(c, k) \in Nat /\ most \in Nat
      BY <2>2, RoomIsNat
  <2>5. 2 * BegunWithin(a, t) + Room(c, k) <= most
    <3>1. 2 * BegunWithin(a, t) + Room(c, k) + (IF cache[a].at < t THEN 2 * (c - k - m) ELSE 0) <= most
        BY <1>1 DEF SpendsWithin
    <3> HIDE DEF c, k, m, most
    <3> QED
        BY <2>2, <2>4, <3>1
  <2>6. CASE lookup[l].now < t
    <3>1. BegunBefore(a, t)' = BegunBefore(a, t) \ {l} /\ l \in BegunBefore(a, t)
        BY <1>2, <1>4, <2>6 DEF BegunBefore, UnderWay
    <3>2. BegunInside(a, t)' = BegunInside(a, t)
        BY <1>1, <1>2, <2>6 DEF BegunInside, UnderWay
    <3>3. Cardinality(BegunBefore(a, t) \ {l}) = k - 1
        BY <2>2, <3>1, FS_RemoveElement
    <3>4. Room(c, k - 1) = Room(c, k) - 2 * c + 2 * (k - 1)
        BY <2>2, OneLessRoom
    <3>5. 2 * BegunWithin(a, t) + Room(c, k - 1) + 2 * (c - (k - 1) - m) <= most
      <4> HIDE DEF c, k, m, most
      <4> QED
          BY <2>2, <2>4, <2>5, <3>4
    <3> QED
        BY <2>1, <2>3, <2>6, <3>1, <3>2, <3>3, <3>5 DEF SpendsWithin
  <2>7. CASE t <= lookup[l].now
    <3>1. BegunBefore(a, t)' = BegunBefore(a, t)
        BY <1>1, <1>2, <2>7 DEF BegunBefore, UnderWay
    <3>2. ~(cache'[a].at < t)
        BY <1>1, <2>1, <2>7
    <3>3. 2 * BegunWithin(a, t) + Room(c, k) + 0 <= most
        BY <2>2, <2>4, <2>5
    <3> QED
        BY <2>3, <3>1, <3>2, <3>3 DEF SpendsWithin
  <2> QED
      BY <1>1, <2>6, <2>7
<1> QED
    BY <1>3, <1>4

LEMMA SpendingInitially == BadgeInit => SpendingInv
<1> SUFFICES ASSUME BadgeInit PROVE SpendingInv
    OBVIOUS
<1>1. DatedBeforeRead
    BY DatedInit
<1>2. NothingBegunAhead
    BY DEF BadgeInit, NothingBegunAhead
<1>3. ASSUME NEW a \in Agents, NEW t \in Times
      PROVE  SpendsWithin(a, t)
  <2>1. CASE monotonic < t
      BY <1>1, <1>2, <2>1, AheadNow DEF AheadSpendsWithin
  <2>2. CASE t = 0
    <3> DEFINE c == Cardinality(Lookups)
    <3>1. UnderWay(a) = {}
        BY DEF BadgeInit, UnderWay, Idle
    <3>2. BegunBefore(a, t) = {} /\ BegunInside(a, t) = {}
        BY <3>1 DEF BegunBefore, BegunInside
    <3>3. Cardinality(BegunBefore(a, t)) = 0 /\ Cardinality(BegunInside(a, t)) = 0
        BY <3>2, FS_EmptySet
    <3>4. BegunWithin(a, t) = 0
      <4>1. \A s \in Window(t) : begun[a][s] = 0
          BY DEF BadgeInit, Window
      <4>2. SumOver(begun[a], Window(t)) = 0
          BY <4>1, WindowIsFinite, SumOfNothing
      <4> QED
          BY <4>2, WithinIsSum
    <3>5. cache[a].at < t
        BY <2>2 DEF BadgeInit, NoEntry
    <3>6. c \in Nat
        BY BadgeAssumption, FS_CardinalityType
    <3>7. Room(c, 0) + 2 * (c - 0) <= c * (c + 1)
        BY <3>6, RoomAtFirst
    <3>8. Room(c, 0) \in Nat
        BY <3>6, RoomIsNat
    <3>9. 2 * 0 + Room(c, 0) + 2 * (c - 0 - 0) <= c * (c + 1)
        BY <3>6, <3>7, <3>8
    <3> QED
        BY <3>3, <3>4, <3>5, <3>9 DEF SpendsWithin
  <2> QED
      BY <2>1, <2>2 DEF BadgeInit, Times
<1> QED
    BY <1>1, <1>2, <1>3 DEF SpendingInv

LEMMA SpendingStep == SpendingInv /\ [BadgeNext]_badgeVars => SpendingInv'
<1> SUFFICES ASSUME SpendingInv, [BadgeNext]_badgeVars PROVE SpendingInv'
    OBVIOUS
<1>1. DatedBeforeRead /\ DatedBeforeRead' /\ NothingBegunAhead /\ \A a \in Agents, t \in Times : SpendsWithin(a, t)
    BY DatedStep DEF SpendingInv
<1>2. NothingBegunAhead'
  <2>1. /\ begun \in [Agents -> [Times -> Nat]] /\ monotonic \in Nat /\ Times \subseteq Nat
        /\ monotonic' \in Nat
      BY <1>1, BadgeAssumption DEF DatedBeforeRead, BadgeTypeOK, Times
  <2>2. CASE \E l \in Lookups, a \in Agents : Ask(l, a)
      BY <1>1, <2>1, <2>2 DEF Ask, NothingBegunAhead
  <2>3. CASE begun' = begun /\ (monotonic' = monotonic \/ monotonic' = monotonic + 1)
      BY <1>1, <2>1, <2>3 DEF NothingBegunAhead
  <2> QED
      BY <2>2, <2>3 DEF BadgeNext, Finishes, Store, Answer, BadgeTick, badgeVars
<1>3. ASSUME NEW a \in Agents, NEW t \in Times
      PROVE  SpendsWithin(a, t)'
  <2>1. CASE \E l \in Lookups, b \in Agents : Ask(l, b)
      BY <1>1, <1>2, <2>1, AheadNext, AskSpendsWithin
  <2>2. CASE \E l \in Lookups : Store(l)
      BY <2>2, StoreSpendsWithin
  <2>3. CASE BadgeTick \/ UNCHANGED badgeVars \/ \E l \in Lookups, ok \in BOOLEAN : Answer(l, ok)
    <3>1. cache' = cache /\ begun' = begun
        BY <2>3 DEF BadgeTick, badgeVars, Answer
    <3>2. \A l \in Lookups : /\ lookup'[l].pc # "idle" <=> lookup[l].pc # "idle"
                             /\ lookup'[l].agent = lookup[l].agent /\ lookup'[l].now = lookup[l].now
      <4>1. CASE lookup' = lookup
          BY <4>1
      <4>2. CASE \E l \in Lookups, ok \in BOOLEAN : Answer(l, ok)
          BY <1>1, <4>2 DEF Answer, DatedBeforeRead, BadgeTypeOK
      <4> QED
          BY <2>3, <4>1, <4>2 DEF BadgeTick, badgeVars
    <3>3. BegunBefore(a, t)' = BegunBefore(a, t) /\ BegunInside(a, t)' = BegunInside(a, t)
        BY <3>2 DEF BegunBefore, BegunInside, UnderWay
    <3> QED
        BY <1>1, <3>1, <3>3, SpendsAsBefore
  <2> QED
      BY <2>1, <2>2, <2>3 DEF BadgeNext, Finishes
<1> QED
    BY <1>1, <1>2, <1>3 DEF SpendingInv

(* However many lookups run at a time, however long each request takes and *)
(* in whatever order the answers are stored: what one agent costs in any   *)
(* span of one TTL is at most c + (c - 1) + ... + 1 lookups.               *)
THEOREM SpendingIsBounded == BadgeSpec => []SpendingBounded
<1>1. SpendingInv => SpendingBounded
  <2> SUFFICES ASSUME SpendingInv, NEW a \in Agents, NEW t \in Times
               PROVE  BegunWithin(a, t) <= (Cardinality(Lookups) * (Cardinality(Lookups) + 1)) \div 2
      BY DEF SpendingBounded
  <2> DEFINE c == Cardinality(Lookups)
             k == Cardinality(BegunBefore(a, t))
             m == Cardinality(BegunInside(a, t))
             most == c * (c + 1)
  <2>1. c \in Nat /\ k \in Nat /\ m \in Nat /\ k + m <= c /\ BegunWithin(a, t) \in Nat
      BY UnderWayCounted DEF SpendingInv
  <2>2. 2 * BegunWithin(a, t) + Room(c, k) + (IF cache[a].at < t THEN 2 * (c - k - m) ELSE 0) <= most
      BY DEF SpendingInv, SpendsWithin
  <2>3. Room(c, k) \in Nat /\ most \in Nat
      BY <2>1, RoomIsNat
  <2>4. BegunWithin(a, t) <= most \div 2
    <3> HIDE DEF c, k, m, most
    <3>1. 2 * BegunWithin(a, t) <= most
        BY <2>1, <2>2, <2>3
    <3>2. \A x, y \in Nat : 2 * y <= x => y <= x \div 2
        OBVIOUS
    <3> QED
        BY <2>1, <2>3, <3>1, <3>2
  <2> QED
      BY <2>4
<1> QED
    BY <1>1, SpendingInitially, SpendingStep, PTL DEF BadgeSpec

-----------------------------------------------------------------------------
(* Searches and facets. *)

TableRows == [shape : Shapes, last_activity_at : Nat]
Facets == {"by_task_category", "by_listing_type", "by_network", "by_source"}

RequestRecords ==
    [pc : {"decide", "begin", "count", "select", "show", "answered"} \cup Facets,
     kind : {"search", "facets"}, ask : Questions, mode : {"activity", "rank", "similarity"}, began : Nat,
     total : Nat, page : SUBSET [id : ListingIds, row : TableRows],
     shown : SUBSET [id : ListingIds, row : TableRows, stale : BOOLEAN], disturbed : BOOLEAN, writes : Nat,
     by_task_category : [TaskCategories -> Nat], by_listing_type : [ListingTypes -> Nat],
     by_network : [Networks -> Nat], by_source : [Sources -> Nat]]

SearchTypeOK ==
    /\ table \in [ListingIds -> TableRows \cup {Absent}]
    /\ time \in Nat
    /\ request \in RequestRecords \cup {NoRequest}

(* What holds of a request whatever happens to the table: the steps of its *)
(* kind, and that staleness does not wear off.                             *)
IsUnderstood(r, now) ==
    /\ r.pc \in {"select", "show"} => r.kind = "search"
    /\ r.pc \in Facets => r.kind = "facets"
    /\ r.pc \notin {"show", "answered"} => r.page = {} /\ r.shown = {}
    /\ r.began <= now
    /\ r.ask.stale = TRUE =>
         /\ \A entry \in r.page : is_stale(entry.row, now)
         /\ \A s \in r.shown : s.stale

AnswerInv == SearchTypeOK /\ (request.pc # "idle" => IsUnderstood(request, time))

LEMMA StalenessStays ==
    ASSUME NEW row \in TableRows, NEW now \in Nat, is_stale(row, now)
    PROVE  is_stale(row, now + 1)
    BY SearchAssumption DEF is_stale, TableRows

LEMMA GroupedIsTyped ==
    ASSUME NEW values, NEW of
    PROVE  Grouped(values, of) \in [values -> Nat]
<1>1. IsFiniteSet(Hits)
    BY SearchAssumption, FS_Subset DEF Hits, Found
<1>2. \A v \in values : Cardinality({i \in Hits : v \in of[i]}) \in Nat
  <2> TAKE v \in values
  <2>1. {i \in Hits : v \in of[i]} \subseteq Hits
      OBVIOUS
  <2> QED
      BY <1>1, <2>1, FS_Subset, FS_CardinalityType
<1> QED
    BY <1>2 DEF Grouped

LEMMA FoundIsFinite ==
    ASSUME NEW ask, NEW mode, NEW now
    PROVE  Found(ask, mode, now) \subseteq ListingIds /\ IsFiniteSet(Found(ask, mode, now))
           /\ Cardinality(Found(ask, mode, now)) \in Nat
<1>1. Found(ask, mode, now) \subseteq ListingIds
    BY DEF Found
<1> QED
    BY <1>1, SearchAssumption, FS_Subset, FS_CardinalityType

LEMMA AnswerInitially == SearchInit => AnswerInv
    BY DEF SearchInit, AnswerInv, SearchTypeOK, NoRequest

(* What one statement of a request leaves.                                 *)
LEMMA RequestKeepsAnswerInv ==
    ASSUME AnswerInv, RequestNext
    PROVE  AnswerInv'
<1> USE DEF AnswerInv, SearchTypeOK
<1>0. table' = table /\ time' = time
    BY DEF RequestNext, Receive, Decide, BeginTransaction, Count, Select, Show, ByTaskCategory, ByListingType,
           ByNetwork, BySource, Return
<1>1. SUFFICES ASSUME request' # NoRequest
               PROVE  request' \in RequestRecords /\ IsUnderstood(request', time)
    BY <1>0 DEF NoRequest
<1>2. CASE \E kind \in {"search", "facets"}, ask \in Questions : Receive(kind, ask)
  <2>1. PICK kind \in {"search", "facets"}, ask \in Questions : Receive(kind, ask)
      BY <1>2
  <2>2. request' = NewRequest(kind, ask)
      BY <2>1 DEF Receive
  <2>3. NewRequest(kind, ask) \in RequestRecords
      BY DEF NewRequest, RequestRecords
  <2>4. IsUnderstood(NewRequest(kind, ask), time)
      BY DEF NewRequest, IsUnderstood, Facets
  <2> QED
      BY <2>2, <2>3, <2>4
<1>3. request.pc # "idle" => request \in RequestRecords /\ IsUnderstood(request, time)
    BY DEF NoRequest
<1>4. CASE Decide
  <2> DEFINE ft_total == Cardinality(Found(request.ask, "rank", time))
             mode == IF request.kind = "search" THEN SearchMode(ft_total) ELSE FacetMode(ft_total)
             pc == CASE mode = "similarity" -> "begin"
                     [] mode = "rank" /\ request.kind = "search" -> "select"
                     [] OTHER -> "count"
  <2>1. request' = [request EXCEPT !.mode = mode, !.total = ft_total, !.pc = pc] /\ request.pc = "decide"
      BY <1>4 DEF Decide
  <2>2. ft_total \in Nat /\ mode \in {"rank", "similarity"}
      BY FoundIsFinite DEF SearchMode, FacetMode
  <2>3. pc \in {"begin", "select", "count"} /\ (pc = "select" => request.kind = "search")
      BY <2>2
  <2> HIDE DEF ft_total, mode, pc
  <2>4. request' \in RequestRecords
      BY <1>3, <2>1, <2>2, <2>3 DEF RequestRecords
  <2>5. /\ request'.pc = pc /\ request'.kind = request.kind /\ request'.page = request.page
        /\ request'.shown = request.shown /\ request'.began = request.began /\ request'.ask = request.ask
      BY <1>3, <2>1 DEF RequestRecords
  <2> QED
      BY <1>3, <2>1, <2>3, <2>4, <2>5 DEF IsUnderstood, Facets
<1>5. CASE BeginTransaction
  <2>1. request' = [request EXCEPT !.pc = "count", !.began = time] /\ request.pc = "begin"
      BY <1>5 DEF BeginTransaction
  <2>2. request' \in RequestRecords
      BY <1>3, <2>1 DEF RequestRecords
  <2>3. /\ request'.pc = "count" /\ request'.kind = request.kind /\ request'.page = request.page
        /\ request'.shown = request.shown /\ request'.began = time /\ request'.ask = request.ask
      BY <1>3, <2>1 DEF RequestRecords
  <2> QED
      BY <1>3, <2>1, <2>2, <2>3 DEF IsUnderstood, Facets
<1>6. CASE Count
  <2> DEFINE pc == IF request.kind = "search" THEN "select" ELSE "by_task_category"
             total == Cardinality(Hits)
  <2>1. request' = [request EXCEPT !.total = total, !.pc = pc] /\ request.pc = "count"
      BY <1>6 DEF Count
  <2>2. total \in Nat
      BY FoundIsFinite DEF Hits
  <2>3. \/ pc = "select" /\ request.kind = "search"
        \/ pc = "by_task_category" /\ request.kind = "facets"
    <3>1. request.kind \in {"search", "facets"}
      <4>1. request \in RequestRecords
          BY <1>3, <2>1
      <4> QED
          BY <4>1 DEF RequestRecords
    <3>2. CASE request.kind = "search"
        BY <3>2
    <3>3. CASE request.kind = "facets"
        BY <3>3
    <3> QED
        BY <3>1, <3>2, <3>3
  <2> HIDE DEF pc, total
  <2>4. request' \in RequestRecords
      BY <1>3, <2>1, <2>2, <2>3 DEF RequestRecords, Facets
  <2>5. /\ request'.pc = pc /\ request'.kind = request.kind /\ request'.page = request.page
        /\ request'.shown = request.shown /\ request'.began = request.began /\ request'.ask = request.ask
      BY <1>3, <2>1 DEF RequestRecords
  <2> QED
      BY <1>3, <2>1, <2>3, <2>4, <2>5 DEF IsUnderstood, Facets
<1>7. CASE Select
  <2> DEFINE page == {[id |-> i, row |-> table[i]] : i \in Hits}
             pc == IF page = {} \/ request.ask.compact THEN "answered" ELSE "show"
  <2>1. request' = [request EXCEPT !.page = page, !.pc = pc] /\ request.pc = "select"
      BY <1>7 DEF Select
  <2>2. \A i \in Hits : i \in ListingIds /\ table[i] \in TableRows
      BY DEF Hits, Found, IsListed
  <2>3. page \in SUBSET [id : ListingIds, row : TableRows]
      BY <2>2
  <2>4. request.ask.stale = TRUE => \A entry \in page : is_stale(entry.row, time)
    <3>1. ASSUME request.ask.stale = TRUE, NEW i \in Hits
          PROVE  is_stale(table[i], time)
      <4>1. stale_expr(table[i], Now)
          BY <3>1, QuestionAssumption DEF Hits, Found, FilterConditions, stale_expr
      <4>2. Now \in Nat /\ Now <= time
          BY <1>3, <2>1 DEF Now, RequestRecords, IsUnderstood
      <4>3. table[i].last_activity_at \in Nat /\ StaleAfter \in Nat
          BY <2>2, SearchAssumption DEF TableRows
      <4> QED
          BY <4>1, <4>2, <4>3 DEF stale_expr, is_stale
    <3>2. \A entry \in page : \E i \in Hits : entry.row = table[i]
        OBVIOUS
    <3> HIDE DEF page
    <3> QED
        BY <3>1, <3>2
  <2>5. pc \in {"answered", "show"}
      OBVIOUS
  <2> HIDE DEF page, pc
  <2>6. request' \in RequestRecords
      BY <1>3, <2>1, <2>3, <2>5 DEF RequestRecords
  <2>7. /\ request'.pc = pc /\ request'.kind = request.kind /\ request'.page = page
        /\ request'.shown = request.shown /\ request'.began = request.began /\ request'.ask = request.ask
      BY <1>3, <2>1 DEF RequestRecords
  <2> QED
      BY <1>3, <2>1, <2>4, <2>5, <2>6, <2>7 DEF IsUnderstood, Facets
<1>8. CASE \E entry \in request.page : Show(entry)
  <2>1. PICK entry \in request.page : Show(entry)
      BY <1>8
  <2> DEFINE s == [id |-> entry.id, row |-> entry.row, stale |-> is_stale(entry.row, time)]
             pc == IF Cardinality(request.shown) + 1 = Cardinality(request.page) THEN "answered" ELSE "show"
  <2>2. request' = [request EXCEPT !.shown = request.shown \cup {s}, !.pc = pc] /\ request.pc = "show"
      BY <1>3, <2>1 DEF Show, RequestRecords
  <2>3. entry \in [id : ListingIds, row : TableRows]
      BY <1>3, <2>1, <2>2 DEF RequestRecords
  <2>4. s \in [id : ListingIds, row : TableRows, stale : BOOLEAN]
      BY <2>3 DEF is_stale
  <2>5. request.ask.stale = TRUE => s.stale
      BY <1>3, <2>1, <2>2 DEF IsUnderstood
  <2>6. pc \in {"answered", "show"}
      OBVIOUS
  <2> HIDE DEF s, pc
  <2>7. request' \in RequestRecords
      BY <1>3, <2>2, <2>4, <2>6 DEF RequestRecords
  <2>8. /\ request'.pc = pc /\ request'.kind = request.kind /\ request'.page = request.page
        /\ request'.shown = request.shown \cup {s} /\ request'.began = request.began /\ request'.ask = request.ask
      BY <1>3, <2>2 DEF RequestRecords
  <2> QED
      BY <1>3, <2>2, <2>5, <2>6, <2>7, <2>8 DEF IsUnderstood, Facets
<1>9. CASE ByTaskCategory \/ ByListingType \/ ByNetwork \/ BySource
  <2>1. request.pc \in Facets /\ request \in RequestRecords
      BY <1>3, <1>9 DEF ByTaskCategory, ByListingType, ByNetwork, BySource, Facets
  <2>2. /\ request'.pc \in Facets \cup {"answered"}
        /\ request' \in RequestRecords
    <3>1. CASE ByTaskCategory
        BY <2>1, <3>1, GroupedIsTyped DEF ByTaskCategory, RequestRecords, Facets
    <3>2. CASE ByListingType
        BY <2>1, <3>2, GroupedIsTyped DEF ByListingType, RequestRecords, Facets
    <3>3. CASE ByNetwork
        BY <2>1, <3>3, GroupedIsTyped DEF ByNetwork, NetworkCounts, RequestRecords, Facets
    <3>4. CASE BySource
        BY <2>1, <3>4, GroupedIsTyped DEF BySource, RequestRecords, Facets
    <3> QED
        BY <1>9, <3>1, <3>2, <3>3, <3>4
  <2>3. /\ request'.kind = request.kind /\ request'.page = request.page
        /\ request'.shown = request.shown /\ request'.began = request.began /\ request'.ask = request.ask
    <3>1. CASE ByTaskCategory
        BY <2>1, <3>1 DEF ByTaskCategory, RequestRecords
    <3>2. CASE ByListingType
        BY <2>1, <3>2 DEF ByListingType, RequestRecords
    <3>3. CASE ByNetwork
        BY <2>1, <3>3 DEF ByNetwork, RequestRecords
    <3>4. CASE BySource
        BY <2>1, <3>4 DEF BySource, RequestRecords
    <3> QED
        BY <1>9, <3>1, <3>2, <3>3, <3>4
  <2> QED
      BY <1>3, <2>1, <2>2, <2>3 DEF IsUnderstood, Facets
<1>10. CASE Return
    BY <1>1, <1>10 DEF Return
<1> QED
    BY <1>2, <1>4, <1>5, <1>6, <1>7, <1>8, <1>9, <1>10 DEF RequestNext

(* What the others leave.                                                  *)
LEMMA OthersKeepAnswerInv ==
    ASSUME AnswerInv,
           \/ \E i \in ListingIds : (\E s \in Shapes : Write(i, s)) \/ GoMissing(i) \/ Vanish(i)
           \/ Tick
    PROVE  AnswerInv'
<1> USE DEF AnswerInv, SearchTypeOK
<1>1. request.pc # "idle" => request \in RequestRecords /\ IsUnderstood(request, time)
    BY DEF NoRequest
<1>2. /\ request' \in RequestRecords \cup {NoRequest} /\ request'.pc = request.pc
      /\ request.pc # "idle" =>
           /\ request'.kind = request.kind /\ request'.page = request.page /\ request'.shown = request.shown
           /\ request'.began = request.began /\ request'.ask = request.ask
  <2>1. CASE request' = request
      BY <2>1
  <2>2. CASE request.pc # "idle" /\ request' = [request EXCEPT !.disturbed = TRUE, !.writes = @ + 1]
    <3>1. request \in RequestRecords /\ request.writes + 1 \in Nat
        BY <1>1, <2>2 DEF RequestRecords
    <3> QED
        BY <2>2, <3>1 DEF RequestRecords
  <2>3. CASE request.pc # "idle" /\ request' = [request EXCEPT !.disturbed = TRUE]
      BY <1>1, <2>3 DEF RequestRecords
  <2> QED
      BY <2>1, <2>2, <2>3 DEF Write, GoMissing, Vanish, Tick, Written
<1>3. CASE Tick
  <2>1. table' = table /\ time' = time + 1
      BY <1>3 DEF Tick
  <2>2. request.pc # "idle" => IsUnderstood(request, time + 1)
    <3> SUFFICES ASSUME request.pc # "idle" PROVE IsUnderstood(request, time + 1)
        OBVIOUS
    <3>1. request.began <= time + 1
        BY <1>1 DEF IsUnderstood, RequestRecords
    <3>2. request.ask.stale = TRUE => \A entry \in request.page : is_stale(entry.row, time + 1)
      <4> SUFFICES ASSUME request.ask.stale = TRUE, NEW entry \in request.page
                   PROVE  is_stale(entry.row, time + 1)
          OBVIOUS
      <4>1. entry.row \in TableRows /\ is_stale(entry.row, time)
          BY <1>1 DEF IsUnderstood, RequestRecords
      <4> QED
          BY <4>1, StalenessStays
    <3> QED
        BY <1>1, <3>1, <3>2 DEF IsUnderstood
  <2>3. request'.pc # "idle" => IsUnderstood(request', time')
      BY <1>2, <2>1, <2>2 DEF IsUnderstood
  <2> QED
      BY <1>2, <2>1, <2>3
<1>4. CASE \E i \in ListingIds : (\E s \in Shapes : Write(i, s)) \/ GoMissing(i) \/ Vanish(i)
  <2>1. PICK i \in ListingIds : (\E s \in Shapes : Write(i, s)) \/ GoMissing(i) \/ Vanish(i)
      BY <1>4
  <2>2. time' = time
      BY <2>1 DEF Write, GoMissing, Vanish, Written
  <2>3. table' \in [ListingIds -> TableRows \cup {Absent}]
    <3>1. CASE \E s \in Shapes : Write(i, s)
        BY <3>1 DEF Write, TableRows
    <3>2. CASE Vanish(i)
        BY <3>2 DEF Vanish
    <3>3. CASE GoMissing(i)
      <4> DEFINE r == [table[i] EXCEPT !.shape.missing_from_source = TRUE]
      <4>1. table[i] \in TableRows /\ [table[i].shape EXCEPT !.missing_from_source = TRUE] \in Shapes
          BY <3>3 DEF GoMissing, IsListed
      <4>2. r = [table[i] EXCEPT !.shape = [table[i].shape EXCEPT !.missing_from_source = TRUE]]
          OBVIOUS
      <4>3. r \in TableRows
          BY <4>1, <4>2 DEF TableRows
      <4>4. table' = [table EXCEPT ![i] = r]
          BY <3>3 DEF GoMissing
      <4> QED
          BY <4>3, <4>4
    <3> QED
        BY <2>1, <3>1, <3>2, <3>3
  <2>4. request'.pc # "idle" => IsUnderstood(request', time')
      BY <1>1, <1>2, <2>2 DEF IsUnderstood
  <2> QED
      BY <1>2, <2>2, <2>3, <2>4
<1> QED
    BY <1>3, <1>4

LEMMA AnswerStep == AnswerInv /\ [SearchNext]_searchVars => AnswerInv'
<1> SUFFICES ASSUME AnswerInv, [SearchNext]_searchVars PROVE AnswerInv'
    OBVIOUS
<1>1. CASE UNCHANGED searchVars
    BY <1>1 DEF searchVars, AnswerInv, SearchTypeOK
<1> QED
    BY <1>1, RequestKeepsAnswerInv, OthersKeepAnswerInv DEF SearchNext

(* A request of list_listings or of the facets has at each SELECT what its *)
(* kind gathers, and what it shows of a stale page is stale.               *)
THEOREM AnswersAreUnderstood == SearchSpec => []AnswerInv
    BY AnswerInitially, AnswerStep, PTL DEF SearchSpec

(* Whoever asks for stale listings is shown none as fresh, however many    *)
(* rows there are, however long their badges take and whoever writes.      *)
THEOREM StaleAnswersStayStale == SearchSpec => []StaleAnswersAreShownStale
<1>1. AnswerInv => StaleAnswersAreShownStale
    BY DEF AnswerInv, IsUnderstood, StaleAnswersAreShownStale
<1> QED
    BY <1>1, AnswersAreUnderstood, PTL

(* An answer that nobody disturbed, told from the table T and the time as  *)
(* they stand: which listings are found, in which mode, and what was       *)
(* gathered so far.                                                        *)
FoundIn(T, ask, mode, now) ==
    {i \in ListingIds : T[i] # Absent /\ FilterConditions(ask, T[i], now) /\ IsHit(mode, T[i])}

ModeOf(T, ask, now) ==
    IF ~ask.has_q THEN "activity"
    ELSE IF Cardinality(FoundIn(T, ask, "rank", now)) > 0 THEN "rank" ELSE "similarity"

CategoriesIn(T, F) == [c \in TaskCategories |-> Cardinality({i \in F : c \in T[i].shape.task_categories})]
TypesIn(T, F) == [t \in ListingTypes |-> Cardinality({i \in F : T[i].shape.listing_type = t})]
NetworksIn(T, F) ==
    [n \in Networks |-> Cardinality({i \in F : \E po \in T[i].shape.payment_options : po.network = n})]
SourcesIn(T, F) == [s \in Sources |-> Cardinality({i \in F : T[i].shape.source = s})]

IdsOf(S) == {s.id : s \in S}

GathersShown(r, F) ==
    /\ r.pc = "show" =>
         /\ IsFiniteSet(r.shown) /\ Cardinality(IdsOf(r.shown)) = Cardinality(r.shown)
         /\ IdsOf(r.shown) \subseteq F
    /\ r.pc = "answered" /\ r.kind = "search" /\ ~r.ask.compact => IdsOf(r.shown) = F

GathersFacets(T, r, F) ==
    /\ r.pc \in {"by_listing_type", "by_network", "by_source", "answered"} =>
         r.by_task_category = CategoriesIn(T, F)
    /\ r.pc \in {"by_network", "by_source", "answered"} => r.by_listing_type = TypesIn(T, F)
    /\ r.pc \in {"by_source", "answered"} => r.by_network = NetworksIn(T, F)
    /\ r.pc = "answered" => r.by_source = SourcesIn(T, F)

Gathers(T, now, r) ==
    LET F == FoundIn(T, r.ask, r.mode, now) IN
    /\ r.ask.stale # Any => r.began = now
    /\ IF r.pc = "decide" THEN r.ask.has_q ELSE r.mode = ModeOf(T, r.ask, now)
    /\ r.pc \in {"select", "show", "answered"} \cup Facets => r.total = Cardinality(F)
    /\ r.pc \in {"show", "answered"} /\ r.kind = "search" => r.page = {[id |-> i, row |-> T[i]] : i \in F}
    /\ GathersShown(r, F)
    /\ r.kind = "facets" => GathersFacets(T, r, F)

QuietInv == AnswerInv /\ (request.pc # "idle" /\ ~request.disturbed => Gathers(table, time, request))

LEMMA FoundInTable ==
    ASSUME NEW ask, NEW mode, NEW now
    PROVE  Found(ask, mode, now) = FoundIn(table, ask, mode, now)
    BY DEF Found, FoundIn, IsListed

LEMMA FoundInIsFinite ==
    ASSUME NEW T, NEW ask, NEW mode, NEW now
    PROVE  /\ FoundIn(T, ask, mode, now) \subseteq ListingIds /\ IsFiniteSet(FoundIn(T, ask, mode, now))
           /\ Cardinality(FoundIn(T, ask, mode, now)) \in Nat
<1>1. FoundIn(T, ask, mode, now) \subseteq ListingIds
    BY DEF FoundIn
<1> QED
    BY <1>1, SearchAssumption, FS_Subset, FS_CardinalityType

(* Without a filter on staleness the time does not matter.                 *)
LEMMA FoundAnyTime ==
    ASSUME NEW T, NEW ask, ask.stale = Any, NEW mode, NEW now, NEW then
    PROVE  FoundIn(T, ask, mode, now) = FoundIn(T, ask, mode, then)
<1>1. \A row : FilterConditions(ask, row, now) = FilterConditions(ask, row, then)
    BY DEF FilterConditions
<1> QED
    BY <1>1 DEF FoundIn

LEMMA GathersAnyTime ==
    ASSUME NEW T, NEW r, r.ask.stale = Any, NEW now, NEW then, Gathers(T, now, r)
    PROVE  Gathers(T, then, r)
<1>1. FoundIn(T, r.ask, r.mode, now) = FoundIn(T, r.ask, r.mode, then)
      /\ FoundIn(T, r.ask, "rank", now) = FoundIn(T, r.ask, "rank", then)
    BY FoundAnyTime
<1>2. ModeOf(T, r.ask, now) = ModeOf(T, r.ask, then)
    BY <1>1 DEF ModeOf
<1> QED
    BY <1>1, <1>2 DEF Gathers

LEMMA HitsAreFound ==
    ASSUME AnswerInv, request.pc # "idle", Gathers(table, time, request)
    PROVE  Hits = FoundIn(table, request.ask, request.mode, time)
<1>1. Hits = FoundIn(table, request.ask, request.mode, Now)
    BY FoundInTable DEF Hits
<1>2. CASE request.ask.stale = Any
    BY <1>1, <1>2, FoundAnyTime
<1>3. CASE request.ask.stale # Any
  <2>1. Now = time
      BY <1>3 DEF Now, Gathers
  <2> QED
      BY <1>1, <2>1
<1> QED
    BY <1>2, <1>3

LEMMA PageCounts ==
    ASSUME NEW F, IsFiniteSet(F), NEW T
    PROVE  /\ Cardinality({[id |-> i, row |-> T[i]] : i \in F}) = Cardinality(F)
           /\ IdsOf({[id |-> i, row |-> T[i]] : i \in F}) = F
<1> DEFINE page == {[id |-> i, row |-> T[i]] : i \in F}
           f == [i \in F |-> [id |-> i, row |-> T[i]]]
<1>1. f \in [F -> page]
    OBVIOUS
<1>2. \A i, j \in F : f[i] = f[j] => i = j
  <2> TAKE i, j \in F
  <2>1. f[i].id = i /\ f[j].id = j
      OBVIOUS
  <2> QED
      BY <2>1
<1>3. \A e \in page : \E i \in F : f[i] = e
    OBVIOUS
<1>4. f \in Bijection(F, page)
  <2> HIDE DEF f, page
  <2> QED
      BY <1>1, <1>2, <1>3 DEF Bijection, Injection, Surjection, IsInjective
<1>5. ExistsBijection(F, page)
    BY <1>4 DEF ExistsBijection
<1>6. Cardinality(page) = Cardinality(F)
  <2> HIDE DEF page
  <2> QED
      BY <1>5, FS_Bijection
<1>7. IdsOf(page) = F
  <2>1. \A e \in page : e.id \in F
      OBVIOUS
  <2>2. \A i \in F : f[i] \in page /\ f[i].id = i
      OBVIOUS
  <2> HIDE DEF f, page
  <2> QED
      BY <2>1, <2>2 DEF IdsOf
<1> QED
    BY <1>6, <1>7

(* The GROUP BYs.                                                          *)
LEMMA GroupsAreCounts ==
    ASSUME NEW F, Hits = F
    PROVE  /\ Grouped(TaskCategories, [i \in Hits |-> table[i].shape.task_categories]) = CategoriesIn(table, F)
           /\ Grouped(ListingTypes, [i \in Hits |-> {table[i].shape.listing_type}]) = TypesIn(table, F)
           /\ NetworkCounts = NetworksIn(table, F)
           /\ Grouped(Sources, [i \in Hits |-> {table[i].shape.source}]) = SourcesIn(table, F)
<1> DEFINE categories == [i \in F |-> table[i].shape.task_categories]
           types == [i \in F |-> {table[i].shape.listing_type}]
           networks == [i \in F |-> {po.network : po \in table[i].shape.payment_options}]
           sources == [i \in F |-> {table[i].shape.source}]
<1>1. \A c : {i \in F : c \in categories[i]} = {i \in F : c \in table[i].shape.task_categories}
    OBVIOUS
<1>2. \A t : {i \in F : t \in types[i]} = {i \in F : table[i].shape.listing_type = t}
    OBVIOUS
<1>3. \A n : {i \in F : n \in networks[i]}
               = {i \in F : \E po \in table[i].shape.payment_options : po.network = n}
    OBVIOUS
<1>4. \A s : {i \in F : s \in sources[i]} = {i \in F : table[i].shape.source = s}
    OBVIOUS
<1>5. \A values, of : Grouped(values, of) = [v \in values |-> Cardinality({i \in F : v \in of[i]})]
    BY DEF Grouped
<1>6. NetworkCounts = Grouped(Networks, networks)
    BY DEF NetworkCounts
<1>7. /\ [i \in Hits |-> table[i].shape.task_categories] = categories
      /\ [i \in Hits |-> {table[i].shape.listing_type}] = types
      /\ [i \in Hits |-> {table[i].shape.source}] = sources
    OBVIOUS
<1> HIDE DEF categories, types, networks, sources
<1>8. Grouped(TaskCategories, categories) = CategoriesIn(table, F)
    BY <1>1, <1>5 DEF CategoriesIn
<1>9. Grouped(ListingTypes, types) = TypesIn(table, F)
    BY <1>2, <1>5 DEF TypesIn
<1>10. Grouped(Networks, networks) = NetworksIn(table, F)
    BY <1>3, <1>5 DEF NetworksIn
<1>11. Grouped(Sources, sources) = SourcesIn(table, F)
    BY <1>4, <1>5 DEF SourcesIn
<1> QED
    BY <1>6, <1>7, <1>8, <1>9, <1>10, <1>11

(* A step that gathers: what it keeps of the request, and what is then due *)
(* by the step reached.                                                    *)
LEMMA RequestKeepsGathers ==
    ASSUME AnswerInv, AnswerInv', RequestNext, request'.pc # "idle", ~request'.disturbed,
           request.pc # "idle" /\ ~request.disturbed => Gathers(table, time, request)
    PROVE  Gathers(table, time, request')
<1> DEFINE F == FoundIn(table, request.ask, request.mode, time)
<1>1. CASE \E kind \in {"search", "facets"}, ask \in Questions : Receive(kind, ask)
  <2>1. PICK kind \in {"search", "facets"}, ask \in Questions : Receive(kind, ask)
      BY <1>1
  <2> DEFINE r == NewRequest(kind, ask)
  <2>2. request' = r
      BY <2>1 DEF Receive
  <2>3. /\ r.pc = IF ask.has_q THEN "decide" ELSE "count"
        /\ r.ask = ask /\ r.mode = "activity" /\ r.began = time /\ r.kind = kind
      BY DEF NewRequest
  <2> HIDE DEF r
  <2> QED
      BY <2>2, <2>3 DEF Gathers, ModeOf, GathersShown, GathersFacets, Facets
<1>2. ASSUME request.pc # "idle"
      PROVE  request \in RequestRecords /\ IsUnderstood(request, time)
    BY <1>2 DEF AnswerInv, SearchTypeOK, NoRequest
<1>3. ASSUME request.pc # "idle", ~request.disturbed
      PROVE  /\ Gathers(table, time, request) /\ Hits = F /\ IsFiniteSet(F)
             /\ request.ask.stale # Any => request.began = time
    BY <1>3, HitsAreFound, FoundInIsFinite DEF Gathers
<1>4. CASE Decide
  <2> DEFINE ft_total == Cardinality(Found(request.ask, "rank", time))
             mode == IF request.kind = "search" THEN SearchMode(ft_total) ELSE FacetMode(ft_total)
             pc == CASE mode = "similarity" -> "begin"
                     [] mode = "rank" /\ request.kind = "search" -> "select"
                     [] OTHER -> "count"
  <2>1. request' = [request EXCEPT !.mode = mode, !.total = ft_total, !.pc = pc] /\ request.pc = "decide"
      BY <1>4 DEF Decide
  <2>2. ft_total = Cardinality(FoundIn(table, request.ask, "rank", time))
      BY FoundInTable
  <2>3. mode = IF ft_total > 0 THEN "rank" ELSE "similarity"
      BY DEF SearchMode, FacetMode
  <2>4. pc \in {"begin", "select", "count"} /\ (pc = "select" => mode = "rank")
      BY <2>3
  <2> HIDE DEF ft_total, mode, pc
  <2>5. /\ request'.mode = mode /\ request'.total = ft_total /\ request'.pc = pc
        /\ request'.ask = request.ask /\ request'.began = request.began /\ request'.kind = request.kind
        /\ request'.disturbed = request.disturbed
      BY <1>2, <2>1 DEF RequestRecords
  <2>6. Gathers(table, time, request)
      BY <1>3, <2>1, <2>5
  <2>7. request.ask.has_q /\ (request.ask.stale # Any => request.began = time)
      BY <2>1, <2>6 DEF Gathers
  <2> QED
      BY <2>2, <2>3, <2>4, <2>5, <2>7 DEF Gathers, ModeOf, GathersShown, GathersFacets, Facets
<1>5. CASE BeginTransaction
  <2>1. request' = [request EXCEPT !.pc = "count", !.began = time] /\ request.pc = "begin"
      BY <1>5 DEF BeginTransaction
  <2>2. /\ request'.mode = request.mode /\ request'.pc = "count" /\ request'.ask = request.ask
        /\ request'.began = time /\ request'.kind = request.kind /\ request'.disturbed = request.disturbed
      BY <1>2, <2>1 DEF RequestRecords
  <2>3. Gathers(table, time, request)
      BY <1>3, <2>1, <2>2
  <2> QED
      BY <2>1, <2>2, <2>3 DEF Gathers, GathersShown, GathersFacets, Facets
<1>6. CASE Count
  <2> DEFINE pc == IF request.kind = "search" THEN "select" ELSE "by_task_category"
             total == Cardinality(Hits)
  <2>1. request' = [request EXCEPT !.total = total, !.pc = pc] /\ request.pc = "count"
      BY <1>6 DEF Count
  <2>2. pc \in {"select", "by_task_category"}
      OBVIOUS
  <2> HIDE DEF pc
  <2>3. /\ request'.mode = request.mode /\ request'.pc = pc /\ request'.ask = request.ask
        /\ request'.total = total
        /\ request'.began = request.began /\ request'.kind = request.kind /\ request'.disturbed = request.disturbed
      BY <1>2, <2>1 DEF RequestRecords
  <2>4. Gathers(table, time, request) /\ total = Cardinality(F)
      BY <1>3, <2>1, <2>3
  <2> HIDE DEF total
  <2> QED
      BY <2>1, <2>2, <2>3, <2>4 DEF Gathers, GathersShown, GathersFacets, Facets
<1>7. CASE Select
  <2> DEFINE page == {[id |-> i, row |-> table[i]] : i \in Hits}
             pc == IF page = {} \/ request.ask.compact THEN "answered" ELSE "show"
  <2>1. request' = [request EXCEPT !.page = page, !.pc = pc] /\ request.pc = "select"
      BY <1>7 DEF Select
  <2>2. pc \in {"answered", "show"} /\ (pc = "answered" /\ ~request.ask.compact => page = {})
      OBVIOUS
  <2> HIDE DEF page, pc
  <2>3. /\ request'.mode = request.mode /\ request'.pc = pc /\ request'.ask = request.ask
        /\ request'.total = request.total /\ request'.page = page /\ request'.shown = request.shown
        /\ request'.began = request.began /\ request'.kind = request.kind /\ request'.disturbed = request.disturbed
      BY <1>2, <2>1 DEF RequestRecords
  <2>4. Gathers(table, time, request) /\ Hits = F /\ IsFiniteSet(F)
      BY <1>3, <2>1, <2>3
  <2>5. request.shown = {} /\ request.kind = "search"
      BY <1>2, <2>1 DEF IsUnderstood
  <2>6. page = {[id |-> i, row |-> table[i]] : i \in F} /\ IdsOf(page) = F
      BY <2>4, PageCounts DEF page
  <2>7. IdsOf({}) = {} /\ IsFiniteSet({})
      BY FS_EmptySet DEF IdsOf
  <2>8. GathersShown(request', F)
    <3>1. pc = "answered" /\ ~request.ask.compact => F = {}
        BY <2>2, <2>6, <2>7
    <3> QED
        BY <2>3, <2>5, <2>7, <3>1 DEF GathersShown
  <2> HIDE DEF F
  <2> QED
      BY <2>1, <2>2, <2>3, <2>4, <2>5, <2>6, <2>8 DEF Gathers, Facets, F
<1>8. CASE \E entry \in request.page : Show(entry)
  <2>1. PICK entry \in request.page : Show(entry)
      BY <1>8
  <2> DEFINE s == [id |-> entry.id, row |-> entry.row, stale |-> is_stale(entry.row, time)]
             pc == IF Cardinality(request.shown) + 1 = Cardinality(request.page) THEN "answered" ELSE "show"
             old == request.shown
             new == request.shown \cup {s}
  <2>2. request' = [request EXCEPT !.shown = new, !.pc = pc] /\ request.pc = "show"
      BY <1>2, <2>1 DEF Show, RequestRecords
  <2>3. /\ pc \in {"answered", "show"}
        /\ pc = "answered" => Cardinality(request.shown) + 1 = Cardinality(request.page)
      OBVIOUS
  <2> HIDE DEF pc
  <2>4. /\ request'.mode = request.mode /\ request'.pc = pc /\ request'.ask = request.ask
        /\ request'.total = request.total /\ request'.page = request.page /\ request'.shown = new
        /\ request'.began = request.began /\ request'.kind = request.kind /\ request'.disturbed = request.disturbed
      BY <1>2, <2>2 DEF RequestRecords
  <2>5. Gathers(table, time, request) /\ IsFiniteSet(F)
      BY <1>3, <2>2, <2>4
  <2>6. request.kind = "search"
      BY <1>2, <2>2 DEF IsUnderstood
  <2>7. request.page = {[id |-> i, row |-> table[i]] : i \in F}
      BY <2>2, <2>5, <2>6 DEF Gathers
  <2>8. Cardinality(request.page) = Cardinality(F) /\ entry.id \in F
      BY <2>5, <2>7, PageCounts
  <2>9. IsFiniteSet(old) /\ Cardinality(IdsOf(old)) = Cardinality(old) /\ IdsOf(old) \subseteq F
      BY <2>2, <2>5 DEF Gathers, GathersShown
  <2>10. s \notin old /\ entry.id \notin IdsOf(old) /\ IdsOf(new) = IdsOf(old) \cup {entry.id}
    <3>1. \A o \in old : o.id # entry.id
        BY <2>1 DEF Show
    <3>2. s.id = entry.id
        OBVIOUS
    <3> HIDE DEF s, old
    <3> QED
        BY <3>1, <3>2 DEF IdsOf, old
  <2> HIDE DEF s
  <2>11. IsFiniteSet(new) /\ Cardinality(new) = Cardinality(old) + 1 /\ Cardinality(old) \in Nat
      BY <2>9, <2>10, FS_AddElement, FS_CardinalityType
  <2>12. IsFiniteSet(IdsOf(old)) /\ Cardinality(IdsOf(old) \cup {entry.id}) = Cardinality(IdsOf(old)) + 1
    <3>1. IsFiniteSet(IdsOf(old))
        BY <2>5, <2>9, FS_Subset
    <3> QED
        BY <2>10, <3>1, FS_AddElement
  <2>13. Cardinality(IdsOf(new)) = Cardinality(new) /\ IdsOf(new) \subseteq F
      BY <2>8, <2>9, <2>10, <2>11, <2>12
  <2>14. pc = "answered" => IdsOf(new) = F
    <3> SUFFICES ASSUME pc = "answered" PROVE IdsOf(new) = F
        OBVIOUS
    <3>1. Cardinality(IdsOf(new)) = Cardinality(F)
        BY <2>3, <2>8, <2>11, <2>13
    <3> HIDE DEF new, F
    <3> QED
        BY <2>5, <2>13, <3>1, FS_Subset
  <2> HIDE DEF new, old
  <2>15. GathersShown(request', F)
    <3> HIDE DEF F
    <3> QED
        BY <2>4, <2>11, <2>13, <2>14 DEF GathersShown
  <2> HIDE DEF F
  <2> QED
      BY <2>2, <2>3, <2>4, <2>5, <2>6, <2>15 DEF Gathers, Facets, F
<1>9. CASE ByTaskCategory \/ ByListingType \/ ByNetwork \/ BySource
  <2>1. request.pc \in Facets /\ request \in RequestRecords /\ request.kind = "facets"
      BY <1>2, <1>9 DEF ByTaskCategory, ByListingType, ByNetwork, BySource, Facets, IsUnderstood
  <2>2. /\ request'.mode = request.mode /\ request'.ask = request.ask /\ request'.total = request.total
        /\ request'.began = request.began /\ request'.kind = request.kind /\ request'.disturbed = request.disturbed
    <3>1. CASE ByTaskCategory
        BY <2>1, <3>1 DEF ByTaskCategory, RequestRecords
    <3>2. CASE ByListingType
        BY <2>1, <3>2 DEF ByListingType, RequestRecords
    <3>3. CASE ByNetwork
        BY <2>1, <3>3 DEF ByNetwork, RequestRecords
    <3>4. CASE BySource
        BY <2>1, <3>4 DEF BySource, RequestRecords
    <3> QED
        BY <1>9, <3>1, <3>2, <3>3, <3>4
  <2>3. Gathers(table, time, request) /\ Hits = F
      BY <1>3, <2>1, <2>2 DEF Facets
  <2>4. request'.pc \in Facets \cup {"answered"} /\ GathersFacets(table, request', F)
    <3>1. /\ GathersFacets(table, request, F)
          /\ Grouped(TaskCategories, [i \in Hits |-> table[i].shape.task_categories]) = CategoriesIn(table, F)
          /\ Grouped(ListingTypes, [i \in Hits |-> {table[i].shape.listing_type}]) = TypesIn(table, F)
          /\ NetworkCounts = NetworksIn(table, F)
          /\ Grouped(Sources, [i \in Hits |-> {table[i].shape.source}]) = SourcesIn(table, F)
        BY <2>1, <2>3, GroupsAreCounts DEF Gathers
    <3> HIDE DEF F
    <3>2. CASE ByTaskCategory
      <4>1. request'.pc = "by_listing_type" /\ request'.by_task_category = CategoriesIn(table, F)
          BY <2>1, <3>1, <3>2 DEF ByTaskCategory, RequestRecords
      <4> QED
          BY <4>1 DEF GathersFacets, Facets
    <3>3. CASE ByListingType
      <4>1. /\ request'.pc = "by_network" /\ request'.by_listing_type = TypesIn(table, F)
            /\ request'.by_task_category = request.by_task_category /\ request.pc = "by_listing_type"
          BY <2>1, <3>1, <3>3 DEF ByListingType, RequestRecords
      <4> QED
          BY <3>1, <4>1 DEF GathersFacets, Facets
    <3>4. CASE ByNetwork
      <4>1. /\ request'.pc = "by_source" /\ request'.by_network = NetworksIn(table, F)
            /\ request'.by_task_category = request.by_task_category
            /\ request'.by_listing_type = request.by_listing_type /\ request.pc = "by_network"
          BY <2>1, <3>1, <3>4 DEF ByNetwork, RequestRecords
      <4> QED
          BY <3>1, <4>1 DEF GathersFacets, Facets
    <3>5. CASE BySource
      <4>1. /\ request'.pc = "answered" /\ request'.by_source = SourcesIn(table, F)
            /\ request'.by_task_category = request.by_task_category
            /\ request'.by_listing_type = request.by_listing_type
            /\ request'.by_network = request.by_network /\ request.pc = "by_source"
          BY <2>1, <3>1, <3>5 DEF BySource, RequestRecords
      <4> QED
          BY <3>1, <4>1 DEF GathersFacets, Facets
    <3> QED
        BY <1>9, <3>2, <3>3, <3>4, <3>5
  <2> HIDE DEF F
  <2> QED
      BY <2>1, <2>2, <2>3, <2>4 DEF Gathers, GathersShown, Facets, F
<1>10. CASE Return
    BY <1>10 DEF Return, NoRequest
<1> QED
    BY <1>1, <1>4, <1>5, <1>6, <1>7, <1>8, <1>9, <1>10 DEF RequestNext

LEMMA QuietStep == QuietInv /\ [SearchNext]_searchVars => QuietInv'
<1> SUFFICES ASSUME QuietInv, [SearchNext]_searchVars PROVE QuietInv'
    OBVIOUS
<1>1. AnswerInv /\ AnswerInv'
    BY AnswerStep DEF QuietInv
<1>2. SUFFICES ASSUME request'.pc # "idle", ~request'.disturbed
               PROVE  Gathers(table', time', request')
    BY <1>1 DEF QuietInv
<1>3. CASE UNCHANGED searchVars
    BY <1>2, <1>3 DEF searchVars, QuietInv
<1>4. CASE RequestNext
  <2>1. table' = table /\ time' = time
      BY <1>4 DEF RequestNext, Receive, Decide, BeginTransaction, Count, Select, Show, ByTaskCategory,
                  ByListingType, ByNetwork, BySource, Return
  <2>2. Gathers(table, time, request')
      BY <1>1, <1>2, <1>4, RequestKeepsGathers DEF QuietInv
  <2> QED
      BY <2>1, <2>2
<1>5. CASE \E i \in ListingIds : (\E s \in Shapes : Write(i, s)) \/ GoMissing(i) \/ Vanish(i)
  <2>1. Written
      BY <1>5 DEF Write, GoMissing, Vanish
  <2>2. request.pc # "idle"
      BY <1>2, <2>1 DEF Written
  <2>3. request \in RequestRecords
      BY <1>1, <2>2 DEF AnswerInv, SearchTypeOK, NoRequest
  <2>4. request'.disturbed
      BY <2>1, <2>2, <2>3 DEF Written, RequestRecords
  <2> QED
      BY <1>2, <2>4
<1>6. CASE Tick
  <2>1. request.pc # "idle"
      BY <1>2, <1>6 DEF Tick
  <2>2. request \in RequestRecords
      BY <1>1, <2>1 DEF AnswerInv, SearchTypeOK, NoRequest
  <2>3. request.ask.stale = Any
    <3>1. SUFFICES ASSUME request.ask.stale # Any PROVE request'.disturbed
        BY <1>2
    <3> QED
        BY <1>6, <2>1, <2>2, <3>1 DEF Tick, RequestRecords
  <2>4. request' = request /\ table' = table
      BY <1>6, <2>3 DEF Tick
  <2>5. Gathers(table, time, request)
      BY <1>2, <2>1, <2>4 DEF QuietInv
  <2> QED
      BY <2>3, <2>4, <2>5, GathersAnyTime
<1> QED
    BY <1>3, <1>4, <1>5, <1>6 DEF SearchNext

(* What an undisturbed request has gathered so far is what the table and   *)
(* the clock say by now, so that its SELECTs are as good as one snapshot.  *)
THEOREM QuietRequestsGather == SearchSpec => []QuietInv
<1>1. SearchInit => QuietInv
    BY AnswerInitially DEF SearchInit, QuietInv, NoRequest
<1> QED
    BY <1>1, QuietStep, PTL DEF SearchSpec

LEMMA TotalIsFound ==
    ASSUME NEW ask
    PROVE  TotalOf(ask) = Cardinality(FoundIn(table, ask, ModeOf(table, ask, time), time))
    BY FoundInTable DEF TotalOf, ModeOf

(* A narrower search.                                                      *)
LEMMA NarrowedAsk ==
    ASSUME NEW ask \in Questions, NEW field \in {"listing_type", "task_categories", "payment_network"}, NEW value
    PROVE  LET n == [ask EXCEPT ![field] = value] IN
           /\ n.active = ask.active /\ n.include_test = ask.include_test /\ n.claimed = ask.claimed
           /\ n.max_price = ask.max_price /\ n.has_template = ask.has_template /\ n.stale = ask.stale
           /\ n.has_q = ask.has_q
           /\ n.listing_type = IF field = "listing_type" THEN value ELSE ask.listing_type
           /\ n.task_categories = IF field = "task_categories" THEN value ELSE ask.task_categories
           /\ n.payment_network = IF field = "payment_network" THEN value ELSE ask.payment_network
<1>1. ask = [active |-> ask.active, include_test |-> ask.include_test, listing_type |-> ask.listing_type,
             task_categories |-> ask.task_categories, claimed |-> ask.claimed,
             payment_network |-> ask.payment_network, max_price |-> ask.max_price,
             has_template |-> ask.has_template, stale |-> ask.stale, has_q |-> ask.has_q,
             compact |-> ask.compact]
    BY QuestionAssumption
<1> QED
    BY <1>1

(* A search that finds some of what a wider one found, is in its mode.     *)
LEMMA NarrowedMode ==
    ASSUME NEW T, NEW now, NEW ask, NEW n, n.has_q = ask.has_q,
           \A mode : FoundIn(T, n, mode, now) \subseteq FoundIn(T, ask, mode, now),
           Cardinality(FoundIn(T, n, ModeOf(T, ask, now), now)) > 0
    PROVE  ModeOf(T, n, now) = ModeOf(T, ask, now)
<1>1. CASE ~ask.has_q
    BY <1>1 DEF ModeOf
<1>2. CASE ask.has_q /\ Cardinality(FoundIn(T, ask, "rank", now)) > 0
    BY <1>2 DEF ModeOf
<1>3. CASE ask.has_q /\ ~(Cardinality(FoundIn(T, ask, "rank", now)) > 0)
  <2> DEFINE wide == FoundIn(T, ask, "rank", now)
             narrow == FoundIn(T, n, "rank", now)
  <2>1. IsFiniteSet(wide) /\ narrow \subseteq wide /\ Cardinality(wide) \in Nat /\ Cardinality(narrow) \in Nat
      BY FoundInIsFinite
  <2>2. Cardinality(narrow) <= Cardinality(wide)
    <3> HIDE DEF wide, narrow
    <3> QED
        BY <2>1, FS_Subset
  <2>3. ~(Cardinality(narrow) > 0)
      BY <1>3, <2>1, <2>2
  <2> QED
      BY <1>3, <2>3 DEF ModeOf
<1> QED
    BY <1>1, <1>2, <1>3

(* What a narrowed search finds, when its value was counted at all.        *)
LEMMA NarrowedTotal ==
    ASSUME NEW ask, NEW n, NEW G, n.has_q = ask.has_q,
           \A mode : FoundIn(table, n, mode, time) \subseteq FoundIn(table, ask, mode, time),
           FoundIn(table, n, ModeOf(table, ask, time), time) = G, Cardinality(G) > 0
    PROVE  TotalOf(n) = Cardinality(G)
<1>1. ModeOf(table, n, time) = ModeOf(table, ask, time)
    BY NarrowedMode
<1> QED
    BY <1>1, TotalIsFound

WithType(T, F, t) == {i \in F : T[i].shape.listing_type = t}
WithCategory(T, F, c) == {i \in F : c \in T[i].shape.task_categories}
WithNetwork(T, F, w) == {i \in F : \E po \in T[i].shape.payment_options : po.network = w}

LEMMA NarrowedByType ==
    ASSUME NEW T, NEW now, NEW ask \in Questions, NEW t \in ListingTypes, ask.listing_type \in {Any, t}, NEW mode
    PROVE  FoundIn(T, [ask EXCEPT !["listing_type"] = t], mode, now)
             = WithType(T, FoundIn(T, ask, mode, now), t)
<1> DEFINE n == [ask EXCEPT !["listing_type"] = t]
<1>1. /\ n.active = ask.active /\ n.include_test = ask.include_test /\ n.claimed = ask.claimed
      /\ n.max_price = ask.max_price /\ n.has_template = ask.has_template /\ n.stale = ask.stale
      /\ n.listing_type = t /\ n.task_categories = ask.task_categories /\ n.payment_network = ask.payment_network
    BY NarrowedAsk
<1>2. t # Any
    BY QuestionAssumption
<1> HIDE DEF n
<1>3. \A row : Payable(n, row) <=> Payable(ask, row)
    BY <1>1 DEF Payable
<1>4. \A row : FilterConditions(n, row, now) <=> FilterConditions(ask, row, now) /\ row.shape.listing_type = t
    BY <1>1, <1>2, <1>3 DEF FilterConditions
<1>5. FoundIn(T, n, mode, now) = WithType(T, FoundIn(T, ask, mode, now), t)
    BY <1>4 DEF FoundIn, WithType
<1> QED
    BY <1>5 DEF n

LEMMA NarrowedByCategory ==
    ASSUME NEW T, NEW now, NEW ask \in Questions, NEW c, ask.task_categories = {}, NEW mode
    PROVE  FoundIn(T, [ask EXCEPT !["task_categories"] = {c}], mode, now)
             = WithCategory(T, FoundIn(T, ask, mode, now), c)
<1> DEFINE n == [ask EXCEPT !["task_categories"] = {c}]
<1>1. /\ n.active = ask.active /\ n.include_test = ask.include_test /\ n.claimed = ask.claimed
      /\ n.max_price = ask.max_price /\ n.has_template = ask.has_template /\ n.stale = ask.stale
      /\ n.listing_type = ask.listing_type /\ n.task_categories = {c} /\ n.payment_network = ask.payment_network
    BY NarrowedAsk
<1> HIDE DEF n
<1>2. \A row : Payable(n, row) <=> Payable(ask, row)
    BY <1>1 DEF Payable
<1>3. \A row : {c} \cap row.shape.task_categories # {} <=> c \in row.shape.task_categories
    OBVIOUS
<1>4. \A row : FilterConditions(n, row, now) <=> FilterConditions(ask, row, now) /\ c \in row.shape.task_categories
    BY <1>1, <1>2, <1>3 DEF FilterConditions
<1>5. FoundIn(T, n, mode, now) = WithCategory(T, FoundIn(T, ask, mode, now), c)
    BY <1>4 DEF FoundIn, WithCategory
<1> QED
    BY <1>5 DEF n

LEMMA NarrowedByNetwork ==
    ASSUME NEW T, NEW now, NEW ask \in Questions, NEW w \in Networks, ask.payment_network = Any, NEW mode
    PROVE  LET n == [ask EXCEPT !["payment_network"] = w]
               G == WithNetwork(T, FoundIn(T, ask, mode, now), w)
           IN  /\ FoundIn(T, n, mode, now) \subseteq G
               /\ ask.max_price = Any => FoundIn(T, n, mode, now) = G
<1> DEFINE n == [ask EXCEPT !["payment_network"] = w]
<1>1. /\ n.active = ask.active /\ n.include_test = ask.include_test /\ n.claimed = ask.claimed
      /\ n.max_price = ask.max_price /\ n.has_template = ask.has_template /\ n.stale = ask.stale
      /\ n.listing_type = ask.listing_type /\ n.task_categories = ask.task_categories /\ n.payment_network = w
    BY NarrowedAsk
<1>2. w # Any
    BY QuestionAssumption
<1> HIDE DEF n
<1>3. ASSUME NEW row, Payable(n, row)
      PROVE  Payable(ask, row) /\ \E po \in row.shape.payment_options : po.network = w
    BY <1>1, <1>2, <1>3 DEF Payable
<1>4. ASSUME NEW row, ask.max_price = Any, \E po \in row.shape.payment_options : po.network = w
      PROVE  Payable(n, row) /\ Payable(ask, row)
    BY <1>1, <1>4 DEF Payable
<1>5. \A row : FilterConditions(n, row, now) =>
                 FilterConditions(ask, row, now) /\ \E po \in row.shape.payment_options : po.network = w
    BY <1>1, <1>3 DEF FilterConditions
<1>6. ASSUME ask.max_price = Any, NEW row, FilterConditions(ask, row, now),
             \E po \in row.shape.payment_options : po.network = w
      PROVE  FilterConditions(n, row, now)
    BY <1>1, <1>4, <1>6 DEF FilterConditions
<1>7. FoundIn(T, n, mode, now) \subseteq WithNetwork(T, FoundIn(T, ask, mode, now), w)
    BY <1>5 DEF FoundIn, WithNetwork
<1>8. ASSUME ask.max_price = Any
      PROVE  WithNetwork(T, FoundIn(T, ask, mode, now), w) \subseteq FoundIn(T, n, mode, now)
    BY <1>6, <1>8 DEF FoundIn, WithNetwork
<1> QED
    BY <1>7, <1>8 DEF n

LEMMA SearchesAddUp ==
    ASSUME QuietInv, Quiet("search")
    PROVE  /\ request.total = Cardinality(request.page)
           /\ request.total = TotalOf(request.ask)
           /\ ~request.ask.compact => {s.id : s \in request.shown} = {p.id : p \in request.page}
<1> DEFINE F == FoundIn(table, request.ask, request.mode, time)
<1>1. request.pc = "answered" /\ request.kind = "search" /\ Gathers(table, time, request)
    BY DEF Quiet, QuietInv
<1>2. /\ request.total = Cardinality(F) /\ request.page = {[id |-> i, row |-> table[i]] : i \in F}
      /\ request.mode = ModeOf(table, request.ask, time) /\ GathersShown(request, F)
    BY <1>1 DEF Gathers
<1>3. IsFiniteSet(F)
    BY FoundInIsFinite
<1>4. TotalOf(request.ask) = Cardinality(F)
    BY <1>2, TotalIsFound
<1>5. Cardinality(request.page) = Cardinality(F) /\ IdsOf(request.page) = F
    BY <1>2, <1>3, PageCounts
<1>6. ~request.ask.compact => IdsOf(request.shown) = F
    BY <1>1, <1>2 DEF GathersShown
<1> HIDE DEF F
<1> QED
    BY <1>2, <1>4, <1>5, <1>6 DEF IdsOf

LEMMA SumIsSumOver == ASSUME NEW f, NEW S PROVE Sum(f, S) = SumOver(f, S)
    BY DEF Sum, SumOver, MapThenSumSet, MapThenFoldSet

(* The counts by one value of each listing split the total.                *)
LEMMA CountsSplit ==
    ASSUME NEW F, IsFiniteSet(F), F \subseteq ListingIds, \A i \in F : table[i] \in TableRows
    PROVE  /\ Cardinality(F) = Sum(TypesIn(table, F), ListingTypes)
           /\ Cardinality(F) = Sum(SourcesIn(table, F), Sources)
<1>1. \A i \in F : table[i].shape \in Shapes
    BY DEF TableRows
<1>2. Cardinality(F) = Sum(TypesIn(table, F), ListingTypes)
  <2> DEFINE of == [i \in F |-> table[i].shape.listing_type]
  <2>1. \A i \in F : of[i] \in ListingTypes
      BY <1>1 DEF ListingTypes
  <2>2. \A t : {i \in F : of[i] = t} = {i \in F : table[i].shape.listing_type = t}
      OBVIOUS
  <2> HIDE DEF of
  <2>3. Cardinality(F) = SumOver([t \in ListingTypes |-> Cardinality({i \in F : of[i] = t})], ListingTypes)
      BY <2>1, QuestionAssumption, CardinalityByValue
  <2>4. [t \in ListingTypes |-> Cardinality({i \in F : of[i] = t})] = TypesIn(table, F)
      BY <2>2 DEF TypesIn
  <2> QED
      BY <2>3, <2>4, SumIsSumOver
<1>3. Cardinality(F) = Sum(SourcesIn(table, F), Sources)
  <2> DEFINE of == [i \in F |-> table[i].shape.source]
  <2>1. \A i \in F : of[i] \in Sources
      BY <1>1 DEF Sources
  <2>2. \A t : {i \in F : of[i] = t} = {i \in F : table[i].shape.source = t}
      OBVIOUS
  <2> HIDE DEF of
  <2>3. Cardinality(F) = SumOver([t \in Sources |-> Cardinality({i \in F : of[i] = t})], Sources)
      BY <2>1, QuestionAssumption, CardinalityByValue
  <2>4. [t \in Sources |-> Cardinality({i \in F : of[i] = t})] = SourcesIn(table, F)
      BY <2>2 DEF SourcesIn
  <2> QED
      BY <2>3, <2>4, SumIsSumOver
<1> QED
    BY <1>2, <1>3

LEMMA FacetsForetell ==
    ASSUME QuietInv
    PROVE  QuietFacetsForetellSearches
<1> SUFFICES ASSUME Quiet("facets") PROVE QuietFacetsForetellSearches
    BY DEF QuietFacetsForetellSearches
<1> DEFINE ask == request.ask
           F == FoundIn(table, ask, request.mode, time)
<1>1. request.pc = "answered" /\ request.kind = "facets" /\ Gathers(table, time, request) /\ AnswerInv
    BY DEF Quiet, QuietInv
<1>2. ask \in Questions /\ table \in [ListingIds -> TableRows \cup {Absent}]
    BY <1>1 DEF AnswerInv, SearchTypeOK, RequestRecords, NoRequest
<1>3. /\ request.total = Cardinality(F) /\ request.mode = ModeOf(table, ask, time)
      /\ request.by_task_category = CategoriesIn(table, F) /\ request.by_listing_type = TypesIn(table, F)
      /\ request.by_network = NetworksIn(table, F) /\ request.by_source = SourcesIn(table, F)
    BY <1>1 DEF Gathers, GathersFacets
<1>4. F \subseteq ListingIds /\ IsFiniteSet(F) /\ \A i \in F : table[i] \in TableRows
    BY <1>2, FoundInIsFinite DEF FoundIn
<1>5. request.total = TotalOf(ask)
    BY <1>3, TotalIsFound
<1>6. request.total = Sum(request.by_listing_type, ListingTypes) /\ request.total = Sum(request.by_source, Sources)
    BY <1>3, <1>4, CountsSplit
<1>7. ASSUME NEW t \in ListingTypes, request.by_listing_type[t] > 0
      PROVE  request.by_listing_type[t] = TotalOf(Narrowed("listing_type", t))
  <2> DEFINE G == WithType(table, F, t)
             n == [ask EXCEPT !["listing_type"] = t]
  <2>1. request.by_listing_type[t] = Cardinality(G)
      BY <1>3 DEF TypesIn, WithType
  <2>2. ask.listing_type \in {Any, t}
    <3>1. G # {}
        BY <1>7, <2>1, FS_EmptySet
    <3>2. PICK i \in G : TRUE
        BY <3>1
    <3>3. FilterConditions(ask, table[i], time) /\ table[i].shape.listing_type = t
        BY <3>2 DEF FoundIn, WithType
    <3> QED
        BY <3>3 DEF FilterConditions
  <2>3. \A mode : FoundIn(table, n, mode, time) = WithType(table, FoundIn(table, ask, mode, time), t)
      BY <1>2, <2>2, NarrowedByType
  <2>4. FoundIn(table, n, ModeOf(table, ask, time), time) = G
      BY <1>3, <2>3
  <2>5. \A mode : FoundIn(table, n, mode, time) \subseteq FoundIn(table, ask, mode, time)
      BY <2>3 DEF WithType
  <2>6. n.has_q = ask.has_q
      BY <1>2, NarrowedAsk
  <2>7. Cardinality(G) > 0
      BY <1>7, <2>1
  <2>8. Narrowed("listing_type", t) = n
      BY DEF Narrowed
  <2> HIDE DEF G, n
  <2>9. TotalOf(n) = Cardinality(G)
      BY <2>4, <2>5, <2>6, <2>7, NarrowedTotal
  <2> QED
      BY <2>1, <2>8, <2>9
<1>8. ASSUME ask.task_categories = {}, NEW c \in TaskCategories, request.by_task_category[c] > 0
      PROVE  request.by_task_category[c] = TotalOf(Narrowed("task_categories", {c}))
  <2> DEFINE G == WithCategory(table, F, c)
             n == [ask EXCEPT !["task_categories"] = {c}]
  <2>1. request.by_task_category[c] = Cardinality(G)
      BY <1>3 DEF CategoriesIn, WithCategory
  <2>2. \A mode : FoundIn(table, n, mode, time) = WithCategory(table, FoundIn(table, ask, mode, time), c)
      BY <1>2, <1>8, NarrowedByCategory
  <2>3. FoundIn(table, n, ModeOf(table, ask, time), time) = G
      BY <1>3, <2>2
  <2>4. \A mode : FoundIn(table, n, mode, time) \subseteq FoundIn(table, ask, mode, time)
      BY <2>2 DEF WithCategory
  <2>5. n.has_q = ask.has_q
      BY <1>2, NarrowedAsk
  <2>6. Cardinality(G) > 0
      BY <1>8, <2>1
  <2>7. Narrowed("task_categories", {c}) = n
      BY DEF Narrowed
  <2> HIDE DEF G, n
  <2>8. TotalOf(n) = Cardinality(G)
      BY <2>3, <2>4, <2>5, <2>6, NarrowedTotal
  <2> QED
      BY <2>1, <2>7, <2>8
<1>9. ASSUME ask.payment_network = Any, NEW w \in Networks, request.by_network[w] > 0
      PROVE  IF ask.max_price = Any THEN TotalOf(Narrowed("payment_network", w)) = request.by_network[w]
             ELSE ~ask.has_q => TotalOf(Narrowed("payment_network", w)) <= request.by_network[w]
  <2> DEFINE G == WithNetwork(table, F, w)
             n == [ask EXCEPT !["payment_network"] = w]
             found == FoundIn(table, n, ModeOf(table, ask, time), time)
  <2>1. request.by_network[w] = Cardinality(G)
      BY <1>3 DEF NetworksIn, WithNetwork
  <2>2. \A mode :
          /\ FoundIn(table, n, mode, time) \subseteq WithNetwork(table, FoundIn(table, ask, mode, time), w)
          /\ ask.max_price = Any =>
               FoundIn(table, n, mode, time) = WithNetwork(table, FoundIn(table, ask, mode, time), w)
      BY <1>2, <1>9, NarrowedByNetwork
  <2>3. found \subseteq G /\ (ask.max_price = Any => found = G)
      BY <1>3, <2>2
  <2>4. \A mode : FoundIn(table, n, mode, time) \subseteq FoundIn(table, ask, mode, time)
      BY <2>2 DEF WithNetwork
  <2>5. n.has_q = ask.has_q
      BY <1>2, NarrowedAsk
  <2>6. Cardinality(G) > 0 /\ G \subseteq F
      BY <1>9, <2>1 DEF WithNetwork
  <2>7. Narrowed("payment_network", w) = n
      BY DEF Narrowed
  <2> HIDE DEF G, n
  <2>8. CASE ask.max_price = Any
    <3>1. TotalOf(n) = Cardinality(G)
        BY <2>3, <2>4, <2>5, <2>6, <2>8, NarrowedTotal
    <3> QED
        BY <2>1, <2>7, <2>8, <3>1
  <2>9. CASE ask.max_price # Any
    <3> SUFFICES ASSUME ~ask.has_q PROVE TotalOf(n) <= Cardinality(G)
        BY <2>1, <2>7, <2>9
    <3>1. ModeOf(table, n, time) = ModeOf(table, ask, time)
        BY <2>5 DEF ModeOf
    <3>2. TotalOf(n) = Cardinality(found)
        BY <3>1, TotalIsFound
    <3>3. IsFiniteSet(G)
        BY <1>4, <2>6, FS_Subset
    <3>4. Cardinality(found) <= Cardinality(G)
      <4> HIDE DEF found
      <4> QED
          BY <2>3, <3>3, FS_Subset
    <3> QED
        BY <3>2, <3>4
  <2> QED
      BY <2>8, <2>9
<1> QED
  <2> HIDE DEF F
  <2> QED
      BY <1>5, <1>6, <1>7, <1>8, <1>9 DEF QuietFacetsForetellSearches

(* An answer nobody disturbed adds up: a search has the total it reports,  *)
(* facets report what the searches that follow them would, whatever the    *)
(* listings, the question and the order of the counts.                     *)
THEOREM QuietAnswersAddUp == SearchSpec => []QuietAnswersAgree
<1>1. QuietInv => QuietAnswersAgree
    BY SearchesAddUp, FacetsForetell DEF QuietAnswersAgree, QuietSearchesAddUp
<1> QED
    BY <1>1, QuietRequestsGather, PTL

===============================================================================
