----------------------------- MODULE MCReading -----------------------------
(***************************************************************************)
(* What a reader of the board meets, for TLC: a search or facets request,  *)
(* a walk over pages, the badges of the listings shown.  The three share   *)
(* no state here, so one of them moves and the others stay as they began.  *)
(***************************************************************************)
EXTENDS MCSearch, MCPagination, BadgeCache

VARIABLE part
readingVars == <<part, searchVars, pagingVars, badgeVars>>

ReadingInit ==
    /\ part \in {"search", "pages", "badges"}
    /\ SearchInit /\ PagingInit /\ BadgeInit

(* Once the clock has stopped with an answer in the cache nothing is left. *)
NothingToLookUp ==
    /\ monotonic = MaxClock /\ \A l \in Lookups : lookup[l].pc = "idle"
    /\ UNCHANGED badgeVars

ReadingNext ==
    \/ part = "search" /\ SearchNext /\ UNCHANGED <<part, pagingVars, badgeVars>>
    \/ part = "pages" /\ PagingNext /\ UNCHANGED <<part, searchVars, badgeVars>>
    \/ part = "badges" /\ (BadgeNext \/ NothingToLookUp) /\ UNCHANGED <<part, searchVars, pagingVars>>

(* Fair to the lookups, as BadgeFairSpec is. *)
ReadingSpec ==
    /\ ReadingInit /\ [][ReadingNext]_readingVars
    /\ \A l \in Lookups : WF_badgeVars(Finishes(l))
=============================================================================
