---------------------------- MODULE OperatedBoard ----------------------------
(***************************************************************************)
(* The board while an operator works on the same database by hand          *)
(* (scripts/admin_update_listing.py).                                      *)
(***************************************************************************)
EXTENDS Board, OperatorScripts

operatedVars == <<vars, command>>

OperatedInit == Init /\ OperatorInit

OperatedNext ==
    \/ Next /\ UNCHANGED command
    \/ OperatorNext /\ UNCHANGED <<lastPurge, req, importVars>>

OperatedSpec == OperatedInit /\ [][OperatedNext]_operatedVars

-----------------------------------------------------------------------------
(* A listing that is not test data disappears only as an import put on the *)
(* do-not-import list, or inactive: a hard delete whose prompt was open    *)
(* while the owner reactivated the listing does not take it away (script:  *)
(* only for an INACTIVE listing).  A test listing disappears only when it  *)
(* is older than what the purge or the operator asked for.                 *)
RemovalWarranted ==
    \A i \in Ids :
        Exists(i) /\ ~Exists(i)' =>
            \/ ~listings[i].is_test /\ listings[i].status = "inactive"
            \/ SourceSlot(listings[i]) \in doNotImport'
            \/ /\ listings[i].is_test
               /\ \/ listings[i].created_at < clock - TestTTL
                  \/ \E s \in Operators, age \in PurgeAges :
                       Waiting(s, "purge") /\ listings[i].created_at < clock - age
                  \/ listings[i].status = "inactive"
RemovalsAreWarranted == [][RemovalWarranted]_operatedVars
=============================================================================
