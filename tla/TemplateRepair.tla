---------------------------- MODULE TemplateRepair ----------------------------
(***************************************************************************)
(* The template links of imported listings, and the operator's one-time    *)
(* repair of the old ones (scripts/admin_fix_template_urls.py).  A listing *)
(* is reduced to what its link depends on.  Beside the repair write a sync *)
(* (db.import_upsert with the board's URL as template_base, then the       *)
(* missing marks), a claim, its owner, a removal, and another operator     *)
(* with scripts/admin_update_listing.py.  Each of their statements is one  *)
(* step; what goes before it in a handler is ListingRoutes' subject.       *)
(***************************************************************************)
EXTENDS FiniteSets

CONSTANTS
    Listings,      \* ids of imported listings
    Repairs,       \* runs of the repair with --apply
    Offboard       \* links that do not start with the board's prefix

CONSTANTS None, Board, NotShown    \* no link; the board's own link for the row; not in a preview

ASSUME LinksAssumption ==
    /\ None \notin Offboard /\ Board \notin Offboard /\ None # Board
    /\ NotShown \notin Offboard \cup {None, Board}

VARIABLES
    rows,          \* [Listings -> row]; pc says whether it is in the table
    repair,        \* the runs: pc and the preview
    edited         \* listings another operator wrote (history)

repairVars == <<rows, repair, edited>>

Links == Offboard \cup {None, Board}
NoPreview == [i \in Listings |-> NotShown]
NoRun == [pc |-> "idle", preview |-> NoPreview]
NewRow(schema) ==
    [pc |-> "listed", claimed |-> FALSE, missing |-> FALSE, schema |-> schema,
     link |-> IF schema THEN Board ELSE None]

Listed(i) == rows[i].pc = "listed"

(* Mutant: the record's own link is written. *)
RefreshedKeepingSource(row, schema, link) ==
    IF row.claimed THEN [row EXCEPT !.missing = FALSE]
    ELSE [NewRow(schema) EXCEPT !.link = IF link = Board THEN @ ELSE link]

(* The record's own link never counts.  A claimed row only stops being missing. *)
Refreshed(row, schema, link) ==
    IF row.claimed THEN [row EXCEPT !.missing = FALSE]
    ELSE NewRow(schema)

(* A record that is in the batch. *)
ImportUpsert(i, schema, link) ==
    /\ rows[i].pc # "removed"
    /\ rows' = [rows EXCEPT ![i] = IF Listed(i) THEN Refreshed(rows[i], schema, link) ELSE NewRow(schema)]
    /\ UNCHANGED <<repair, edited>>

(* The listings of a source that its batch left out. *)
MarkMissingFromSource(S) ==
    /\ S # {} /\ \A i \in S : Listed(i) /\ ~rows[i].missing
    /\ rows' = [i \in Listings |-> IF i \in S THEN [rows[i] EXCEPT !.missing = TRUE] ELSE rows[i]]
    /\ UNCHANGED <<repair, edited>>

Claim(i) ==
    /\ Listed(i) /\ ~rows[i].claimed
    /\ rows' = [rows EXCEPT ![i].claimed = TRUE]
    /\ UNCHANGED <<repair, edited>>

(* A signed PATCH. *)
OwnerWrites(i, schema, link) ==
    /\ Listed(i) /\ rows[i].claimed
    /\ rows' = [rows EXCEPT ![i].schema = schema, ![i].link = link]
    /\ UNCHANGED <<repair, edited>>

RemoveImported(i) ==
    /\ Listed(i)
    /\ rows' = [rows EXCEPT ![i] = [NewRow(FALSE) EXCEPT !.pc = "removed"]]
    /\ UNCHANGED <<repair, edited>>

(* --set or --unset of template_url and output_schema. *)
OperatorEdits(i, schema, link) ==
    /\ Listed(i)
    /\ rows' = [rows EXCEPT ![i].schema = schema, ![i].link = link]
    /\ edited' = edited \cup {i}
    /\ UNCHANGED repair

-----------------------------------------------------------------------------
(* Mutants of the conditions of the preview and the UPDATE. *)
RepairableClaimedToo(i) == Listed(i) /\ rows[i].missing /\ rows[i].schema /\ rows[i].link # Board
RepairableWithoutSchema(i) == Listed(i) /\ ~rows[i].claimed /\ rows[i].missing /\ rows[i].link # Board

(* _WHERE *)
Repairable(i) ==
    Listed(i) /\ ~rows[i].claimed /\ rows[i].missing /\ rows[i].schema /\ rows[i].link # Board

Shown(s) == {i \in Listings : repair[s].preview[i] # NotShown}

(* The preview, of as many rows as the operator expects. *)
RepairStart(s) ==
    /\ repair[s].pc = "idle"
    /\ repair' = [repair EXCEPT ![s].pc = "shown",
                    ![s].preview = [i \in Listings |-> IF Repairable(i) THEN rows[i].link ELSE NotShown]]
    /\ UNCHANGED <<rows, edited>>

(* The confirmation does not match. *)
RepairDeclined(s) ==
    /\ repair[s].pc = "shown"
    /\ repair' = [repair EXCEPT ![s] = NoRun]
    /\ UNCHANGED <<rows, edited>>

(* The UPDATE looks at the rows as they are now; it is committed when it   *)
(* touched exactly those of the preview.                                   *)
RepairCommit(s) ==
    LET touched == {i \in Listings : Repairable(i)} IN
    /\ repair[s].pc = "shown" /\ touched = Shown(s)
    /\ rows' = [i \in Listings |-> IF i \in touched THEN [rows[i] EXCEPT !.link = Board] ELSE rows[i]]
    /\ repair' = [repair EXCEPT ![s].pc = "committed"]
    /\ UNCHANGED edited

RepairRollback(s) ==
    /\ repair[s].pc = "shown" /\ {i \in Listings : Repairable(i)} # Shown(s)
    /\ repair' = [repair EXCEPT ![s] = NoRun]
    /\ UNCHANGED <<rows, edited>>

(* One line, with the links of the preview as what was there before. *)
RepairLog(s) ==
    /\ repair[s].pc = "committed"
    /\ repair' = [repair EXCEPT ![s] = NoRun]
    /\ UNCHANGED <<rows, edited>>

(* The table before its first repair: imports of any age, some still with  *)
(* the link their source gave them.                                        *)
OldRows ==
    {r \in [pc : {"listed"}, claimed : {FALSE}, missing : BOOLEAN, schema : BOOLEAN, link : Links] :
        r.link = Board => r.schema}

RepairInit ==
    /\ rows \in [Listings -> OldRows \cup {[NewRow(FALSE) EXCEPT !.pc = "absent"]}]
    /\ repair = [s \in Repairs |-> NoRun]
    /\ edited = {}

RepairNext ==
    \/ \E i \in Listings :
         \/ Claim(i) \/ RemoveImported(i)
         \/ \E link \in Links, schema \in BOOLEAN :
              ImportUpsert(i, schema, link) \/ OwnerWrites(i, schema, link) \/ OperatorEdits(i, schema, link)
    \/ \E S \in SUBSET Listings : MarkMissingFromSource(S)
    \/ \E s \in Repairs :
         RepairStart(s) \/ RepairDeclined(s) \/ RepairCommit(s) \/ RepairRollback(s) \/ RepairLog(s)

RepairSpec == RepairInit /\ [][RepairNext]_repairVars

-----------------------------------------------------------------------------
RowRecords ==
    [pc : {"absent", "listed", "removed"}, claimed : BOOLEAN, missing : BOOLEAN, schema : BOOLEAN, link : Links]

RepairTypeOK ==
    /\ rows \in [Listings -> RowRecords]
    /\ repair \in [Repairs -> [pc : {"idle", "shown", "committed"},
                               preview : [Listings -> Links \cup {NotShown}]]]
    /\ edited \subseteq Listings

(* "a claimed listing's content is its owner's, and a re-sync leaves it    *)
(* alone, so does this" (admin_fix_template_urls.py:12-14): whenever the   *)
(* claim lands between a preview and its UPDATE, no sync and no repair     *)
(* changes the link or the schema of a claimed listing.                    *)
OthersLeaveClaimedAlone ==
    \A i \in Listings :
        rows[i].claimed /\ <<rows'[i].link, rows'[i].schema>> # <<rows[i].link, rows[i].schema>> =>
            \/ RemoveImported(i)
            \/ \E link \in Links, schema \in BOOLEAN : OwnerWrites(i, schema, link) \/ OperatorEdits(i, schema, link)
ClaimedLinksAreTheOwners == [][OthersLeaveClaimedAlone]_repairVars

(* "and null when it has no output_schema, since that route would 404"     *)
(* (README.md:480-482): the board's link of an unclaimed import answers,   *)
(* unless an operator edited the listing by hand.                          *)
BoardLinksAnswer ==
    \A i \in Listings \ edited : Listed(i) /\ ~rows[i].claimed /\ rows[i].link = Board => rows[i].schema

(* A link somewhere else is an old one: on an unclaimed import nothing but *)
(* an operator's own edit ever puts one again ("templates do not depend on *)
(* files hosted elsewhere", README.md:482-483): what a sync or a repair    *)
(* replaced stays replaced.                                                *)
NoneTurnOffboard ==
    \A i \in Listings :
        /\ Listed(i)' /\ ~rows'[i].claimed /\ rows'[i].link \in Offboard
        /\ ~(Listed(i) /\ rows[i].link = rows'[i].link)
        => i \in edited'
OffboardLinksAreOld == [][NoneTurnOffboard]_repairVars
=============================================================================
