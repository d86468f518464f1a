--------------------------- MODULE OperatorScripts ---------------------------
(***************************************************************************)
(* scripts/admin_update_listing.py: the operator edits or deletes one      *)
(* listing, or purges test listings, directly in the database.  A command  *)
(* reads, checks and prints, waits for the operator to retype the id, and  *)
(* only then writes, guarded by the values the operator said to expect.    *)
(* Dry runs and refused commands change nothing and are left out, as is    *)
(* the log file, which nothing reads.                                      *)
(***************************************************************************)
EXTENDS ListingStore

CONSTANTS
    Operators,   \* how many commands may be at their prompt
    Edits,       \* --set commands: [expect : set of columns, change : columns to values]
    Deletes,     \* --delete commands: the columns expected
    PurgeAges    \* --older-than-hours of --purge-test, in clock ticks

(* What both --expect and --set can name; is_test and claimed are not among *)
(* them.                                                                    *)
EditType ==
    [test_name |-> BOOLEAN, listing_type |-> Types, endpoint_url |-> Urls,
     payment_wallet |-> Wallets \cup {Placeholder} \cup NonEvm,
     pricing_model |-> PricingModels, pricing_amount |-> BOOLEAN,
     payment_options |-> BOOLEAN, submitted_by |-> Wallets \cup {Placeholder},
     status |-> {"active", "inactive"}]
EDITABLE_FIELDS == DOMAIN EditType

ASSUME OperatorAssumption ==
    /\ \A e \in Edits : /\ e.expect \in SUBSET EDITABLE_FIELDS \ {{}}
                        /\ DOMAIN e.change \in SUBSET EDITABLE_FIELDS \ {{}}
                        /\ \A c \in DOMAIN e.change : e.change[c] \in EditType[c]
    /\ Deletes \subseteq SUBSET EDITABLE_FIELDS \ {{}}
    /\ PurgeAges \subseteq Nat

VARIABLE command   \* [Operators -> the command at its prompt, or NoCommand]

NoCommand == [cmd |-> "none"]
Waiting(s, cmd) == command[s].cmd = cmd
Returns(s) == command' = [command EXCEPT ![s] = NoCommand]

(* The values stated with --expect, which the row has when it is read. *)
Expecting(columns, row) == [c \in columns |-> row[c]]

(* The WHERE clause: the row is there and still has every expected value.  *)
GuardHolds(s) ==
    /\ Exists(command[s].id)
    /\ \A c \in DOMAIN command[s].expect : listings[command[s].id][c] = command[s].expect[c]

-----------------------------------------------------------------------------
(* --set *)

(* Mutant: the prefix rule of PATCH is not repeated here.                  *)
EditValidWithoutNames(row, change) ==
    /\ PricingConsistent(Merged(change, row, "listing_type"), Merged(change, row, "pricing_model"),
                         Merged(change, row, "pricing_amount"), Merged(change, row, "payment_options"))
    /\ ~is_reserved_address(Merged(change, row, "submitted_by"))

(* The listing that would result passes the checks of a posting. *)
EditValid(row, change) ==
    /\ PricingConsistent(Merged(change, row, "listing_type"), Merged(change, row, "pricing_model"),
                         Merged(change, row, "pricing_amount"), Merged(change, row, "payment_options"))
    /\ Merged(change, row, "test_name") = row.is_test
    /\ ~is_reserved_address(Merged(change, row, "submitted_by"))

(* Only what differs from the row as it was read is SET. *)
Diff(change, row) == {c \in DOMAIN change : change[c] # row[c]}

EditStart(s, id, edit) ==
    /\ command[s] = NoCommand /\ Exists(id)
    /\ EditValid(listings[id], edit.change)
    /\ Diff(edit.change, listings[id]) # {}
    /\ command' = [command EXCEPT ![s] =
                     [cmd |-> "edit", id |-> id, expect |-> Expecting(edit.expect, listings[id]),
                      set |-> [c \in Diff(edit.change, listings[id]) |-> edit.change[c]]]]
    /\ UNCHANGED storeVars

(* Mutant: the assignments without endpoint_key.                           *)
EditedRowKeepingKey(s, row) ==
    [UpdatedRow(row, command[s].set, clock) EXCEPT
        !.endpoint_key = row.endpoint_key,
        !.submitted_by = Merged(command[s].set, row, "submitted_by")]

EditedRow(s, row) ==
    [UpdatedRow(row, command[s].set, clock) EXCEPT
        !.submitted_by = Merged(command[s].set, row, "submitted_by")]

EditWrite(s) ==
    /\ Waiting(s, "edit")
    /\ LET id == command[s].id
           T == [listings EXCEPT ![id] = EditedRow(s, @)] IN
         \/ GuardHolds(s) /\ Commits(T) /\ listings' = T
         \/ GuardHolds(s) /\ ~Commits(T) /\ UNCHANGED listings
         \/ ~GuardHolds(s) /\ UNCHANGED listings
    /\ Returns(s)
    /\ UNCHANGED <<doNotImport, clock>>

-----------------------------------------------------------------------------
(* --delete: a hard delete, of inactive listings only. *)
DeleteStart(s, id, expect) ==
    /\ command[s] = NoCommand /\ Exists(id)
    /\ listings[id].status = "inactive"
    /\ command' = [command EXCEPT ![s] = [cmd |-> "delete", id |-> id,
                                          expect |-> Expecting(expect, listings[id])]]
    /\ UNCHANGED storeVars

(* Mutant: the status was checked before the prompt.                       *)
HardDeletableAsRead(s) == GuardHolds(s)

HardDeletable(s) == GuardHolds(s) /\ listings[command[s].id].status = "inactive"

HardDelete(s) ==
    /\ Waiting(s, "delete")
    /\ LET id == command[s].id IN
         \/ HardDeletable(s) /\ listings' = [listings EXCEPT ![id] = Gone]
         \/ ~HardDeletable(s) /\ UNCHANGED listings
    /\ Returns(s)
    /\ UNCHANGED <<doNotImport, clock>>

-----------------------------------------------------------------------------
(* --purge-test; --limit is taken to be large enough. *)
OlderTests(cutoff) ==
    {i \in RowsOf(listings) : listings[i].is_test /\ listings[i].created_at < cutoff}

TestPurgeStart(s, age) ==
    /\ command[s] = NoCommand /\ OlderTests(clock - age) # {}
    /\ command' = [command EXCEPT ![s] =
                     [cmd |-> "purge", cutoff |-> clock - age, ids |-> OlderTests(clock - age)]]
    /\ UNCHANGED storeVars

(* Of the rows selected before the prompt those that still qualify go.     *)
TestPurge(s) ==
    /\ Waiting(s, "purge")
    /\ listings' = [i \in Ids |-> IF i \in command[s].ids \cap OlderTests(command[s].cutoff)
                                  THEN Gone ELSE listings[i]]
    /\ Returns(s)
    /\ UNCHANGED <<doNotImport, clock>>

-----------------------------------------------------------------------------
(* The operator types something else, or interrupts the script.            *)
OperatorAborts(s) == command[s] # NoCommand /\ Returns(s) /\ UNCHANGED storeVars

OperatorStep(s) ==
    \/ \E id \in Ids, edit \in Edits : EditStart(s, id, edit)
    \/ \E id \in Ids, expect \in Deletes : DeleteStart(s, id, expect)
    \/ \E age \in PurgeAges : TestPurgeStart(s, age)
    \/ EditWrite(s) \/ HardDelete(s) \/ TestPurge(s)
    \/ OperatorAborts(s)

OperatorNext == \E s \in Operators : OperatorStep(s)

OperatorInit == command = [s \in Operators |-> NoCommand]

Partly(t) == {f \in UNION {[D -> UNION {t[c] : c \in D}] : D \in SUBSET DOMAIN t} :
                \A c \in DOMAIN f : f[c] \in t[c]}
OperatorTypeOK ==
    \A s \in Operators :
        \/ command[s] = NoCommand
        \/ command[s] \in [cmd : {"edit"}, id : Ids, expect : Partly(EditType), set : Partly(EditType)]
        \/ command[s] \in [cmd : {"delete"}, id : Ids, expect : Partly(EditType)]
        \/ command[s] \in [cmd : {"purge"}, cutoff : Int, ids : SUBSET Ids]
=============================================================================
