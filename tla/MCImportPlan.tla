---------------------------- MODULE MCImportPlan ----------------------------
(* Instances of ImportPlan for TLC: a few batches against many tables. *)
EXTENDS ImportPlan
CONSTANTS s1, s2, k1, k2

Row(content, type, claimed, active, missing) ==
    [content |-> content, listing_type |-> type, payment_wallet |-> "evm", claimed |-> claimed,
     active |-> active, missing |-> missing]

Fresh == Row(0, "offering", FALSE, TRUE, FALSE)
Owned == Row(0, "offering", TRUE, TRUE, TRUE)
Off == Row(0, "notice", FALSE, FALSE, FALSE)

AllTables == [{s1, s2} \X {k1, k2} -> {Missing, Fresh, Owned, Off}]
AllLists == {{}, {<<s1, k2>>}}

Record(source, key, content) ==
    [form |-> "object", source |-> source, key |-> key, content |-> content, listing_type |-> "offering",
     payment_wallet |-> "evm", payment_options |-> <<>>]

Option(chain, pay_to) == [chain |-> chain, pay_to |-> pay_to]
Derived(record) ==
    [record EXCEPT !.payment_wallet = NoWallet,
                   !.payment_options = <<Option("xrpl", "other"), Option("solana", "sol"), Option("eip155", "evm2")>>]
Unpaid(record) == [record EXCEPT !.payment_wallet = NoWallet]
Garbled(record) == [record EXCEPT !.form = "text"]
Mistyped(record) == [record EXCEPT !.form = "mistyped"]
Notice(record) == [record EXCEPT !.listing_type = "notice"]

Batch(records, source) ==
    [records |-> records, source |-> source, allow_empty_sync |-> FALSE, mark_missing |-> TRUE]

Sent ==
    {Batch(<<Record(s1, k1, 1), Derived(Record(s1, k2, 2)), Notice(Record(s1, k1, 2))>>, NoSource),
     Batch(<<Record(s1, k1, 1), Notice(Record(s2, k1, 1)), Unpaid(Record(s2, k2, 1))>>, NoSource),
     Batch(<<Record(s2, k1, 1), Record(s2, k1, 2), Garbled(Record(s1, k2, 1))>>, s1),
     [Batch(<<Unpaid(Record(NoSource, k1, 1))>>, s2) EXCEPT !.allow_empty_sync = TRUE],
     [Batch(<<Record(NoSource, k1, 1), Record(s1, k2, 1)>>, NoSource) EXCEPT !.mark_missing = FALSE],
     Batch(<<Record(s1, k1, 1), Mistyped(Record(s1, k2, 1))>>, NoSource)}

TwoSources == {Batch(<<Record(s1, k1, 1), Record(s2, k1, 1)>>, NoSource)}
=============================================================================
