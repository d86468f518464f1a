------------------------------- MODULE MCBoard -------------------------------
(* Instances of Board for TLC: what clients and publishers send. *)
EXTENDS Board, TLC

CONSTANTS w1, w2, k1, k2, sA, sB

SlotSymmetry == Permutations(Requests)

(* "a" and "a/" differ only in a trailing slash. *)
MCUrls == {"a", "a/", "b"}
MCNormalize == [u \in MCUrls |-> IF u = "b" THEN k2 ELSE k1]

Post(type, url, owner, test) ==
    [test_name |-> test, listing_type |-> type, endpoint_url |-> url,
     payment_wallet |-> owner, pricing_model |-> "none", pricing_amount |-> FALSE,
     payment_options |-> FALSE, submitted_by |-> owner]
Rec(url, src, pay, type) ==
    [test_name |-> FALSE, listing_type |-> type, endpoint_url |-> url, payment_wallet |-> pay,
     pricing_model |-> "none", pricing_amount |-> FALSE, payment_options |-> FALSE, source |-> src]
Batch(recs, src, dry, mark) == [recs |-> recs, source |-> src, dry_run |-> dry, mark_missing |-> mark]

(* Postings: two offerings and a test listing, on two spellings of one     *)
(* endpoint and on another.                                                *)
PostPayloads == {Post("offering", "a", w1, FALSE), Post("offering", "b", w1, FALSE),
                 Post("offering", "a/", w1, TRUE)}
PostPatches == {[endpoint_url |-> "b", status |-> "inactive"], [test_name |-> TRUE],
                [endpoint_url |-> "a/", status |-> "active"]}

(* Imports: the source changes the pay-to wallet of endpoint a, or drops a *)
(* for b.                                                                  *)
profA == Rec("a", sA, w1, "verification_profile")
profA2 == Rec("a/", sA, w2, "verification_profile")
offerA == Rec("a", sB, w1, "offering")
profB == Rec("b", sA, w1, "verification_profile")
freeA == [Rec("a", sA, w1, "offering") EXCEPT !.pricing_model = "free"]
unclaimableA == Rec("a", sA, "solana", "verification_profile")

ClaimBatches == {Batch({profA}, NoSource, FALSE, TRUE), Batch({profA2}, NoSource, FALSE, TRUE),
                 Batch({unclaimableA}, NoSource, FALSE, TRUE)}
ClaimPatches == {[status |-> "active"], [payment_wallet |-> w2, endpoint_url |-> "b"]}

SyncBatches == {Batch({profB}, NoSource, FALSE, TRUE), Batch({profA}, NoSource, TRUE, FALSE),
                Batch({freeA, profB}, sA, FALSE, TRUE),
                Batch({offerA}, NoSource, FALSE, TRUE)}
SyncPatches == {[endpoint_url |-> "b"]}

RemovalBatches == {Batch({profA}, NoSource, FALSE, TRUE)}
=============================================================================
