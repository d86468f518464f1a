--------------------------- MODULE MCOperatedBoard ---------------------------
(* Instances of OperatedBoard for TLC. *)
EXTENDS OperatedBoard, TLC

CONSTANTS w1, w2, k1, k2

SlotSymmetry == Permutations(Requests)

MCUrls == {"a", "a/", "b"}
MCNormalize == [u \in MCUrls |-> IF u = "b" THEN k2 ELSE k1]

Post(url, owner, test) ==
    [test_name |-> test, listing_type |-> "offering", endpoint_url |-> url,
     payment_wallet |-> owner, pricing_model |-> "none", pricing_amount |-> FALSE,
     payment_options |-> FALSE, submitted_by |-> owner]

(* A real listing and a test listing. *)
OwnerPosts == {Post("a", w1, FALSE), Post("a", w1, TRUE)}
OwnerPatches == {[status |-> "active", endpoint_url |-> "b"]}

(* Re-pointing a URL; changing the owner and deactivating; renaming; and   *)
(* deleting a listing of its expected owner.                               *)
OperatorEdits ==
    {[expect |-> {"submitted_by", "status"}, change |-> [endpoint_url |-> "b"]],
     [expect |-> {"endpoint_url"}, change |-> [submitted_by |-> w2, status |-> "inactive"]],
     [expect |-> {"endpoint_url"}, change |-> [test_name |-> TRUE]]}
OperatorDeletes == {{"submitted_by"}}
=============================================================================
