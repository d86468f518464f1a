-------------------------- MODULE ListingLifecycle --------------------------
(***************************************************************************)
(* What the board promises about who controls a listing, whatever handlers *)
(* and syncs interleave: a listing is published by a wallet or imported    *)
(* without an owner, an import may be claimed once, and from then on its   *)
(* owner never changes until the listing is removed, for good.             *)
(***************************************************************************)
CONSTANTS Ids, Wallets, Unborn, Unclaimed, Removed

VARIABLE owner      \* [Ids -> Wallets \cup {Unborn, Unclaimed, Removed}]

Init == owner = [i \in Ids |-> Unborn]

Publish(i, w) == owner[i] = Unborn /\ owner' = [owner EXCEPT ![i] = w]
Import(i) == owner[i] = Unborn /\ owner' = [owner EXCEPT ![i] = Unclaimed]
Claim(i, w) == owner[i] = Unclaimed /\ owner' = [owner EXCEPT ![i] = w]

(* One removal may take several listings at once (the purge does). *)
Remove(D) ==
    /\ \A i \in D : owner[i] \in Wallets \cup {Unclaimed}
    /\ owner' = [i \in Ids |-> IF i \in D THEN Removed ELSE owner[i]]

Next ==
    \/ \E i \in Ids : Import(i) \/ \E w \in Wallets : Publish(i, w) \/ Claim(i, w)
    \/ \E D \in SUBSET Ids : Remove(D)

Spec == Init /\ [][Next]_owner
=============================================================================
