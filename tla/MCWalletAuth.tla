---------------------------- MODULE MCWalletAuth ----------------------------
(* Instances of WalletAuth for TLC. *)
EXTENDS WalletAuth

CONSTANTS w1, w2, patching, deleting, n1

Signed(w, purpose, timestamp) ==
    [signature |-> [signer |-> w,
                    message |-> [purpose |-> purpose, timestamp |-> timestamp, nonce |-> n1]],
     timestamp |-> timestamp, nonce |-> n1]

(* One purpose signed by each wallet for the near future, another purpose, *)
(* and a timestamp from further ahead, all under one nonce.                *)
MCSent == {Signed(w1, patching, 1), Signed(w2, patching, 1), Signed(w1, deleting, 1), Signed(w1, patching, 4)}
=============================================================================
