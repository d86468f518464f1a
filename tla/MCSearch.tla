------------------------------ MODULE MCSearch ------------------------------
(* Instances of Search for TLC: a few listings and a few ways to ask. *)
EXTENDS Search
CONSTANTS l1, l2, base, solana, usdc, USDC, eth, offering, notice, extraction, other, posted, directory,
          exact, typo

PaymentOption(network, asset, amount) == [network |-> network, asset |-> asset, amount |-> amount]

Lowered == [a \in {usdc, USDC, eth} |-> IF a = USDC THEN usdc ELSE a]
PricedCoins == {<<base, usdc>>, <<solana, usdc>>}

Own ==
    [active |-> TRUE, is_test |-> FALSE, listing_type |-> offering, task_categories |-> {extraction},
     claimed |-> TRUE, has_schema |-> TRUE, source |-> posted, missing_from_source |-> FALSE, text |-> exact,
     payment_options |-> {PaymentOption(base, USDC, 1), PaymentOption(base, usdc, 3)}]

(* Cheap only in a coin without a known price on Base, dear on Solana. *)
Imported ==
    [Own EXCEPT !.listing_type = notice, !.task_categories = {extraction, other}, !.claimed = FALSE,
                !.has_schema = FALSE, !.source = directory, !.text = typo,
                !.payment_options = {PaymentOption(base, eth, 1), PaymentOption(solana, usdc, 2)}]

Listings ==
    {Own, Imported, [Imported EXCEPT !.missing_from_source = TRUE],
     [Own EXCEPT !.is_test = TRUE], [Own EXCEPT !.active = FALSE]}

Everything ==
    [active |-> TRUE, include_test |-> FALSE, listing_type |-> Any, task_categories |-> {}, claimed |-> Any,
     payment_network |-> Any, max_price |-> Any, has_template |-> Any, stale |-> Any, has_q |-> FALSE,
     compact |-> FALSE]

Asked ==
    {[Everything EXCEPT !.has_q = TRUE],
     [Everything EXCEPT !.has_q = TRUE, !.stale = TRUE],
     [Everything EXCEPT !.stale = TRUE],
     [Everything EXCEPT !.stale = FALSE, !.compact = TRUE],
     [Everything EXCEPT !.max_price = 2, !.include_test = TRUE],
     [Everything EXCEPT !.max_price = 2, !.payment_network = base],
     [Everything EXCEPT !.task_categories = {other}, !.claimed = FALSE, !.has_template = FALSE],
     [Everything EXCEPT !.active = FALSE, !.listing_type = offering]}
=============================================================================
