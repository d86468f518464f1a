---------------------------- MODULE MCPagination ----------------------------
(* Instances of Pagination for TLC. *)
EXTENDS Pagination
CONSTANTS w1, q1, none, alpha, beta

(* One text matches the query by full text, the other only by trigrams. *)
MCRank == [q \in Queries |-> [t \in Texts |-> IF t = alpha THEN 1 ELSE 0]]
MCSimilarity == [q \in Queries |-> [t \in Texts |-> IF t = alpha THEN 2 ELSE 1]]
=============================================================================
