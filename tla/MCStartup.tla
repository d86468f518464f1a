----------------------------- MODULE MCStartup -----------------------------
(* Instances of Startup for TLC. *)
EXTENDS Startup, TLC

CONSTANTS p1, p2, t1, t2, u1, x1, x2

(* A server with two threads, or with one, beside an import script. *)
ServerAndScript == (t1 :> p1) @@ (t2 :> p1) @@ (u1 :> p2)
OneThreadEach == (t1 :> p1) @@ (u1 :> p2)

(* The server's threads are alike, and so are the pools. *)
StartupSymmetry == Permutations({t1, t2}) \cup Permutations({x1, x2})
=============================================================================
