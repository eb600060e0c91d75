---------------------------- MODULE MCThreadPool ----------------------------
(* Two call sites, one in the body of the other, for TLC. *)
EXTENDS ThreadPool

CONSTANTS outer, inner, small

\* A loop with an uneven number of iterations, one whose body contains a loop, and
\* one that is shorter than its step.
MCProgram == <<small, outer>>
MCTo == (outer :> 2) @@ (inner :> 3) @@ (small :> 1)
MCStep == (outer :> 1) @@ (inner :> 2) @@ (small :> 2)
MCBody == (outer :> inner) @@ (inner :> NoSite) @@ (small :> NoSite)

\* The same site twice.
MCTwice == <<inner, inner>>
=============================================================================
