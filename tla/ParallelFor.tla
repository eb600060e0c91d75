---------------------------- MODULE ParallelFor ----------------------------
(***************************************************************************)
(* What for_mt promises to the code that calls it: between the call and    *)
(* the return every iteration of the loop is executed once, in any order,  *)
(* and nothing is executed after the return. If the body of a loop         *)
(* contains a loop, an iteration is complete when that loop has returned.  *)
(***************************************************************************)
EXTENDS Integers, Sequences, Bags

CONSTANTS Sites, NoSite, To, Step, Body
VARIABLES begun, ran, returned

Iterations(s) == {i \in 0..(To[s] - 1) : i % Step[s] = 0}

Init == begun = {} /\ ran = EmptyBag /\ returned = {}

\* The main thread, or an iteration of another loop, calls for_mt.
Begin(c, s) ==
    /\ \A b \in begun : b[1] # c
    /\ begun' = begun \cup {<<c, s>>}
    /\ UNCHANGED <<ran, returned>>

Execute(c, s, i) ==
    /\ <<c, s>> \in begun /\ c \notin returned
    /\ i \in Iterations(s) /\ ~BagIn(<<c, i>>, ran)
    /\ Body[s] # NoSite => Append(c, i) \in returned
    /\ ran' = ran (+) SetToBag({<<c, i>>})
    /\ UNCHANGED <<begun, returned>>

Return(c, s) ==
    /\ <<c, s>> \in begun /\ c \notin returned
    /\ \A i \in Iterations(s) : BagIn(<<c, i>>, ran)
    /\ returned' = returned \cup {c}
    /\ UNCHANGED <<begun, ran>>

Next ==
    \/ \E b \in begun' : Begin(b[1], b[2])
    \/ \E b \in begun : \/ \E i \in Iterations(b[2]) : Execute(b[1], b[2], i)
                        \/ Return(b[1], b[2])

Spec == Init /\ [][Next]_<<begun, ran, returned>>
=============================================================================
