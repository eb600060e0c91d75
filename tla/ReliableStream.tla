--------------------------- MODULE ReliableStream ---------------------------
(***************************************************************************)
(* What CConnection promises its two owners, whatever carries the data: a  *)
(* FIFO stream in each direction.  Data is submitted on one side and       *)
(* delivered on the other in the order of submission, none twice and none  *)
(* skipped.  Delivery may lag behind and stop.                             *)
(***************************************************************************)
EXTENDS Integers, Sequences

CONSTANT Data

VARIABLES sent, delivered

Ends == {"client", "server"}

Peer(e) == IF e = "client" THEN "server" ELSE "client"

Init ==
    /\ sent = [e \in Ends |-> <<>>]
    /\ delivered = [e \in Ends |-> <<>>]

Submit(e, d) ==
    /\ sent' = [sent EXCEPT ![e] = Append(@, d)]
    /\ UNCHANGED delivered

\* Several data may be delivered at once.
Deliver(e) ==
    /\ \E n \in (Len(delivered[e]) + 1)..Len(sent[Peer(e)]) :
          delivered' = [delivered EXCEPT ![e] = SubSeq(sent[Peer(e)], 1, n)]
    /\ UNCHANGED sent

Next == \E e \in Ends : Deliver(e) \/ \E d \in Data : Submit(e, d)

Spec == Init /\ [][Next]_<<sent, delivered>>
=============================================================================
