----------------------------- MODULE JoinedLog -----------------------------
(***************************************************************************)
(* What the game server promises to those who join: all of them read the   *)
(* same log. Whoever joins, however late, gets the log from its beginning, *)
(* then every later entry, until the stream is closed.                     *)
(***************************************************************************)
EXTENDS Sequences, SequencesExt

VARIABLES
    history,  \* everything broadcast so far
    streams,  \* what each stream has got of it, in the order of joining
    open      \* the streams that go on

Init == history = <<>> /\ streams = <<>> /\ open = {}

\* The log grows and with it the open streams, of which some may end on the way. At
\* most one new stream begins, which has it all.
Next ==
    LET old == streams
        new == streams'
        news == SubSeq(history', Len(history) + 1, Len(history'))
    IN
    /\ IsPrefix(history, history')
    /\ open' \ open \subseteq DOMAIN new \ DOMAIN old
    /\ \/ DOMAIN new = DOMAIN old
       \/ Len(new) = Len(old) + 1 /\ Last(new) = history'
    /\ \A l \in DOMAIN old :
          /\ l \notin open => new[l] = old[l]
          /\ l \in open => IsPrefix(old[l], new[l]) /\ IsPrefix(new[l], old[l] \o news)
          /\ l \in open' => new[l] = old[l] \o news

Spec == Init /\ [][Next]_<<history, streams, open>>
=============================================================================
