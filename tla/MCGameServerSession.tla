------------------------ MODULE MCGameServerSession ------------------------
(* Start scripts for TLC. *)
EXTENDS GameServerSession

CONSTANTS host, guest, watcher

\* The host watches, a guest plays; a third one is unknown.
MCHosted == <<[name |-> host, spectator |-> TRUE, team |-> 0],
              [name |-> guest, spectator |-> FALSE, team |-> 0]>>
=============================================================================
