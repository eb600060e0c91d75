-------------------------- MODULE MCGameServerSync --------------------------
(* Instance for TLC: what each client can compute, and the speeds of a host.   *)
EXTENDS GameServerSync

\* The instance is one in which no desync is forgotten.
ASSUME LagAssumption == BoundedLag

MCChecksums == 0..1
MCRates == {1}
=============================================================================
