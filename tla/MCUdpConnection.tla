-------------------------- MODULE MCUdpConnection --------------------------
(* UdpConnection for TLC.                                                  *)
EXTENDS UdpConnection, TLC

\* MaxSend: n data of the client, m of the server
ClientServer(n, m) == "client" :> n @@ "server" :> m

OneThree == ClientServer(1, 3)
TwoTwo == ClientServer(2, 2)
OneFour == ClientServer(1, 4)
============================================================================
