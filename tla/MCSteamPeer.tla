----------------------------- MODULE MCSteamPeer -----------------------------
(* Two client instances, of one Steam user or of two, or loopback clients.     *)
EXTENDS SteamPeer, TLC

CONSTANTS i1, i2

\* Two packets from the one and one to the other: enough for two packets to wait at
\* the server together, for two to be swapped on the way there, and for a packet of an
\* earlier client to be taken for one of a later.
Sends == (i1 :> [up |-> 2, down |-> 0]) @@ (i2 :> [up |-> 0, down |-> 1])
==============================================================================
