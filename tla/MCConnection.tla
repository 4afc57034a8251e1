---------------------------- MODULE MCConnection ----------------------------
(* One client, one server, loops of one and two attempts, and without limit. *)
EXTENDS Connection

MCAttempts == {1, 2, -1}
=============================================================================
