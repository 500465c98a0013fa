----------------------------- MODULE MCCheckSum -----------------------------
(* Two clients started in one directory, and a server in another.          *)
EXTENDS CheckSum

CONSTANTS client1, client2, server, home, work

Two == [p \in {client1, client2, server} |-> IF p = server THEN home ELSE work]
=============================================================================
