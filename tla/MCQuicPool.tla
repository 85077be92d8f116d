------------------------------ MODULE MCQuicPool ------------------------------
(* Two requests, a server that allows one stream in a connection, three    *)
(* connections, and two calls of Close (the directions of a relay).        *)
EXTENDS QuicPool
=============================================================================
