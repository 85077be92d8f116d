------------------------------- MODULE MCInbound -------------------------------
(* Two handlers over every kind of listener; a client sends a header and   *)
(* two chunks, so that one is read ahead and one is relayed.               *)
EXTENDS Inbound
=============================================================================
