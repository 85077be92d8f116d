----------------------------- MODULE MCUDPSeparate -----------------------------
(* Two addresses and three channels: the handler's, one for the second     *)
(* address, and one to dial again after either has failed.                 *)
EXTENDS UDPSeparate
=============================================================================
