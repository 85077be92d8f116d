------------------------------- MODULE Handover -------------------------------
(* What a handshake promises to whoever goes on with the connection.  The  *)
(* peer writes the bytes of whole, one after the other; body are those of  *)
(* them that are meant for the layer above.  The handshake ends in one of  *)
(* three ways:                                                             *)
(*   accepted   the layer above reads body, from its first byte;           *)
(*   fallback   the fallback target reads whole, from its first byte;      *)
(*   refused    nobody reads anything.                                     *)
(* Nothing is left out, doubled, or read before it was written.  lossy is  *)
(* raised by an implementation that has left this contract.                *)
EXTENDS Naturals, Sequences

VARIABLES whole, body, sent, verdict, out, lossy

vars == <<whole, body, sent, verdict, out, lossy>>

Verdicts == {"none", "accepted", "fallback", "refused"}

Due ==
  CASE verdict = "accepted" -> body
    [] verdict = "fallback" -> whole
    [] OTHER -> <<>>

(* The bytes of whole are named by their places, from 1 on.                *)
Init ==
  /\ sent = 0
  /\ verdict = "none"
  /\ out = <<>>
  /\ lossy = FALSE

Write ==
  /\ sent' \in (sent + 1) .. Len(whole)
  /\ UNCHANGED <<whole, body, verdict, out, lossy>>

Judge ==
  /\ verdict = "none"
  /\ verdict' \in Verdicts \ {"none"}
  /\ UNCHANGED <<whole, body, sent, out, lossy>>

GiveOn ==
  /\ \E n \in 1 .. (Len(Due) - Len(out)) :
       /\ out' = out \o SubSeq(Due, Len(out) + 1, Len(out) + n)
       /\ Due[Len(out) + n] <= sent
  /\ UNCHANGED <<whole, body, sent, verdict, lossy>>

Leave ==
  /\ lossy'
  /\ UNCHANGED <<whole, body>>

Next == Write \/ Judge \/ GiveOn \/ Leave

Spec == Init /\ [][Next]_vars
=============================================================================
