------------------------------ MODULE Handshakes ------------------------------
(* The opening of a connection, whatever the protocol: one side writes its *)
(* header and goes on with data, the network cuts what was written where   *)
(* it likes, and the other side reads until it has made up its mind.  What *)
(* it has read too much is kept for whoever reads next: the layer above,   *)
(* or the fallback.  The tables of Headers say who writes and expects what.*)
(*                                                                         *)
(* The bytes of a connection are named by their places, 1, 2, 3 ...; 0 is  *)
(* a byte that was never sent, from a buffer that held it before.          *)
EXTENDS Naturals, Sequences, Headers

CONSTANTS
  Convs,       (* the conversations to look at                             *)
  Payload,     (* how many tokens of data follow the header                *)
  ReadMax,     (* how many tokens the buffer of trojan holds               *)
  None

VARIABLES
  conv,        (* which conversation this is                               *)
  wrong,       (* None, or the round, field and verdict of a wrong value   *)
  sent,        (* how many tokens are written                              *)
  got,         (* how many of them the reader took from the network        *)
  answered,    (* how many rounds the reader has answered                  *)
  stage,       (* the round the reader is in                               *)
  buf,         (* what it holds of this round                              *)
  heap,        (* what an earlier read of it held                          *)
  fit,         (* whether a read ended inside, at, or after a round        *)
  verdict,     (* "none", "accepted", "fallback", "refused" or "broken"    *)
  rest,        (* what the next reader gets before the network             *)
  out          (* what it has got                                          *)

vars ==
  <<conv, wrong, sent, got, answered, stage, buf, heap, fit, verdict, rest, out>>

-----------------------------------------------------------------------------
(* The conversations.                                                      *)

Writes(c) ==
  CASE c = "vless0" \/ c = "vless1" -> <<VlessRequest>>
    [] c = "trojan" -> <<TrojanRequest>>
    [] c = "simplesocks" -> <<SimpleRequest>>
    [] c = "shadowsocks" -> <<ShadowRequest>>
    [] c = "shadowsocks_own" -> <<ShadowOwnRequest>>
    [] c = "vmess" -> <<VmessRequest>>
    [] c \in {"http_connect", "http_get", "http_auth"} -> <<HttpRequest>>
    [] c = "preset" -> <<PresetRequest \o VmessRequest>>
    [] c = "ws" -> <<WsRequest>>
    [] c \in {"socks5", "socks5http"} -> Socks5Client
    [] c = "vless0_reply" -> <<VlessReply>>
    [] c = "vmess_reply" -> <<VmessReply>>
    [] c = "preset_reply" -> <<PresetReply>>
    [] c = "socks5_reply" -> Socks5Replies

Reads(c) ==
  CASE c = "vless0" -> <<Round(2, Vless0)>>
    [] c = "vless1" -> <<Round(2, Vless1)>>
    [] c = "trojan" -> <<Round(2, TrojanFields)>>
    [] c = "simplesocks" -> <<Round(2, SimpleFields)>>
    [] c \in {"shadowsocks", "shadowsocks_own"} -> <<Round(1, ShadowFields)>>
    [] c = "vmess" -> <<Round(1, VmessFields)>>
    [] c \in {"http_connect", "http_get", "http_auth"} -> <<Round(1, HttpFields)>>
    [] c = "preset" -> <<Round(1, PresetFields), Round(1, VmessFields)>>
    [] c = "ws" -> <<Round(1, WsFields)>>
    [] c = "socks5" -> Socks5Server
    [] c = "socks5http" -> <<Round(1, HttpFields)>> \o Socks5Server
    [] c = "vless0_reply" -> <<Round(2, VlessReplyFields)>>
    [] c = "vmess_reply" -> <<Round(1, VmessReplyFields)>>
    [] c = "preset_reply" -> <<Round(1, PresetReplyFields)>>
    [] c = "socks5_reply" -> Socks5ReplyFields

(* Here the writer waits for the answer to its last round before the data. *)
WaitsForAnswer == {"http_connect", "ws", "socks5", "socks5http"}

(* An http proxy passes the whole request on.                              *)
PassesAll == {"http_get", "http_auth"}

(* What the writer has written by the end of its r-th round.               *)
Upto(c, r) ==
  CASE r = 0 -> <<>>
    [] r = 1 -> Writes(c)[1]
    [] r = 2 -> Writes(c)[1] \o Writes(c)[2]
    [] r = 3 -> (Writes(c)[1] \o Writes(c)[2]) \o Writes(c)[3]

Tokens(c) == Upto(c, Len(Writes(c))) \o [i \in 1 .. Payload |-> "data"]

Name(i) == IF i = 0 THEN "garbage" ELSE Tokens(conv)[i]

Length == Len(Tokens(conv))

Whole == [i \in 1 .. Length |-> i]

(* Where the r-th round of the writer ends.                                *)
End(r) == Len(Upto(conv, r))

Rounds == Len(Writes(conv))

(* Where the data in the header of a websocket upgrade is.                 *)
Early == 3

Body ==
  IF conv \in PassesAll
  THEN Whole
  ELSE (IF conv = "ws" THEN <<Early>> ELSE <<>>) \o SubSeq(Whole, End(Rounds) + 1, Length)

(* Round, field and verdict of the values a reader objects to.  A socks5   *)
(* request is no http request, whatever its values.                        *)
Wrongs ==
  UNION {UNION {{<<r, i, v>> : v \in Reads(conv)[r].fields[i].wrong} :
                i \in 1 .. Len(Reads(conv)[r].fields)} :
         r \in (IF conv = "socks5http" THEN 2 ELSE 1) .. Len(Reads(conv))}

-----------------------------------------------------------------------------
Init ==
  /\ conv \in Convs
  /\ wrong \in {None} \cup Wrongs
  /\ sent = 0
  /\ got = 0
  /\ answered = 0
  /\ stage = 1
  /\ buf = <<>>
  /\ heap = <<>>
  /\ fit = "exact"
  /\ verdict = "none"
  /\ rest = <<>>
  /\ out = <<>>

(* Writing: the next round, once the one before is answered, the last one  *)
(* with or without the first payload; then the data.                       *)
WriteRound ==
  \E r \in 1 .. Rounds :
    /\ sent = End(r - 1)
    /\ r = 1 \/ answered >= r - 1
    /\ sent' \in {End(r)} \cup
         (IF r = Rounds /\ conv \notin WaitsForAnswer THEN {End(r) + 1} ELSE {})

WriteData ==
  /\ sent \in End(Rounds) .. (Length - 1)
  /\ conv \in WaitsForAnswer => answered = Rounds
  /\ sent' = sent + 1

Write ==
  /\ WriteRound \/ WriteData
  /\ UNCHANGED <<conv, wrong, got, answered, stage, buf, heap, fit, verdict, rest, out>>

-----------------------------------------------------------------------------
(* What the reader makes of b in its round.  A field whose value it does   *)
(* not look at is never wrong.                                             *)
Fields == Reads(conv)[stage].fields

(* The end of an http header is searched for.                              *)
Has(b, i) ==
  /\ i <= Len(b)
  /\ Fields[i].name = "end" => Name(b[i]) = "end"

Bad(b) ==
  {i \in 1 .. Len(Fields) :
     \/ ~Has(b, i) /\ Fields[i].short # "unnoticed"
     \/ Has(b, i) /\ Fields[i].wrong # {} /\ Name(b[i]) # Fields[i].name
     \/ Has(b, i) /\ wrong # None /\ wrong[1] = stage /\ wrong[2] = i}

(* The field it stops at. *)
Objection(b) == CHOOSE i \in Bad(b) : \A j \in Bad(b) : i <= j

Opinion(b) ==
  IF Len(b) < Reads(conv)[stage].min
  THEN {"refused"}
  ELSE IF Bad(b) = {}
  THEN {"accepted"}
  ELSE LET i == Objection(b) IN
       IF ~Has(b, i)
       THEN {Fields[i].short}
       ELSE IF wrong # None /\ wrong[1] = stage /\ wrong[2] = i
       THEN {wrong[3]}
       ELSE Fields[i].wrong

(* Variant that keeps nothing for the layer above.                         *)
RemainsNothing(b) == IF conv = "http_get" THEN b ELSE <<>>

(* What an accepted header leaves for the layer above: what follows it in  *)
(* the buffer, unless the protocol has the client wait for an answer.      *)
Remains(b) ==
  CASE conv \in {"http_connect", "socks5", "socks5http", "socks5_reply"} -> <<>>
    [] conv = "http_get" -> b
    [] conv = "http_auth" -> SubSeq(b, 1, 1)
    [] conv = "ws" -> SubSeq(b, Early, Early)
    [] OTHER -> SubSeq(b, Len(Fields) + 1, Len(b))

(* Variant that hands over what the parser has not consumed.               *)
FallbackUnread(b) == SubSeq(b, Objection(b), Len(b))

(* What a fallback target gets first: all that was read, from the start.   *)
FallbackBuffer(b) == IF conv = "preset" /\ stage = 2 THEN heap ELSE b

(* The last round ends the handshake, the others are answered, except that *)
(* a preset header and the http server of socks5http just go on.  The      *)
(* latter passes what it does not understand on to socks5.                 *)
Accept(b) ==
  IF stage = Len(Reads(conv))
  THEN /\ verdict' = "accepted"
       /\ rest' = Remains(b)
       /\ answered' = Rounds
       /\ UNCHANGED <<stage, heap>>
  ELSE /\ stage' = stage + 1
       /\ rest' = IF conv = "preset" THEN Remains(b) ELSE <<>>
       /\ heap' = IF conv = "preset" THEN b ELSE <<>>
       /\ answered' = IF conv = "preset" THEN answered ELSE answered + 1
       /\ UNCHANGED verdict

TryNext(b) ==
  /\ stage' = 2
  /\ rest' = b
  /\ UNCHANGED <<verdict, heap, answered>>

Refuse(v, b) ==
  /\ verdict' = IF v = "refused" /\ ~(conv = "preset" /\ stage = 2) THEN "refused" ELSE "fallback"
  /\ rest' = IF v = "drained" \/ verdict' = "refused" THEN <<>> ELSE FallbackBuffer(b)
  /\ UNCHANGED <<stage, heap, answered>>

Judge(b) ==
  /\ buf' = <<>>
  /\ \E v \in Opinion(b) :
       \/ v = "accepted" /\ Accept(b)
       \/ v # "accepted" /\ conv = "socks5http" /\ stage = 1 /\ TryNext(b)
       \/ v # "accepted" /\ ~(conv = "socks5http" /\ stage = 1) /\ Refuse(v, b)

-----------------------------------------------------------------------------
(* A read returns at most what there is and may return less; what was left *)
(* over by an earlier round comes first.                                   *)
Arrived == IF rest # <<>> THEN rest ELSE SubSeq(Whole, got + 1, sent)

Pieces == {SubSeq(Arrived, 1, n) : n \in (IF rest # <<>> THEN {Len(rest)} ELSE 1 .. Len(Arrived))}

Taken(piece) ==
  /\ got' = IF rest # <<>> THEN got ELSE got + Len(piece)
  /\ fit' = IF fit = "cut" \/ got' < End(answered + 1)
            THEN "cut"
            ELSE IF got' = End(answered + 1) THEN "exact" ELSE "over"

(* Most handshakes read once.                                              *)
ReadOnce ==
  /\ conv \notin {"trojan", "vmess_reply", "ws"}
  /\ \E piece \in Pieces :
       /\ Taken(piece)
       /\ Judge(piece)

(* trojan reads until a piece holds a line end, though not as its first,   *)
(* or until its buffer is full.                                            *)
IsWrong(p) == wrong # None /\ wrong[2] = p

HasLineEnd(piece) ==
  \E k \in 2 .. (Len(piece) - 1) :
    /\ Name(piece[k]) = "cr" /\ ~IsWrong(piece[k])
    /\ Name(piece[k + 1]) = "lf" /\ ~IsWrong(piece[k + 1])

ReadLine ==
  /\ conv = "trojan"
  /\ \E piece \in Pieces :
       /\ Len(buf \o piece) <= ReadMax
       /\ Taken(piece)
       /\ IF HasLineEnd(piece) \/ Len(buf \o piece) = ReadMax
          THEN Judge(buf \o piece)
          ELSE /\ buf' = buf \o piece
               /\ UNCHANGED <<answered, stage, heap, verdict, rest>>

(* The client of vmess reads exactly the header, in as many reads as that  *)
(* takes.                                                                  *)
ReadFull ==
  /\ conv = "vmess_reply"
  /\ \E piece \in Pieces :
       /\ Len(buf \o piece) <= Len(Fields)
       /\ got' = got + Len(piece)
       /\ UNCHANGED fit
       /\ IF Len(buf \o piece) = Len(Fields)
          THEN Judge(buf \o piece)
          ELSE /\ buf' = buf \o piece
               /\ UNCHANGED <<answered, stage, heap, verdict, rest>>

(* A websocket upgrade without its last line is read a second time.  The   *)
(* length of the second read does not enter the length of the buffer,      *)
(* which is taken as twice the first.                                      *)
Twice(first, piece) ==
  SubSeq(first \o piece \o [i \in 1 .. Len(first) |-> 0], 1, 2 * Len(first))

ReadUpgrade ==
  /\ conv = "ws"
  /\ \E piece \in Pieces :
       /\ Taken(piece)
       /\ \/ /\ buf = <<>> /\ Len(piece) < Len(Fields)
             /\ buf' = piece
             /\ heap' = piece
             /\ UNCHANGED <<answered, stage, verdict, rest>>
          \/ buf = <<>> /\ Len(piece) >= Len(Fields) /\ Judge(piece)
          \/ buf # <<>> /\ Judge(Twice(buf, piece))

Read ==
  /\ verdict = "none"
  /\ ReadOnce \/ ReadLine \/ ReadFull \/ ReadUpgrade
  /\ UNCHANGED <<conv, wrong, sent, out>>

(* The deadline passes or the peer goes away.  Behind a preset header the  *)
(* request was an http request, and so was an upgrade cut short: these two *)
(* fall back.                                                              *)
ReadFails ==
  /\ verdict = "none"
  /\ rest = <<>>
  /\ IF heap # <<>> /\ conv \in {"preset", "ws"}
     THEN verdict' = "fallback" /\ rest' = heap
     ELSE verdict' = "broken" /\ UNCHANGED rest
  /\ UNCHANGED <<conv, wrong, sent, got, answered, stage, buf, heap, fit, out>>

(* The layer above, or the fallback, reads what is left, then the network. *)
GiveOn ==
  /\ verdict \in {"accepted", "fallback"}
  /\ \E n \in 1 .. Len(Arrived) :
       /\ out' = out \o SubSeq(Arrived, 1, n)
       /\ rest' = IF rest # <<>> THEN SubSeq(rest, n + 1, Len(rest)) ELSE rest
       /\ got' = IF rest # <<>> THEN got ELSE got + n
  /\ UNCHANGED <<conv, wrong, sent, answered, stage, buf, heap, fit, verdict>>

Next == Write \/ Read \/ ReadFails \/ GiveOn

Spec == Init /\ [][Next]_vars

-----------------------------------------------------------------------------
(* Where the code leaves the contract of Handover.                         *)
Lossy ==
  \/ (* a socks5 command that arrives in pieces is taken as whole          *)
     /\ conv \in {"socks5", "socks5http"} /\ verdict = "accepted" /\ fit = "cut"
  \/ (* data that arrives with the last reply of a socks5 server           *)
     /\ conv = "socks5_reply" /\ verdict = "accepted" /\ fit = "over"
  \/ (* the first buffer is cut to the length of the decoded password      *)
     /\ conv = "http_auth" /\ verdict = "accepted"
  \/ (* only the first of two reads is handed to the fallback              *)
     /\ conv \in {"preset", "ws"} /\ verdict = "fallback" /\ heap # <<>> /\ fit = "cut"

Contract ==
  INSTANCE Handover WITH
    whole <- Whole,
    body <- Body,
    verdict <- (IF verdict = "broken" THEN "refused" ELSE verdict),
    lossy <- Lossy

(* The handshakes implement the contract: what the layer above and what a  *)
(* fallback read is the peer's stream, from the right byte on, wherever    *)
(* the network cut it (ErrBuffer, ReadWrapper, io.MultiReader).            *)
ImplementsHandover == Contract!Spec

(* A request whose values are right and that was not cut is understood.    *)
(* The client of shadowsocks does not write one.                           *)
RequestUnderstood ==
  /\ verdict = "accepted" => wrong = None
  /\ wrong = None /\ fit # "cut" /\ conv # "shadowsocks_own"
       => verdict \in {"none", "accepted", "broken"}
=============================================================================
