------------------------- MODULE MCWireOpening_proofs -------------------------
(***************************************************************************)
(* Proofs about how a connection begins and about datagrams in a stream.   *)
(* The handshakes of all protocols (Handshakes) understand what arrives and *)
(* implement the contract of Handover, however the network cuts the bytes; *)
(* shadowTls (ShadowTls) keeps the handshake it copies apart from the      *)
(* tunnel that follows.  And the invariant of PacketStream, with what it   *)
(* says of the formats: MCWire_proofs makes a theorem of it.               *)
(***************************************************************************)
EXTENDS MCWire, SequenceTheorems, WellFoundedInduction, TLAPS

-----------------------------------------------------------------------------
(* Handshakes.  The tables of the protocols: the words their fields are    *)
(* named by, and what a round of one looks like.                           *)
Words ==
  {"version", "user", "addon", "cmd", "port", "atyp", "addr", "hash16", "hash17", "hash",
   "cr", "lf", "authid", "header", "length", "line", "headers", "upgrade", "early", "end",
   "methods", "password", "command", "method", "status", "reply", "bound", "data"}

Fits(fields, names, verdicts, least) ==
  /\ names \in Seq(Words)
  /\ Len(fields) = Len(names) /\ Len(fields) \in Nat /\ Len(fields) >= least
  /\ \A i \in 1 .. Len(fields) :
       /\ fields[i].name = names[i]
       /\ fields[i].short \in verdicts
       /\ fields[i].wrong \subseteq verdicts \ {"unnoticed"}
       /\ fields[i].short = "unnoticed" => fields[i].wrong = {}

(* What is written is what is expected, field by field. *)
LEMMA TablesFit ==
  /\ Fits(Handshakes!Vless0, Handshakes!VlessRequest, {"refused", "fallback"}, 2)
  /\ Fits(Handshakes!Vless1, Handshakes!VlessRequest, {"refused", "fallback"}, 2)
  /\ Fits(Handshakes!TrojanFields, Handshakes!TrojanRequest, {"refused", "fallback"}, 2)
  /\ Fits(Handshakes!SimpleFields, Handshakes!SimpleRequest, {"refused", "fallback"}, 2)
  /\ Fits(Handshakes!ShadowFields, Handshakes!ShadowRequest, {"refused"}, 2)
  /\ Fits(Handshakes!VmessFields, Handshakes!VmessRequest, {"refused"}, 2)
  /\ Fits(Handshakes!VmessReplyFields, Handshakes!VmessReply, {"refused"}, 2)
  /\ Fits(Handshakes!HttpFields, Handshakes!HttpRequest, {"refused"}, 2)
  /\ Fits(Handshakes!PresetFields, Handshakes!PresetRequest, {"refused", "fallback"}, 2)
  /\ Fits(Handshakes!PresetReplyFields, Handshakes!PresetReply, {"refused"}, 2)
  /\ Fits(Handshakes!VlessReplyFields, Handshakes!VlessReply, {"refused"}, 2)
  /\ Fits(Handshakes!WsFields, Handshakes!WsRequest, {"refused", "fallback", "drained"}, 2)
<1>1. Fits(Handshakes!Vless0, Handshakes!VlessRequest, {"refused", "fallback"}, 2)
  BY DEF Fits, Words, Handshakes!Vless0, Handshakes!VlessFields, Handshakes!VlessRequest,
         Handshakes!getBufWithCmd, Handshakes!AddressBytes, Handshakes!V2rayAddr,
         Handshakes!F
<1>2. Fits(Handshakes!Vless1, Handshakes!VlessRequest, {"refused", "fallback"}, 2)
  BY DEF Fits, Words, Handshakes!Vless1, Handshakes!VlessFields, Handshakes!VlessRequest,
         Handshakes!getBufWithCmd, Handshakes!AddressBytes, Handshakes!V2rayAddr,
         Handshakes!F
<1>3. Fits(Handshakes!TrojanFields, Handshakes!TrojanRequest, {"refused", "fallback"}, 2)
  BY DEF Fits, Words, Handshakes!TrojanFields, Handshakes!TrojanRequest,
         Handshakes!TrojanTarget, Handshakes!AddressBytes, Handshakes!TrojanAddr,
         Handshakes!F
<1>4. Fits(Handshakes!SimpleFields, Handshakes!SimpleRequest, {"refused", "fallback"}, 2)
  BY DEF Fits, Words, Handshakes!SimpleFields, Handshakes!SimpleRequest,
         Handshakes!SimpleTarget, Handshakes!AddressBytes, Handshakes!SimpleAddr,
         Handshakes!F
<1>5. Fits(Handshakes!ShadowFields, Handshakes!ShadowRequest, {"refused"}, 2)
  BY DEF Fits, Words, Handshakes!ShadowFields, Handshakes!ShadowRequest,
         Handshakes!ShadowTarget, Handshakes!AddressBytes, Handshakes!ShadowAddr,
         Handshakes!F
<1>6. Fits(Handshakes!VmessFields, Handshakes!VmessRequest, {"refused"}, 2)
  BY DEF Fits, Words, Handshakes!VmessFields, Handshakes!VmessRequest, Handshakes!F
<1>7. Fits(Handshakes!VmessReplyFields, Handshakes!VmessReply, {"refused"}, 2)
  BY DEF Fits, Words, Handshakes!VmessReplyFields, Handshakes!VmessReply, Handshakes!F
<1>8. Fits(Handshakes!HttpFields, Handshakes!HttpRequest, {"refused"}, 2)
  BY DEF Fits, Words, Handshakes!HttpFields, Handshakes!HttpRequest, Handshakes!F
<1>9. Fits(Handshakes!PresetFields, Handshakes!PresetRequest, {"refused", "fallback"}, 2)
  BY DEF Fits, Words, Handshakes!PresetFields, Handshakes!PresetRequest, Handshakes!F
<1>10. Fits(Handshakes!PresetReplyFields, Handshakes!PresetReply, {"refused"}, 2)
  BY DEF Fits, Words, Handshakes!PresetReplyFields, Handshakes!PresetReply, Handshakes!F
<1>11. Fits(Handshakes!VlessReplyFields, Handshakes!VlessReply, {"refused"}, 2)
  BY DEF Fits, Words, Handshakes!VlessReplyFields, Handshakes!VlessReply, Handshakes!F
<1>12. Fits(Handshakes!WsFields, Handshakes!WsRequest, {"refused", "fallback", "drained"}, 2)
  BY DEF Fits, Words, Handshakes!WsFields, Handshakes!WsRequest, Handshakes!F
<1> QED
  BY <1>1, <1>2, <1>3, <1>4, <1>5, <1>6, <1>7, <1>8, <1>9, <1>10, <1>11, <1>12

LEMMA SocksFit ==
  /\ Fits(Handshakes!Socks5Server[1].fields, Handshakes!Socks5Client[1], {"refused"}, 1)
  /\ Fits(Handshakes!Socks5Server[2].fields, Handshakes!Socks5Client[2], {"refused"}, 1)
  /\ Fits(Handshakes!Socks5Server[3].fields, Handshakes!Socks5Client[3],
          {"refused", "unnoticed"}, 1)
<1>1. Fits(Handshakes!Socks5Server[1].fields, Handshakes!Socks5Client[1], {"refused"}, 1)
  <2>1. /\ Handshakes!Socks5Client[1] = <<"version", "methods">>
        /\ Handshakes!Socks5Server[1].fields =
             <<Handshakes!F("version", "refused", {"refused"}),
               Handshakes!F("methods", "refused", {"refused"})>>
    BY DEF Handshakes!Socks5Server, Handshakes!Socks5Client, Handshakes!Round
  <2> QED
    BY <2>1 DEF Fits, Words, Handshakes!F
<1>2. Fits(Handshakes!Socks5Server[2].fields, Handshakes!Socks5Client[2], {"refused"}, 1)
  BY DEF Fits, Words, Handshakes!Socks5Server, Handshakes!Socks5Client, Handshakes!Round,
         Handshakes!F
<1>3. Fits(Handshakes!Socks5Server[3].fields, Handshakes!Socks5Client[3],
           {"refused", "unnoticed"}, 1)
  BY DEF Fits, Words, Handshakes!Socks5Server, Handshakes!Socks5Client, Handshakes!Round,
         Handshakes!F
<1> QED
  BY <1>1, <1>2, <1>3

LEMMA SocksRepliesFit ==
  /\ Fits(Handshakes!Socks5ReplyFields[1].fields, Handshakes!Socks5Replies[1], {"refused"}, 2)
  /\ Fits(Handshakes!Socks5ReplyFields[2].fields, Handshakes!Socks5Replies[2], {"refused"}, 2)
  /\ Fits(Handshakes!Socks5ReplyFields[3].fields, Handshakes!Socks5Replies[3], {"refused"}, 2)
<1>1. Fits(Handshakes!Socks5ReplyFields[1].fields, Handshakes!Socks5Replies[1], {"refused"}, 2)
  BY DEF Fits, Words, Handshakes!Socks5ReplyFields, Handshakes!Socks5Replies,
         Handshakes!Round, Handshakes!F
<1>2. Fits(Handshakes!Socks5ReplyFields[2].fields, Handshakes!Socks5Replies[2], {"refused"}, 2)
  BY DEF Fits, Words, Handshakes!Socks5ReplyFields, Handshakes!Socks5Replies,
         Handshakes!Round, Handshakes!F
<1>3. Fits(Handshakes!Socks5ReplyFields[3].fields, Handshakes!Socks5Replies[3], {"refused"}, 2)
  BY DEF Fits, Words, Handshakes!Socks5ReplyFields, Handshakes!Socks5Replies,
         Handshakes!Round, Handshakes!F
<1> QED
  BY <1>1, <1>2, <1>3

LEMMA Least ==
  ASSUME NEW S, S \subseteq Nat, S # {}
  PROVE  \E x \in S : \A y \in S : x <= y
<1>1. PICK x \in S : \A y \in S : ~(<<y, x>> \in OpToRel(<, Nat))
  BY NatLessThanWellFounded, WFMin
<1>2. ASSUME NEW y \in S PROVE x <= y
  <2>1. x \in Nat /\ y \in Nat /\ ~(<<y, x>> \in OpToRel(<, Nat))
    BY <1>1
  <2>2. ~(y < x)
    BY <2>1 DEF OpToRel
  <2>3. x \in Nat /\ y \in Nat
    BY <1>1
  <2> QED
    BY <2>2, <2>3
<1> QED
  BY <1>1, <1>2

(* The conversations of one round. *)
OneRound ==
  {"vless0", "vless1", "trojan", "simplesocks", "shadowsocks", "vmess", "http_connect",
   "http_get", "http_auth", "ws", "vless0_reply", "vmess_reply", "preset_reply"}

VerdictsOf(c) ==
  IF c = "ws"
  THEN {"refused", "fallback", "drained"}
  ELSE IF c \in {"vless0", "vless1", "trojan", "simplesocks"}
  THEN {"refused", "fallback"}
  ELSE {"refused"}

LEMMA OneRoundTable ==
  ASSUME NEW c \in OneRound
  PROVE  /\ Len(Handshakes!Writes(c)) = 1
         /\ Len(Handshakes!Reads(c)) = 1
         /\ Handshakes!Reads(c)[1].min \in 1 .. 2
         /\ Fits(Handshakes!Reads(c)[1].fields, Handshakes!Writes(c)[1], VerdictsOf(c), 2)
<1> USE DEF Handshakes!Writes, Handshakes!Reads, Handshakes!Round, VerdictsOf
<1>1. CASE c = "vless0"
  BY <1>1, TablesFit
<1>2. CASE c = "vless1"
  BY <1>2, TablesFit
<1>3. CASE c = "trojan"
  BY <1>3, TablesFit
<1>4. CASE c = "simplesocks"
  BY <1>4, TablesFit
<1>5. CASE c = "shadowsocks"
  BY <1>5, TablesFit
<1>6. CASE c = "vmess"
  BY <1>6, TablesFit
<1>7. CASE c \in {"http_connect", "http_get", "http_auth"}
  BY <1>7, TablesFit
<1>8. CASE c = "ws"
  BY <1>8, TablesFit
<1>9. CASE c = "vless0_reply"
  BY <1>9, TablesFit
<1>10. CASE c = "vmess_reply"
  BY <1>10, TablesFit
<1>11. CASE c = "preset_reply"
  BY <1>11, TablesFit
<1> QED
  BY <1>1, <1>2, <1>3, <1>4, <1>5, <1>6, <1>7, <1>8, <1>9, <1>10, <1>11 DEF OneRound

(* What is written in all is the rounds and the data behind them. *)
LEMMA DataFollow ==
  ASSUME NEW w \in Seq(Words)
  PROVE  LET all == w \o [i \in 1 .. Payload |-> "data"] IN
         /\ Len(all) = Len(w) + Payload /\ Len(all) \in Nat
         /\ \A i \in 1 .. Len(w) : all[i] = w[i]
         /\ \A i \in 1 .. Payload : all[Len(w) + i] = "data"
<1> DEFINE d == [i \in 1 .. Payload |-> "data"]
<1>1. d \in Seq(Words) /\ Len(d) = Payload /\ Payload \in Nat
  <2>1. Payload \in Nat /\ \A i \in 1 .. Payload : "data" \in Words
    BY HandshakesAssumption DEF Words
  <2> QED
    BY <2>1, IsASeq
<1>2. \A i \in 1 .. Payload : d[i] = "data"
  OBVIOUS
<1> HIDE DEF d
<1>3. /\ Len(w \o d) = Len(w) + Len(d) /\ Len(w) \in Nat
      /\ \A i \in 1 .. Len(w) + Len(d) :
           (w \o d)[i] = IF i <= Len(w) THEN w[i] ELSE d[i - Len(w)]
  BY <1>1, ConcatProperties, LenProperties
<1>4. ASSUME NEW i \in 1 .. Len(w) PROVE (w \o d)[i] = w[i]
  BY <1>1, <1>3
<1>5. ASSUME NEW i \in 1 .. Payload PROVE (w \o d)[Len(w) + i] = "data"
  <2>1. Len(w) + i \in 1 .. Len(w) + Len(d) /\ ~(Len(w) + i <= Len(w))
        /\ (Len(w) + i) - Len(w) = i
    BY <1>1, <1>3
  <2> QED
    BY <1>2, <1>3, <2>1
<1>6. Len(w \o d) = Len(w) + Payload /\ Len(w \o d) \in Nat
  BY <1>1, <1>3
<1> QED
  BY <1>4, <1>5, <1>6 DEF d

(* The round the reader is in: it expects names, which are written from    *)
(* behind place o on, and objects with a verdict of verdicts.              *)
RoundIs(names, o, verdicts) ==
  /\ Fits(Handshakes!Fields, names, verdicts, 1)
  /\ Handshakes!Reads(conv)[stage].min \in 1 .. Len(Handshakes!Fields)
  /\ \A i \in 1 .. Len(Handshakes!Fields) : Handshakes!Name(o + i) = names[i]

LEMMA OneRoundIs ==
  ASSUME conv \in OneRound
  PROVE  /\ Handshakes!Rounds = 1 /\ Len(Handshakes!Reads(conv)) = 1
         /\ Handshakes!End(0) = 0 /\ Handshakes!End(1) = Len(Handshakes!Reads(conv)[1].fields)
         /\ Handshakes!End(1) \in Nat \ {0, 1}
         /\ Handshakes!Length = Handshakes!End(1) + Payload
         /\ stage = 1 => RoundIs(Handshakes!Writes(conv)[1], 0, VerdictsOf(conv))
<1> DEFINE w == Handshakes!Writes(conv)[1]
<1>1. /\ Len(Handshakes!Writes(conv)) = 1 /\ Len(Handshakes!Reads(conv)) = 1
      /\ Handshakes!Reads(conv)[1].min \in 1 .. 2
      /\ Fits(Handshakes!Reads(conv)[1].fields, w, VerdictsOf(conv), 2)
  BY OneRoundTable
<1>2. /\ Handshakes!Upto(conv, 0) = <<>> /\ Handshakes!Upto(conv, 1) = w
  BY DEF Handshakes!Upto
<1> HIDE DEF w
<1>3. w \in Seq(Words) /\ Len(w) \in Nat \ {0, 1}
      /\ Len(w) = Len(Handshakes!Reads(conv)[1].fields)
  BY <1>1 DEF Fits
<1>4. Handshakes!Tokens(conv) = w \o [i \in 1 .. Payload |-> "data"]
  BY <1>1, <1>2 DEF Handshakes!Tokens
<1>5. Handshakes!End(0) = 0 /\ Handshakes!End(1) = Len(w) /\ Handshakes!Rounds = 1
  BY <1>1, <1>2 DEF Handshakes!End, Handshakes!Rounds
<1>6. Handshakes!Length = Len(w) + Payload
      /\ \A i \in 1 .. Len(w) : Handshakes!Tokens(conv)[i] = w[i]
  BY <1>3, <1>4, DataFollow DEF Handshakes!Length
<1>7. ASSUME stage = 1
      PROVE  RoundIs(w, 0, VerdictsOf(conv))
  <2>1. Handshakes!Fields = Handshakes!Reads(conv)[1].fields
    BY <1>7 DEF Handshakes!Fields
  <2>2. Fits(Handshakes!Fields, w, VerdictsOf(conv), 1)
    BY <1>1, <2>1 DEF Fits
  <2>3. ASSUME NEW i \in 1 .. Len(Handshakes!Fields)
        PROVE  Handshakes!Name(0 + i) = w[i]
    BY <1>3, <1>6, <2>1 DEF Handshakes!Name
  <2>4. Handshakes!Reads(conv)[stage].min \in 1 .. Len(Handshakes!Fields)
    <3>1. Handshakes!Reads(conv)[stage].min \in 1 .. 2
      BY <1>1, <1>7
    <3>2. Len(Handshakes!Fields) \in Nat \ {0, 1}
      BY <1>3, <2>1
    <3>3. \A m \in 1 .. 2, l \in Nat \ {0, 1} : m \in 1 .. l
      OBVIOUS
    <3> QED
      BY <3>1, <3>2, <3>3
  <2> QED
    BY <2>2, <2>3, <2>4 DEF RoundIs
<1> QED
  BY <1>1, <1>3, <1>5, <1>6, <1>7 DEF w

LEMMA OwnIs ==
  ASSUME conv = "shadowsocks_own"
  PROVE  /\ Handshakes!Rounds = 1 /\ Len(Handshakes!Reads(conv)) = 1
         /\ Handshakes!End(0) = 0 /\ Handshakes!End(1) = 0 /\ Handshakes!Length = Payload
         /\ \A i \in 1 .. Payload : Handshakes!Name(i) = "data"
         /\ stage = 1 =>
              /\ Handshakes!Fields = Handshakes!ShadowFields
              /\ Handshakes!Reads(conv)[stage].min \in 1 .. 2
<1>1. Handshakes!Writes(conv) = << <<>> >>
  BY DEF Handshakes!Writes, Handshakes!ShadowOwnRequest
<1>2. Handshakes!Upto(conv, 0) = <<>> /\ Handshakes!Upto(conv, 1) = <<>>
      /\ Len(Handshakes!Writes(conv)) = 1
  BY <1>1 DEF Handshakes!Upto
<1>3. Len(Handshakes!Reads(conv)) = 1
      /\ Handshakes!Reads(conv)[1].fields = Handshakes!ShadowFields
      /\ Handshakes!Reads(conv)[1].min = 1
  BY DEF Handshakes!Reads, Handshakes!Round
<1>4. Handshakes!Tokens(conv) = <<>> \o [i \in 1 .. Payload |-> "data"]
  BY <1>2 DEF Handshakes!Tokens
<1>5. <<>> \in Seq(Words) /\ Len(<<>>) = 0
  OBVIOUS
<1>6. Handshakes!Length = 0 + Payload
      /\ \A i \in 1 .. Payload : Handshakes!Tokens(conv)[0 + i] = "data"
  BY <1>4, <1>5, DataFollow DEF Handshakes!Length
<1>7. Payload \in Nat
  BY HandshakesAssumption
<1>8. Handshakes!Length = Payload
      /\ \A i \in 1 .. Payload : Handshakes!Name(i) = "data"
  BY <1>6, <1>7 DEF Handshakes!Name
<1> QED
  BY <1>2, <1>3, <1>8 DEF Handshakes!Rounds, Handshakes!End, Handshakes!Fields

LEMMA PresetIs ==
  ASSUME conv = "preset"
  PROVE  /\ Handshakes!Rounds = 1 /\ Len(Handshakes!Reads(conv)) = 2
         /\ Handshakes!End(0) = 0 /\ Handshakes!End(1) = 4 /\ Handshakes!Length = 4 + Payload
         /\ stage \in 1 .. 2 => Len(Handshakes!Fields) = 2
         /\ stage = 1 => RoundIs(Handshakes!PresetRequest, 0, {"refused", "fallback"})
         /\ stage = 2 => RoundIs(Handshakes!VmessRequest, 2, {"refused"})
<1> DEFINE w == Handshakes!PresetRequest \o Handshakes!VmessRequest
<1>1. Len(Handshakes!Writes(conv)) = 1 /\ Handshakes!Writes(conv)[1] = w
  BY DEF Handshakes!Writes
<1>2. Handshakes!Upto(conv, 0) = <<>> /\ Handshakes!Upto(conv, 1) = w
  BY <1>1 DEF Handshakes!Upto
<1>3. /\ w \in Seq(Words) /\ Len(w) = 4
      /\ \A i \in 1 .. 2 :
           w[i] = Handshakes!PresetRequest[i] /\ w[2 + i] = Handshakes!VmessRequest[i]
  BY DEF Handshakes!PresetRequest, Handshakes!VmessRequest, Words
<1> HIDE DEF w
<1>4. /\ Len(Handshakes!Reads(conv)) = 2
      /\ Handshakes!Reads(conv)[1].fields = Handshakes!PresetFields
      /\ Handshakes!Reads(conv)[1].min = 1
      /\ Handshakes!Reads(conv)[2].fields = Handshakes!VmessFields
      /\ Handshakes!Reads(conv)[2].min = 1
  BY DEF Handshakes!Reads, Handshakes!Round
<1>5. Handshakes!Tokens(conv) = w \o [i \in 1 .. Payload |-> "data"]
  BY <1>1, <1>2 DEF Handshakes!Tokens
<1>6. Handshakes!Length = 4 + Payload
      /\ \A i \in 1 .. 4 : Handshakes!Tokens(conv)[i] = w[i]
  BY <1>3, <1>5, DataFollow DEF Handshakes!Length
<1>7. Len(Handshakes!PresetFields) = 2 /\ Len(Handshakes!VmessFields) = 2
  BY DEF Handshakes!PresetFields, Handshakes!VmessFields
<1>8. ASSUME stage = 1
      PROVE  RoundIs(Handshakes!PresetRequest, 0, {"refused", "fallback"})
             /\ Len(Handshakes!Fields) = 2
  <2>1. Handshakes!Fields = Handshakes!PresetFields
    BY <1>4, <1>8 DEF Handshakes!Fields
  <2>2. Fits(Handshakes!Fields, Handshakes!PresetRequest, {"refused", "fallback"}, 1)
    BY <2>1, TablesFit DEF Fits
  <2>3. ASSUME NEW i \in 1 .. 2 PROVE Handshakes!Name(0 + i) = Handshakes!PresetRequest[i]
    <3>1. i \in 1 .. 4 /\ 0 + i = i /\ i # 0
      OBVIOUS
    <3> QED
      BY <1>3, <1>6, <3>1 DEF Handshakes!Name
  <2>5. Len(Handshakes!Fields) = 2
    BY <1>7, <2>1
  <2>4. Handshakes!Reads(conv)[stage].min \in 1 .. Len(Handshakes!Fields)
    BY <1>4, <1>8, <2>5
  <2> QED
    BY <1>8, <2>2, <2>3, <2>4, <2>5 DEF RoundIs
<1>9. ASSUME stage = 2
      PROVE  RoundIs(Handshakes!VmessRequest, 2, {"refused"}) /\ Len(Handshakes!Fields) = 2
  <2>1. Handshakes!Fields = Handshakes!VmessFields
    BY <1>4, <1>9 DEF Handshakes!Fields
  <2>2. Fits(Handshakes!Fields, Handshakes!VmessRequest, {"refused"}, 1)
    BY <2>1, TablesFit DEF Fits
  <2>3. ASSUME NEW i \in 1 .. 2 PROVE Handshakes!Name(2 + i) = Handshakes!VmessRequest[i]
    <3>1. 2 + i \in 1 .. 4 /\ 2 + i # 0
      OBVIOUS
    <3> QED
      BY <1>3, <1>6, <3>1 DEF Handshakes!Name
  <2>5. Len(Handshakes!Fields) = 2
    BY <1>7, <2>1
  <2>4. Handshakes!Reads(conv)[stage].min \in 1 .. Len(Handshakes!Fields)
    BY <1>4, <1>9, <2>5
  <2> QED
    BY <1>9, <2>2, <2>3, <2>4, <2>5 DEF RoundIs
<1> QED
  BY <1>1, <1>2, <1>3, <1>4, <1>6, <1>8, <1>9 DEF Handshakes!Rounds, Handshakes!End

(* The clients of socks5, whose three rounds end at 2, 3 and 5. *)
LEMMA ClientIs ==
  ASSUME conv \in {"socks5", "socks5http"}
  PROVE  /\ Handshakes!Rounds = 3
         /\ Handshakes!End(0) = 0 /\ Handshakes!End(1) = 2 /\ Handshakes!End(2) = 3
         /\ Handshakes!End(3) = 5 /\ Handshakes!Length = 5 + Payload
         /\ \A i \in 1 .. 2 : Handshakes!Name(0 + i) = Handshakes!Socks5Client[1][i]
         /\ \A i \in 1 .. 1 : Handshakes!Name(2 + i) = Handshakes!Socks5Client[2][i]
         /\ \A i \in 1 .. 2 : Handshakes!Name(3 + i) = Handshakes!Socks5Client[3][i]
         /\ Handshakes!Name(1) = "version"
<1> DEFINE w == (Handshakes!Socks5Client[1] \o Handshakes!Socks5Client[2])
                \o Handshakes!Socks5Client[3]
<1>1. Handshakes!Writes(conv) = Handshakes!Socks5Client
  BY DEF Handshakes!Writes
<1>2. Len(Handshakes!Socks5Client) = 3
  BY DEF Handshakes!Socks5Client
<1>3. /\ w \in Seq(Words) /\ Len(w) = 5
      /\ \A i \in 1 .. 2 : w[i] = Handshakes!Socks5Client[1][i]
      /\ w[3] = Handshakes!Socks5Client[2][1]
      /\ \A i \in 1 .. 2 : w[3 + i] = Handshakes!Socks5Client[3][i]
      /\ w[1] = "version"
  BY DEF Handshakes!Socks5Client, Words
<1>4. /\ Handshakes!Upto(conv, 0) = <<>>
      /\ Len(Handshakes!Upto(conv, 1)) = 2 /\ Len(Handshakes!Upto(conv, 2)) = 3
      /\ Handshakes!Upto(conv, 3) = w
  BY <1>1 DEF Handshakes!Upto, Handshakes!Socks5Client
<1> HIDE DEF w
<1>5. Handshakes!Tokens(conv) = w \o [i \in 1 .. Payload |-> "data"]
  BY <1>1, <1>2, <1>4 DEF Handshakes!Tokens
<1>6. Handshakes!Length = 5 + Payload
      /\ \A i \in 1 .. 5 : Handshakes!Tokens(conv)[i] = w[i]
  BY <1>3, <1>5, DataFollow, ZenonT(60) DEF Handshakes!Length
<1>7. \A i \in 1 .. 5 : Handshakes!Name(i) = w[i]
  BY <1>6 DEF Handshakes!Name
<1>8. /\ \A i \in 1 .. 2 : Handshakes!Name(0 + i) = Handshakes!Socks5Client[1][i]
      /\ \A i \in 1 .. 1 : Handshakes!Name(2 + i) = Handshakes!Socks5Client[2][i]
      /\ \A i \in 1 .. 2 : Handshakes!Name(3 + i) = Handshakes!Socks5Client[3][i]
      /\ Handshakes!Name(1) = "version"
  BY <1>3, <1>7
<1> QED
  BY <1>1, <1>2, <1>3, <1>4, <1>6, <1>8 DEF Handshakes!Rounds, Handshakes!End

LEMMA UptoIs ==
  ASSUME NEW c
  PROVE  /\ Handshakes!Upto(c, 0) = <<>>
         /\ Handshakes!Upto(c, 1) = Handshakes!Writes(c)[1]
         /\ Handshakes!Upto(c, 2) = Handshakes!Writes(c)[1] \o Handshakes!Writes(c)[2]
         /\ Handshakes!Upto(c, 3) =
              (Handshakes!Writes(c)[1] \o Handshakes!Writes(c)[2]) \o Handshakes!Writes(c)[3]
<1> DEFINE one == Handshakes!Writes(c)[1]
           two == Handshakes!Writes(c)[1] \o Handshakes!Writes(c)[2]
           three == (Handshakes!Writes(c)[1] \o Handshakes!Writes(c)[2])
                      \o Handshakes!Writes(c)[3]
           upto(r) == CASE r = 0 -> <<>> [] r = 1 -> one [] r = 2 -> two [] r = 3 -> three
<1>1. /\ Handshakes!Upto(c, 0) = upto(0) /\ Handshakes!Upto(c, 1) = upto(1)
      /\ Handshakes!Upto(c, 2) = upto(2) /\ Handshakes!Upto(c, 3) = upto(3)
  BY Zenon DEF Handshakes!Upto
<1> HIDE DEF one, two, three
<1>2. upto(0) = <<>> /\ upto(1) = one /\ upto(2) = two /\ upto(3) = three
  OBVIOUS
<1> QED
  BY <1>1, <1>2 DEF one, two, three

LEMMA ReplyIs ==
  ASSUME conv = "socks5_reply"
  PROVE  /\ Handshakes!Rounds = 3
         /\ Handshakes!End(0) = 0 /\ Handshakes!End(1) = 2 /\ Handshakes!End(2) = 4
         /\ Handshakes!End(3) = 6 /\ Handshakes!Length = 6 + Payload
         /\ \A i \in 1 .. 2 : Handshakes!Name(0 + i) = Handshakes!Socks5Replies[1][i]
         /\ \A i \in 1 .. 2 : Handshakes!Name(2 + i) = Handshakes!Socks5Replies[2][i]
         /\ \A i \in 1 .. 2 : Handshakes!Name(4 + i) = Handshakes!Socks5Replies[3][i]
<1> DEFINE w == (Handshakes!Socks5Replies[1] \o Handshakes!Socks5Replies[2])
                \o Handshakes!Socks5Replies[3]
<1>1. Handshakes!Writes(conv) = Handshakes!Socks5Replies
  BY DEF Handshakes!Writes
<1>2. Len(Handshakes!Socks5Replies) = 3
  BY DEF Handshakes!Socks5Replies
<1>3. /\ w \in Seq(Words) /\ Len(w) = 6
      /\ \A i \in 1 .. 2 : w[i] = Handshakes!Socks5Replies[1][i]
      /\ \A i \in 1 .. 2 : w[2 + i] = Handshakes!Socks5Replies[2][i]
      /\ \A i \in 1 .. 2 : w[4 + i] = Handshakes!Socks5Replies[3][i]
  BY DEF Handshakes!Socks5Replies, Words
<1>4. /\ Handshakes!Upto(conv, 0) = <<>>
      /\ Len(Handshakes!Upto(conv, 1)) = 2 /\ Len(Handshakes!Upto(conv, 2)) = 4
      /\ Handshakes!Upto(conv, 3) = w
  <2>2. /\ Len(Handshakes!Socks5Replies[1]) = 2
        /\ Len(Handshakes!Socks5Replies[1] \o Handshakes!Socks5Replies[2]) = 4
    BY DEF Handshakes!Socks5Replies
  <2> QED
    BY <1>1, <2>2, UptoIs
<1> HIDE DEF w
<1>5. Handshakes!Tokens(conv) = w \o [i \in 1 .. Payload |-> "data"]
  BY <1>1, <1>2, <1>4 DEF Handshakes!Tokens
<1>6. Handshakes!Length = 6 + Payload
      /\ \A i \in 1 .. 6 : Handshakes!Tokens(conv)[i] = w[i]
  <2>1. w \in Seq(Words) /\ Len(w) = 6
    BY <1>3
  <2> QED
    BY <1>5, <2>1, DataFollow DEF Handshakes!Length
<1>7. \A i \in 1 .. 6 : Handshakes!Name(i) = w[i]
  BY <1>6 DEF Handshakes!Name
<1>8. /\ \A i \in 1 .. 2 : Handshakes!Name(0 + i) = Handshakes!Socks5Replies[1][i]
      /\ \A i \in 1 .. 2 : Handshakes!Name(2 + i) = Handshakes!Socks5Replies[2][i]
      /\ \A i \in 1 .. 2 : Handshakes!Name(4 + i) = Handshakes!Socks5Replies[3][i]
  BY <1>3, <1>7
<1> QED
  BY <1>1, <1>2, <1>3, <1>4, <1>6, <1>8 DEF Handshakes!Rounds, Handshakes!End

(* The rounds the server of socks5 reads, alone or behind an http server.  *)
SocksVerdicts == {"refused", "unnoticed"}

ServerRound(s) ==
  /\ Handshakes!Fields = Handshakes!Socks5Server[s].fields
  /\ Handshakes!Reads(conv)[stage].min = 1

LEMMA ServerRounds ==
  /\ conv = "socks5" =>
       /\ Len(Handshakes!Reads(conv)) = 3
       /\ \A s \in 1 .. 3 : stage = s => ServerRound(s)
  /\ conv = "socks5http" =>
       /\ Len(Handshakes!Reads(conv)) = 4
       /\ \A s \in 1 .. 3 : stage = s + 1 => ServerRound(s)
       /\ stage = 1 => /\ Handshakes!Fields = Handshakes!HttpFields
                       /\ Handshakes!Reads(conv)[stage].min = 1
<1>1. /\ Len(Handshakes!Socks5Server) = 3
      /\ \A s \in 1 .. 3 : Handshakes!Socks5Server[s].min = 1
  BY DEF Handshakes!Socks5Server, Handshakes!Round
<1>2. ASSUME conv = "socks5"
      PROVE  /\ Len(Handshakes!Reads(conv)) = 3
             /\ \A s \in 1 .. 3 : stage = s => ServerRound(s)
  <2>1. Handshakes!Reads(conv) = Handshakes!Socks5Server
    BY <1>2 DEF Handshakes!Reads
  <2> QED
    BY <1>1, <2>1 DEF ServerRound, Handshakes!Fields
<1>3. ASSUME conv = "socks5http"
      PROVE  /\ Len(Handshakes!Reads(conv)) = 4
             /\ \A s \in 1 .. 3 : stage = s + 1 => ServerRound(s)
             /\ stage = 1 => /\ Handshakes!Fields = Handshakes!HttpFields
                             /\ Handshakes!Reads(conv)[stage].min = 1
  <2>1. Handshakes!Reads(conv) =
          << Handshakes!Round(1, Handshakes!HttpFields) >> \o Handshakes!Socks5Server
    BY <1>3 DEF Handshakes!Reads
  <2>2. /\ Len(Handshakes!Reads(conv)) = 4
        /\ Handshakes!Reads(conv)[1] = Handshakes!Round(1, Handshakes!HttpFields)
        /\ Handshakes!Reads(conv)[2] = Handshakes!Socks5Server[1]
        /\ Handshakes!Reads(conv)[3] = Handshakes!Socks5Server[2]
        /\ Handshakes!Reads(conv)[4] = Handshakes!Socks5Server[3]
    BY <2>1 DEF Handshakes!Socks5Server
  <2>3. ASSUME NEW s \in 1 .. 3, stage = s + 1 PROVE ServerRound(s)
    <3>1. s = 1 \/ s = 2 \/ s = 3
      OBVIOUS
    <3>2. Handshakes!Reads(conv)[stage] = Handshakes!Socks5Server[s]
      BY <2>2, <2>3, <3>1
    <3> QED
      BY <1>1, <3>2 DEF ServerRound, Handshakes!Fields
  <2>4. ASSUME stage = 1
        PROVE  /\ Handshakes!Fields = Handshakes!HttpFields
               /\ Handshakes!Reads(conv)[stage].min = 1
    BY <2>2, <2>4 DEF Handshakes!Fields, Handshakes!Round
  <2> QED
    BY <2>2, <2>3, <2>4
<1> QED
  BY <1>2, <1>3

(* What the rounds of socks5 expect, and where it is. *)
LEMMA ServerIs ==
  ASSUME conv \in {"socks5", "socks5http"}, NEW s \in 1 .. 3,
         stage = IF conv = "socks5" THEN s ELSE s + 1
  PROVE  /\ RoundIs(Handshakes!Socks5Client[s], Handshakes!End(s - 1), SocksVerdicts)
         /\ Len(Handshakes!Fields) = Handshakes!End(s) - Handshakes!End(s - 1)
         /\ s # 3 => \A i \in 1 .. Len(Handshakes!Fields) :
                       Handshakes!Fields[i].short = "refused"
<1>1. ServerRound(s)
  BY ServerRounds
<1>2. Len(Handshakes!Fields) = Handshakes!End(s) - Handshakes!End(s - 1)
  <2>1. /\ Len(Handshakes!Socks5Server[1].fields) = 2
        /\ Len(Handshakes!Socks5Server[2].fields) = 1
        /\ Len(Handshakes!Socks5Server[3].fields) = 2
    BY DEF Handshakes!Socks5Server, Handshakes!Round
  <2>3. Handshakes!Fields = Handshakes!Socks5Server[s].fields
    BY <1>1 DEF ServerRound
  <2>4. /\ Handshakes!End(0) = 0 /\ Handshakes!End(1) = 2
        /\ Handshakes!End(2) = 3 /\ Handshakes!End(3) = 5
    BY ClientIs
  <2>5. CASE s = 1
    <3>1. s - 1 = 0
      BY <2>5
    <3>2. Handshakes!End(s) = 2 /\ Handshakes!End(s - 1) = 0
      BY <2>4, <2>5, <3>1
    <3>3. Len(Handshakes!Fields) = 2
      BY <2>1, <2>3, <2>5
    <3> QED
      BY <3>2, <3>3
  <2>6. CASE s = 2
    <3>1. s - 1 = 1
      BY <2>6
    <3>2. Handshakes!End(s) = 3 /\ Handshakes!End(s - 1) = 2
      BY <2>4, <2>6, <3>1
    <3>3. Len(Handshakes!Fields) = 1
      BY <2>1, <2>3, <2>6
    <3> QED
      BY <3>2, <3>3
  <2>7. CASE s = 3
    <3>1. s - 1 = 2
      BY <2>7
    <3>2. Handshakes!End(s) = 5 /\ Handshakes!End(s - 1) = 3
      BY <2>4, <2>7, <3>1
    <3>3. Len(Handshakes!Fields) = 2
      BY <2>1, <2>3, <2>7
    <3> QED
      BY <3>2, <3>3
  <2> QED
    BY <2>5, <2>6, <2>7
<1>3. Fits(Handshakes!Fields, Handshakes!Socks5Client[s], SocksVerdicts, 1)
      /\ (s # 3 => \A i \in 1 .. Len(Handshakes!Fields) :
                     Handshakes!Fields[i].short = "refused")
  <2>1. CASE s = 1
    BY <1>1, <2>1, SocksFit DEF Fits, ServerRound, SocksVerdicts
  <2>2. CASE s = 2
    BY <1>1, <2>2, SocksFit DEF Fits, ServerRound, SocksVerdicts
  <2>3. CASE s = 3
    BY <1>1, <2>3, SocksFit DEF Fits, ServerRound, SocksVerdicts
  <2> QED
    BY <2>1, <2>2, <2>3
<1>4. ASSUME NEW i \in 1 .. Len(Handshakes!Fields)
      PROVE  Handshakes!Name(Handshakes!End(s - 1) + i) = Handshakes!Socks5Client[s][i]
  <2>1. CASE s = 1
    BY <1>2, <1>4, <2>1, ClientIs
  <2>2. CASE s = 2
    BY <1>2, <1>4, <2>2, ClientIs
  <2>3. CASE s = 3
    BY <1>2, <1>4, <2>3, ClientIs
  <2> QED
    BY <2>1, <2>2, <2>3
<1>5. Handshakes!Reads(conv)[stage].min \in 1 .. Len(Handshakes!Fields)
  BY <1>1, <1>3 DEF ServerRound, Fits
<1> QED
  BY <1>2, <1>3, <1>4, <1>5 DEF RoundIs

LEMMA RepliesAre ==
  ASSUME conv = "socks5_reply"
  PROVE  /\ Len(Handshakes!Reads(conv)) = 3
         /\ stage \in 1 .. 3 =>
              /\ RoundIs(Handshakes!Socks5Replies[stage], Handshakes!End(stage - 1), {"refused"})
              /\ Handshakes!Reads(conv)[stage].min = 2
              /\ Len(Handshakes!Fields) = 2
<1>1. Handshakes!Reads(conv) = Handshakes!Socks5ReplyFields
  BY DEF Handshakes!Reads
<1>2. /\ Len(Handshakes!Socks5ReplyFields) = 3
      /\ \A s \in 1 .. 3 : /\ Handshakes!Socks5ReplyFields[s].min = 2
                           /\ Len(Handshakes!Socks5ReplyFields[s].fields) = 2
  BY DEF Handshakes!Socks5ReplyFields, Handshakes!Round
<1>3. ASSUME stage \in 1 .. 3
      PROVE  /\ RoundIs(Handshakes!Socks5Replies[stage], Handshakes!End(stage - 1),
                        {"refused"})
             /\ Handshakes!Reads(conv)[stage].min = 2
             /\ Len(Handshakes!Fields) = 2
  <2>1. /\ Handshakes!Fields = Handshakes!Socks5ReplyFields[stage].fields
        /\ Handshakes!Reads(conv)[stage].min = 2
        /\ Len(Handshakes!Fields) = 2
    BY <1>1, <1>2, <1>3 DEF Handshakes!Fields
  <2>2. Fits(Handshakes!Fields, Handshakes!Socks5Replies[stage], {"refused"}, 1)
    <3>1. stage = 1 \/ stage = 2 \/ stage = 3
      BY <1>3
    <3>2. Fits(Handshakes!Fields, Handshakes!Socks5Replies[stage], {"refused"}, 2)
      BY <2>1, <3>1, SocksRepliesFit
    <3> QED
      BY <3>2 DEF Fits
  <2>3. ASSUME NEW i \in 1 .. 2
        PROVE  Handshakes!Name(Handshakes!End(stage - 1) + i)
                 = Handshakes!Socks5Replies[stage][i]
    <3>1. CASE stage = 1
      BY <3>1, ReplyIs
    <3>2. CASE stage = 2
      BY <3>2, ReplyIs
    <3>3. CASE stage = 3
      BY <3>3, ReplyIs
    <3> QED
      BY <1>3, <3>1, <3>2, <3>3
  <2> QED
    BY <2>1, <2>2, <2>3 DEF RoundIs
<1> QED
  BY <1>1, <1>2, <1>3

(* What a reader makes of what it holds. *)
LEMMA WrongIs ==
  ASSUME wrong \in Handshakes!Wrongs
  PROVE  /\ wrong[1] \in 1 .. Len(Handshakes!Reads(conv))
         /\ conv = "socks5http" => wrong[1] >= 2
         /\ wrong[2] \in 1 .. Len(Handshakes!Reads(conv)[wrong[1]].fields)
         /\ wrong[3] \in Handshakes!Reads(conv)[wrong[1]].fields[wrong[2]].wrong
<1>1. PICK r, i, v :
        /\ r \in (IF conv = "socks5http" THEN 2 ELSE 1) .. Len(Handshakes!Reads(conv))
        /\ i \in 1 .. Len(Handshakes!Reads(conv)[r].fields)
        /\ v \in Handshakes!Reads(conv)[r].fields[i].wrong
        /\ wrong = <<r, i, v>>
  BY DEF Handshakes!Wrongs
<1>2. wrong[1] = r /\ wrong[2] = i /\ wrong[3] = v
  BY <1>1
<1>3. r \in 1 .. Len(Handshakes!Reads(conv)) /\ (conv = "socks5http" => r >= 2)
  BY <1>1
<1> QED
  BY <1>1, <1>2, <1>3

LEMMA FirstBad ==
  ASSUME NEW b, Handshakes!Bad(b) # {}
  PROVE  Handshakes!Objection(b) \in Handshakes!Bad(b)
<1>1. Handshakes!Bad(b) \subseteq Nat
  BY DEF Handshakes!Bad
<1>2. \E x \in Handshakes!Bad(b) : \A y \in Handshakes!Bad(b) : x <= y
  BY <1>1, Least
<1> QED
  BY <1>2 DEF Handshakes!Objection

LEMMA OpinionIs ==
  ASSUME NEW names, NEW verdicts, NEW b, NEW v \in Handshakes!Opinion(b),
         Fits(Handshakes!Fields, names, verdicts, 1), "refused" \in verdicts,
         wrong \in {None} \cup Handshakes!Wrongs
  PROVE  \/ v = "accepted" /\ Handshakes!Bad(b) = {}
            /\ ~(Len(b) < Handshakes!Reads(conv)[stage].min)
         \/ v \in verdicts \ {"unnoticed"}
<1> DEFINE i == Handshakes!Objection(b)
<1>1. CASE Len(b) < Handshakes!Reads(conv)[stage].min
  BY <1>1 DEF Handshakes!Opinion
<1>2. CASE ~(Len(b) < Handshakes!Reads(conv)[stage].min) /\ Handshakes!Bad(b) = {}
  BY <1>2 DEF Handshakes!Opinion
<1>3. CASE ~(Len(b) < Handshakes!Reads(conv)[stage].min) /\ Handshakes!Bad(b) # {}
  <2>1. v \in IF ~Handshakes!Has(b, i)
              THEN {Handshakes!Fields[i].short}
              ELSE IF wrong # None /\ wrong[1] = stage /\ wrong[2] = i
              THEN {wrong[3]}
              ELSE Handshakes!Fields[i].wrong
    BY <1>3 DEF Handshakes!Opinion
  <2>2. i \in Handshakes!Bad(b)
    BY <1>3, FirstBad
  <2> HIDE DEF i
  <2>3. /\ i \in 1 .. Len(Handshakes!Fields)
        /\ ~Handshakes!Has(b, i) => Handshakes!Fields[i].short # "unnoticed"
    BY <2>2 DEF Handshakes!Bad
  <2>4. /\ Handshakes!Fields[i].short \in verdicts
        /\ Handshakes!Fields[i].wrong \subseteq verdicts \ {"unnoticed"}
    BY <2>3 DEF Fits
  <2>5. CASE ~Handshakes!Has(b, i)
    BY <2>1, <2>3, <2>4, <2>5
  <2>6. CASE Handshakes!Has(b, i) /\ (wrong # None /\ wrong[1] = stage /\ wrong[2] = i)
    <3>1. wrong[3] \in Handshakes!Reads(conv)[wrong[1]].fields[wrong[2]].wrong
      BY <2>6, WrongIs
    <3>2. wrong[3] \in Handshakes!Fields[i].wrong
      BY <2>6, <3>1 DEF Handshakes!Fields
    <3>3. v = wrong[3]
      BY <2>1, <2>6
    <3> QED
      BY <2>4, <3>2, <3>3
  <2>7. CASE Handshakes!Has(b, i) /\ ~(wrong # None /\ wrong[1] = stage /\ wrong[2] = i)
    <3>1. v \in Handshakes!Fields[i].wrong
      BY <2>1, <2>7
    <3> QED
      BY <2>4, <3>1
  <2> QED
    BY <2>5, <2>6, <2>7
<1> QED
  BY <1>1, <1>2, <1>3

(* A request that arrives whole, with the right values, is accepted; *)
LEMMA Understands ==
  ASSUME NEW names, NEW verdicts, NEW b, NEW o \in Nat, RoundIs(names, o, verdicts),
         wrong = None, Len(b) \in Nat, Len(Handshakes!Fields) <= Len(b),
         \A i \in 1 .. Len(Handshakes!Fields) : b[i] = o + i
  PROVE  Handshakes!Opinion(b) = {"accepted"}
<1>1. ASSUME NEW i \in Handshakes!Bad(b)
      PROVE  FALSE
  <2>1. i \in 1 .. Len(Handshakes!Fields)
    BY <1>1 DEF Handshakes!Bad
  <2>2. Len(Handshakes!Fields) \in Nat /\ Handshakes!Fields[i].name = names[i]
    BY <2>1 DEF RoundIs, Fits
  <2>3. i \in Nat /\ i <= Len(b)
    BY <2>1, <2>2
  <2>4. Handshakes!Name(b[i]) = Handshakes!Fields[i].name
    BY <2>1, <2>2 DEF RoundIs
  <2>5. Handshakes!Has(b, i)
    BY <2>3, <2>4 DEF Handshakes!Has
  <2> QED
    BY <1>1, <2>4, <2>5 DEF Handshakes!Bad
<1>2. ~(Len(b) < Handshakes!Reads(conv)[stage].min)
  BY DEF RoundIs, Fits
<1> QED
  BY <1>1, <1>2 DEF Handshakes!Opinion

(* one with a wrong value is not. *)
LEMMA TakesNoWrong ==
  ASSUME NEW names, NEW verdicts, NEW b, Fits(Handshakes!Fields, names, verdicts, 1),
         wrong # None, wrong \in {None} \cup Handshakes!Wrongs, wrong[1] = stage
  PROVE  Handshakes!Bad(b) # {}
<1>1. /\ wrong[2] \in 1 .. Len(Handshakes!Fields)
      /\ wrong[3] \in Handshakes!Fields[wrong[2]].wrong
  BY WrongIs DEF Handshakes!Fields
<1>2. Handshakes!Fields[wrong[2]].short # "unnoticed"
  BY <1>1 DEF Fits
<1>3. wrong[2] \in Handshakes!Bad(b)
  BY <1>1, <1>2 DEF Handshakes!Bad
<1> QED
  BY <1>3

(* What it takes to be accepted. *)
LEMMA TakesAll ==
  ASSUME NEW names, NEW verdicts, NEW b, Handshakes!Bad(b) = {},
         NEW i \in 1 .. Len(Handshakes!Fields), Handshakes!Fields[i].short # "unnoticed"
  PROVE  i <= Len(b) /\ Handshakes!Has(b, i)
BY DEF Handshakes!Bad, Handshakes!Has

-----------------------------------------------------------------------------
(* The places m to n of what the peer writes. *)
Places(m, n) == SubSeq(Handshakes!Whole, m, n)

LEMMA PlacesAre ==
  ASSUME Handshakes!Length \in Nat, NEW m \in Nat \ {0}, NEW n \in Nat,
         n <= Handshakes!Length
  PROVE  /\ Places(m, n) \in Seq(Nat)
         /\ Len(Places(m, n)) = IF m <= n THEN (n - m) + 1 ELSE 0
         /\ Len(Places(m, n)) \in Nat
         /\ \A k \in 1 .. Len(Places(m, n)) : Places(m, n)[k] = (m + k) - 1
<1>1. \A i \in m .. n : Handshakes!Whole[i] = i /\ Handshakes!Whole[i] \in Nat
  BY DEF Handshakes!Whole
<1>2. m \in Int /\ n \in Int
  OBVIOUS
<1>3. /\ Places(m, n) \in Seq(Nat)
      /\ Len(Places(m, n)) = IF m <= n THEN (n - m) + 1 ELSE 0
      /\ \A k \in 1 .. (n - m) + 1 : Places(m, n)[k] = Handshakes!Whole[(m + k) - 1]
  BY <1>1, <1>2, SubSeqProperties DEF Places
<1>4. ASSUME NEW k \in 1 .. Len(Places(m, n))
      PROVE  Places(m, n)[k] = (m + k) - 1
  <2>1. Len(Places(m, n)) = (n - m) + 1
    BY <1>3, <1>4
  <2>2. k \in 1 .. (n - m) + 1 /\ (m + k) - 1 \in m .. n
    BY <1>4, <2>1
  <2> QED
    BY <1>1, <1>3, <2>2
<1>5. Len(Places(m, n)) \in Nat
  BY <1>3, LenProperties
<1> QED
  BY <1>3, <1>4, <1>5

LEMMA SomePlaces ==
  ASSUME Handshakes!Length \in Nat, NEW m \in Nat \ {0}, NEW n \in Nat,
         n <= Handshakes!Length, m <= n + 1
  PROVE  /\ Places(m, n) \in Seq(Nat)
         /\ Len(Places(m, n)) \in Nat /\ Len(Places(m, n)) = (n - m) + 1
         /\ \A k \in 1 .. Len(Places(m, n)) : Places(m, n)[k] = (m + k) - 1
<1>1. /\ Places(m, n) \in Seq(Nat)
      /\ Len(Places(m, n)) = IF m <= n THEN (n - m) + 1 ELSE 0
      /\ Len(Places(m, n)) \in Nat
      /\ \A k \in 1 .. Len(Places(m, n)) : Places(m, n)[k] = (m + k) - 1
  BY PlacesAre
<1>2. (IF m <= n THEN (n - m) + 1 ELSE 0) = (n - m) + 1
  OBVIOUS
<1> QED
  BY <1>1, <1>2

LEMMA NoPlaces ==
  ASSUME Handshakes!Length \in Nat, NEW n \in Nat, n <= Handshakes!Length
  PROVE  Places(n + 1, n) = <<>>
<1>1. Places(n + 1, n) \in Seq(Nat) /\ Len(Places(n + 1, n)) = 0
  <2>1. n + 1 \in Nat \ {0} /\ n + 1 <= n + 1 /\ (n - (n + 1)) + 1 = 0
    OBVIOUS
  <2> QED
    BY <2>1, SomePlaces
<1> QED
  BY <1>1, EmptySeq

LEMMA AllPlaces ==
  ASSUME Handshakes!Length \in Nat
  PROVE  Handshakes!Whole = Places(1, Handshakes!Length)
<1>1. Handshakes!Whole \in Seq(Nat) /\ Len(Handshakes!Whole) = Handshakes!Length
      /\ \A k \in 1 .. Handshakes!Length : Handshakes!Whole[k] = k
  <2>1. \A i \in 1 .. Handshakes!Length : i \in Nat
    OBVIOUS
  <2> QED
    BY <2>1, IsASeq DEF Handshakes!Whole
<1>2. /\ Places(1, Handshakes!Length) \in Seq(Nat)
      /\ Len(Places(1, Handshakes!Length)) = Handshakes!Length
      /\ \A k \in 1 .. Handshakes!Length : Places(1, Handshakes!Length)[k] = (1 + k) - 1
  <2>1. 1 \in Nat \ {0} /\ 1 <= Handshakes!Length + 1
        /\ Handshakes!Length <= Handshakes!Length
        /\ (Handshakes!Length - 1) + 1 = Handshakes!Length
    OBVIOUS
  <2>2. Len(Places(1, Handshakes!Length)) = (Handshakes!Length - 1) + 1
    BY <2>1, SomePlaces
  <2>3. /\ Places(1, Handshakes!Length) \in Seq(Nat)
        /\ \A k \in 1 .. Len(Places(1, Handshakes!Length)) :
             Places(1, Handshakes!Length)[k] = (1 + k) - 1
    BY <2>1, SomePlaces
  <2> QED
    BY <2>1, <2>2, <2>3
<1>3. \A k \in 1 .. Handshakes!Length : (1 + k) - 1 = k
  OBVIOUS
<1> QED
  BY <1>1, <1>2, <1>3, SeqEqual

(* A part of the places is places again, *)
LEMMA SubPlaces ==
  ASSUME Handshakes!Length \in Nat, NEW m \in Nat \ {0}, NEW n \in Nat,
         n <= Handshakes!Length, NEW a \in Nat \ {0}, NEW z \in Nat,
         z <= Len(Places(m, n)), m <= n + 1
  PROVE  SubSeq(Places(m, n), a, z) = Places((m + a) - 1, (m + z) - 1)
<1> DEFINE p == Places(m, n)
           x == (m + a) - 1
           y == (m + z) - 1
<1>1. /\ Len(p) \in Nat /\ Len(p) = (n - m) + 1
      /\ \A k \in 1 .. Len(p) : p[k] = (m + k) - 1
  BY SomePlaces
<1>2. x \in Nat \ {0} /\ y \in Nat /\ y <= Handshakes!Length
  BY <1>1
<1>3. /\ Places(x, y) \in Seq(Nat)
      /\ Len(Places(x, y)) = IF x <= y THEN (y - x) + 1 ELSE 0
      /\ \A k \in 1 .. Len(Places(x, y)) : Places(x, y)[k] = (x + k) - 1
  BY <1>2, PlacesAre
<1>4. \A i \in a .. z : p[i] = (m + i) - 1 /\ p[i] \in Nat
  BY <1>1
<1> HIDE DEF p
<1>5. /\ SubSeq(p, a, z) \in Seq(Nat)
      /\ Len(SubSeq(p, a, z)) = IF a <= z THEN (z - a) + 1 ELSE 0
      /\ \A k \in 1 .. (z - a) + 1 : SubSeq(p, a, z)[k] = p[(a + k) - 1]
  <2>1. a \in Int /\ z \in Int /\ \A i \in a .. z : p[i] \in Nat
    BY <1>4
  <2> QED
    BY <2>1, SubSeqProperties
<1>6. Len(SubSeq(p, a, z)) = Len(Places(x, y))
  BY <1>3, <1>5
<1>7. ASSUME NEW k \in 1 .. Len(SubSeq(p, a, z))
      PROVE  SubSeq(p, a, z)[k] = Places(x, y)[k]
  <2>1. Len(SubSeq(p, a, z)) = (z - a) + 1
    BY <1>5, <1>7
  <2>2. k \in 1 .. (z - a) + 1 /\ (a + k) - 1 \in a .. z
    BY <1>7, <2>1
  <2>3. SubSeq(p, a, z)[k] = (m + ((a + k) - 1)) - 1
    BY <1>4, <1>5, <2>2
  <2>4. Places(x, y)[k] = (x + k) - 1
    BY <1>3, <1>6, <1>7
  <2>5. k \in Nat
    BY <2>2
  <2> QED
    BY <2>3, <2>4, <2>5
<1>8. SubSeq(p, a, z) = Places(x, y)
  BY <1>3, <1>5, <1>6, <1>7, SeqEqual
<1> QED
  BY <1>8 DEF p

(* and places that follow each other are places. *)
LEMMA JoinPlaces ==
  ASSUME Handshakes!Length \in Nat, NEW m \in Nat \ {0}, NEW g \in Nat, NEW h \in Nat,
         m <= g + 1, g <= h, h <= Handshakes!Length
  PROVE  Places(m, g) \o Places(g + 1, h) = Places(m, h)
<1> DEFINE p == Places(m, g)
           q == Places(g + 1, h)
           r == Places(m, h)
<1>1. p \in Seq(Nat) /\ Len(p) = (g - m) + 1 /\ \A k \in 1 .. Len(p) : p[k] = (m + k) - 1
  <2>1. g <= Handshakes!Length
    OBVIOUS
  <2> QED
    BY <2>1, SomePlaces
<1>2. q \in Seq(Nat) /\ Len(q) = h - g /\ \A k \in 1 .. Len(q) : q[k] = ((g + 1) + k) - 1
  <2>1. g + 1 \in Nat \ {0} /\ g + 1 <= h + 1 /\ (h - (g + 1)) + 1 = h - g
    OBVIOUS
  <2> QED
    BY <2>1, SomePlaces
<1>3. r \in Seq(Nat) /\ Len(r) = (h - m) + 1 /\ \A k \in 1 .. Len(r) : r[k] = (m + k) - 1
  <2>1. m <= h + 1
    OBVIOUS
  <2> QED
    BY <2>1, SomePlaces
<1> HIDE DEF p, q, r
<1>4. /\ p \o q \in Seq(Nat) /\ Len(p \o q) = Len(p) + Len(q)
      /\ \A k \in 1 .. Len(p) + Len(q) :
           (p \o q)[k] = IF k <= Len(p) THEN p[k] ELSE q[k - Len(p)]
  BY <1>1, <1>2, ConcatProperties
<1>5. Len(p \o q) = Len(r)
  BY <1>1, <1>2, <1>3, <1>4
<1>6. ASSUME NEW k \in 1 .. Len(p \o q)
      PROVE  (p \o q)[k] = r[k]
  <2>1. r[k] = (m + k) - 1 /\ k \in Nat
    BY <1>3, <1>5, <1>6
  <2>2. CASE k <= Len(p)
    BY <1>1, <1>4, <1>6, <2>1, <2>2
  <2>3. CASE ~(k <= Len(p))
    <3>1. k - Len(p) \in 1 .. Len(q)
      BY <1>1, <1>2, <1>4, <1>6, <2>3
    <3>2. (p \o q)[k] = ((g + 1) + (k - Len(p))) - 1
      BY <1>2, <1>4, <1>6, <2>3, <3>1
    <3> QED
      BY <1>1, <2>1, <3>2
  <2> QED
    BY <2>2, <2>3
<1>7. p \o q = r
  BY <1>3, <1>4, <1>5, <1>6, SeqEqual
<1> QED
  BY <1>7 DEF p, q, r

-----------------------------------------------------------------------------
(* The inductive invariant.  Types and turns: *)
OpeningTypes ==
  /\ conv \in Convs /\ wrong \in {None} \cup Handshakes!Wrongs
  /\ sent \in Nat /\ got \in Nat /\ got <= sent /\ sent <= Handshakes!Length
  /\ answered \in 0 .. Handshakes!Rounds /\ stage \in 1 .. Len(Handshakes!Reads(conv))
  /\ fit \in {"cut", "exact", "over"}
  /\ verdict \in {"none", "accepted", "fallback", "refused", "broken"}

(* the writer does not go past a round that wants an answer; *)
Waiting ==
  \/ answered + 1 < Handshakes!Rounds
  \/ answered + 1 = Handshakes!Rounds /\ conv \in Handshakes!WaitsForAnswer

InTurn == Waiting => sent <= Handshakes!End(answered + 1)

(* what the reader holds as long as it has not made up its mind: nothing,  *)
Nothing ==
  /\ got = 0 /\ answered = 0 /\ rest = <<>> /\ heap = <<>> /\ buf = <<>> /\ fit # "cut"

(* or nothing of the rounds it has answered, *)
BetweenRounds ==
  /\ got = Handshakes!End(answered) /\ rest = <<>> /\ heap = <<>> /\ buf = <<>>
  /\ fit # "cut"

(* or what it has read since, in one of three places;                      *)
ReadsOn == {"trojan", "vmess_reply", "ws"}

Reading ==
  /\ out = <<>>
  /\ conv \in (OneRound \ ReadsOn) \cup {"shadowsocks_own"} => Nothing
  /\ conv \in ReadsOn => answered = 0 /\ buf = Places(1, got) /\ rest = <<>>
  /\ conv \in {"trojan", "vmess_reply"} => heap = <<>>
  /\ conv = "ws" => got < 4 /\ heap = buf /\ (got > 0 => fit = "cut")
  /\ conv = "preset" /\ stage = 1 => Nothing
  /\ conv = "preset" /\ stage = 2 =>
       /\ got >= 2 /\ heap = Places(1, got) /\ rest = Places(3, got)
       /\ answered = 0 /\ buf = <<>>
       /\ got < 4 => fit = "cut"
  /\ conv \in {"socks5", "socks5_reply"} => answered = stage - 1 /\ BetweenRounds
  /\ conv = "socks5http" /\ stage = 1 => Nothing
  /\ conv = "socks5http" /\ stage = 2 =>
       /\ got >= 1 /\ rest = Places(1, got) /\ answered = 0 /\ buf = <<>> /\ heap = <<>>
       /\ fit = "cut" => got = 1
  /\ conv = "socks5http" /\ stage > 2 => answered = stage - 2 /\ BetweenRounds

(* and afterwards: what is out, what is left, and what has not been taken  *)
(* from the network are, one behind the other, what is due; or an upgrade  *)
(* was drained, and nothing comes any more.                                *)
Giving(due, o, r, g) ==
  /\ Len(due) = (o + Len(r)) + (Handshakes!Length - g)
  /\ \A k \in 1 .. Len(r) : r[k] <= g /\ due[o + k] = r[k]
  /\ \A k \in 1 .. (Handshakes!Length - g) : due[(o + Len(r)) + k] = g + k

Drained ==
  /\ verdict = "fallback" /\ conv = "ws" /\ rest = <<>>
  /\ got = Handshakes!End(1) /\ sent = got /\ answered = 0

Handing ==
  /\ out \in Seq(Nat) /\ rest \in Seq(Nat)
  /\ Drained \/ Giving(Handshakes!Contract!Due, Len(out), rest, got)

(* A wrong value is still ahead, or has been objected to. *)
WrongAhead ==
  wrong # None => verdict # "accepted" /\ (verdict = "none" => wrong[1] >= stage)

Understood ==
  wrong = None /\ fit # "cut" /\ conv # "shadowsocks_own"
    => verdict \in {"none", "accepted", "broken"}

OpeningInv ==
  /\ OpeningTypes
  /\ InTurn
  /\ verdict = "none" => Reading
  /\ verdict \in {"accepted", "fallback"} /\ ~Handshakes!Lossy => Handing
  /\ WrongAhead
  /\ Understood

(* The lengths a conversation has. *)
LEMMA LengthsAre ==
  ASSUME conv \in Convs
  PROVE  /\ Handshakes!Length \in Nat /\ Payload \in Nat \ {0}
         /\ Handshakes!Rounds \in {1, 3} /\ Handshakes!End(0) = 0
         /\ Handshakes!Length = Handshakes!End(Handshakes!Rounds) + Payload
         /\ \A r \in 0 .. Handshakes!Rounds : Handshakes!End(r) \in Nat
         /\ \A r \in 0 .. Handshakes!Rounds, s \in 0 .. Handshakes!Rounds :
              r <= s => Handshakes!End(r) <= Handshakes!End(s)
         /\ Handshakes!Rounds = 3 => Handshakes!End(1) < Handshakes!End(3)
                                     /\ Handshakes!End(2) < Handshakes!End(3)
         /\ Len(Handshakes!Reads(conv)) \in {1, 2, 3, 4}
<1>1. Payload \in Nat \ {0}
  BY HandshakesAssumption
<1>2. CASE conv \in OneRound
  <2>1. /\ Handshakes!Rounds = 1 /\ Handshakes!End(0) = 0 /\ Handshakes!End(1) \in Nat
        /\ Handshakes!Length = Handshakes!End(1) + Payload
        /\ Len(Handshakes!Reads(conv)) = 1
    BY <1>2, OneRoundIs
  <2> QED
    BY <1>1, <2>1
<1>3. CASE conv = "shadowsocks_own"
  <2>1. /\ Handshakes!Rounds = 1 /\ Handshakes!End(0) = 0 /\ Handshakes!End(1) = 0
        /\ Handshakes!Length = Payload /\ Len(Handshakes!Reads(conv)) = 1
    BY <1>3, OwnIs
  <2> QED
    BY <1>1, <2>1
<1>4. CASE conv = "preset"
  <2>1. /\ Handshakes!Rounds = 1 /\ Handshakes!End(0) = 0 /\ Handshakes!End(1) = 4
        /\ Handshakes!Length = 4 + Payload /\ Len(Handshakes!Reads(conv)) = 2
    BY <1>4, PresetIs
  <2> QED
    BY <1>1, <2>1
<1>5. CASE conv \in {"socks5", "socks5http"}
  <2>1. /\ Handshakes!Rounds = 3 /\ Handshakes!End(0) = 0 /\ Handshakes!End(1) = 2
        /\ Handshakes!End(2) = 3 /\ Handshakes!End(3) = 5 /\ Handshakes!Length = 5 + Payload
        /\ Len(Handshakes!Reads(conv)) \in {3, 4}
    BY <1>5, ClientIs, ServerRounds
  <2>2. \A r \in 0 .. 3 : r = 0 \/ r = 1 \/ r = 2 \/ r = 3
    OBVIOUS
  <2>3. \A r \in 0 .. 3 : Handshakes!End(r) \in Nat
    BY <2>1, <2>2
  <2>4. \A r \in 0 .. 3, s \in 0 .. 3 : r <= s => Handshakes!End(r) <= Handshakes!End(s)
    BY <2>1, <2>2
  <2> QED
    BY <1>1, <2>1, <2>3, <2>4
<1>6. CASE conv = "socks5_reply"
  <2>1. /\ Handshakes!Rounds = 3 /\ Handshakes!End(0) = 0 /\ Handshakes!End(1) = 2
        /\ Handshakes!End(2) = 4 /\ Handshakes!End(3) = 6 /\ Handshakes!Length = 6 + Payload
        /\ Len(Handshakes!Reads(conv)) = 3
    BY <1>6, ReplyIs, RepliesAre
  <2>2. \A r \in 0 .. 3 : r = 0 \/ r = 1 \/ r = 2 \/ r = 3
    OBVIOUS
  <2>3. \A r \in 0 .. 3 : Handshakes!End(r) \in Nat
    BY <2>1, <2>2
  <2>4. \A r \in 0 .. 3, s \in 0 .. 3 : r <= s => Handshakes!End(r) <= Handshakes!End(s)
    BY <2>1, <2>2
  <2> QED
    BY <1>1, <2>1, <2>3, <2>4
<1>7. conv \in OneRound \/ conv = "shadowsocks_own" \/ conv = "preset"
      \/ conv \in {"socks5", "socks5http"} \/ conv = "socks5_reply"
  BY HandshakesAssumption DEF OneRound
<1> QED
  BY <1>2, <1>3, <1>4, <1>5, <1>6, <1>7

(* What a conversation is stays as it is. *)
LEMMA StaysTheSame ==
  ASSUME UNCHANGED conv
  PROVE  /\ UNCHANGED <<Handshakes!Length, Handshakes!Whole, Handshakes!Rounds,
                        Handshakes!Body, Handshakes!Wrongs>>
         /\ \A r : Handshakes!End(r)' = Handshakes!End(r)
         /\ \A m, n : Places(m, n)' = Places(m, n)
BY DEF Handshakes!Length, Handshakes!Whole, Handshakes!Rounds, Handshakes!Body,
       Handshakes!Wrongs, Handshakes!End, Handshakes!Tokens, Places

(* What is due from the place m on is given by what was read from there on *)
(* and by what follows.                                                    *)
LEMMA GivesFrom ==
  ASSUME Handshakes!Length \in Nat, NEW m \in Nat \ {0}, NEW g \in Nat,
         m <= g + 1, g <= Handshakes!Length
  PROVE  Giving(Places(m, Handshakes!Length), 0, Places(m, g), g)
<1> DEFINE l == Handshakes!Length
           due == Places(m, l)
           r == Places(m, g)
<1>1. Len(r) \in Nat /\ Len(r) = (g - m) + 1 /\ \A k \in 1 .. Len(r) : r[k] = (m + k) - 1
  BY SomePlaces
<1>2. Len(due) = (l - m) + 1 /\ \A k \in 1 .. Len(due) : due[k] = (m + k) - 1
  <2>1. m <= l + 1 /\ l <= Handshakes!Length /\ l \in Nat
    OBVIOUS
  <2> QED
    BY <2>1, SomePlaces
<1> HIDE DEF l, due, r
<1>3. l \in Nat /\ g <= l
  BY DEF l
<1>4. Len(due) = (0 + Len(r)) + (l - g)
  BY <1>1, <1>2, <1>3
<1>5. ASSUME NEW k \in 1 .. Len(r) PROVE r[k] <= g /\ due[0 + k] = r[k]
  <2>1. k \in 1 .. Len(due) /\ 0 + k = k
    BY <1>1, <1>2, <1>3, <1>5
  <2>2. r[k] = (m + k) - 1 /\ due[k] = (m + k) - 1
    BY <1>1, <1>2, <1>5, <2>1
  <2>3. (m + k) - 1 <= g
    BY <1>1, <1>5
  <2> QED
    BY <2>1, <2>2, <2>3
<1>6. ASSUME NEW k \in 1 .. (l - g) PROVE due[(0 + Len(r)) + k] = g + k
  <2>1. (0 + Len(r)) + k \in 1 .. Len(due)
    BY <1>1, <1>2, <1>3, <1>6
  <2>2. due[(0 + Len(r)) + k] = (m + ((0 + Len(r)) + k)) - 1
    BY <1>2, <2>1
  <2> QED
    BY <1>1, <1>3, <1>6, <2>2
<1> QED
  BY <1>4, <1>5, <1>6 DEF Giving, l, due, r

(* What the layer above is to get. *)
LEMMA BodyIs ==
  ASSUME conv \in Convs
  PROVE  /\ conv \in Handshakes!PassesAll =>
              Handshakes!Body = Places(1, Handshakes!Length)
         /\ conv \notin Handshakes!PassesAll \cup {"ws"} =>
              Handshakes!Body =
                Places(Handshakes!End(Handshakes!Rounds) + 1, Handshakes!Length)
         /\ conv = "ws" => Handshakes!Body = <<3>> \o Places(5, Handshakes!Length)
<1> DEFINE e == Handshakes!End(Handshakes!Rounds)
           p == SubSeq(Handshakes!Whole, e + 1, Handshakes!Length)
<1>1. e \in Nat /\ Handshakes!Length \in Nat
  BY LengthsAre
<1>2. Handshakes!Whole = Places(1, Handshakes!Length)
  BY <1>1, AllPlaces
<1>3. p = Places(e + 1, Handshakes!Length)
  BY DEF Places
<1>4. p \in Seq(Nat)
  <2>1. e + 1 \in Nat \ {0} /\ Handshakes!Length <= Handshakes!Length
    BY <1>1
  <2> QED
    BY <1>1, <1>3, <2>1, PlacesAre
<1>5. ASSUME conv = "ws" PROVE e = 4
  <2>1. conv \in OneRound
    BY <1>5 DEF OneRound
  <2>2. e = Len(Handshakes!Reads(conv)[1].fields)
    BY <2>1, OneRoundIs
  <2>3. Handshakes!Reads(conv)[1].fields = Handshakes!WsFields
    BY <1>5 DEF Handshakes!Reads, Handshakes!Round
  <2>4. Len(Handshakes!WsFields) = 4
    BY DEF Handshakes!WsFields
  <2> QED
    BY <2>2, <2>3, <2>4
<1>6. /\ conv \in Handshakes!PassesAll => Handshakes!Body = Handshakes!Whole
      /\ conv \notin Handshakes!PassesAll \cup {"ws"} => Handshakes!Body = <<>> \o p
      /\ conv = "ws" => Handshakes!Body = <<3>> \o p
  BY DEF Handshakes!Body, Handshakes!PassesAll, Handshakes!Early
<1> HIDE DEF p
<1>7. <<>> \o p = p
  BY <1>4, ConcatEmptySeq
<1>8. conv = "ws" => e + 1 = 5
  BY <1>5
<1> QED
  BY <1>2, <1>3, <1>6, <1>7, <1>8

(* A judgement keeps turns, and is not for a wrong value. *)
LEMMA KeepsTurns ==
  ASSUME OpeningInv, UNCHANGED <<conv, sent>>, answered' \in Nat, answered <= answered',
         answered' <= Handshakes!Rounds
  PROVE  InTurn'
<1>1. PICK k : k = answered'
  OBVIOUS
<1>2. answered \in 0 .. Handshakes!Rounds /\ Handshakes!Rounds \in {1, 3}
      /\ conv \in Convs /\ sent \in Nat
  BY LengthsAre DEF OpeningInv, OpeningTypes
<1>3. ASSUME \/ k + 1 < Handshakes!Rounds
             \/ k + 1 = Handshakes!Rounds /\ conv \in Handshakes!WaitsForAnswer
      PROVE  sent <= Handshakes!End(k + 1)
  <2>1. k \in Nat /\ answered <= k /\ answered \in Nat /\ Handshakes!Rounds \in Nat
    BY <1>1, <1>2
  <2>2. k + 1 <= Handshakes!Rounds /\ k + 1 \in Nat
    BY <1>3, <2>1
  <2>3. /\ k + 1 \in 0 .. Handshakes!Rounds
        /\ answered + 1 \in 0 .. Handshakes!Rounds
        /\ answered + 1 <= k + 1
    BY <2>1, <2>2
  <2>4. Waiting
    <3>1. CASE k + 1 < Handshakes!Rounds
      <4>1. answered + 1 < Handshakes!Rounds
        BY <2>1, <3>1
      <4> QED
        BY <4>1 DEF Waiting
    <3>2. CASE k + 1 = Handshakes!Rounds /\ conv \in Handshakes!WaitsForAnswer
      <4>1. answered + 1 < Handshakes!Rounds \/ answered + 1 = Handshakes!Rounds
        BY <2>1, <3>2
      <4> QED
        BY <3>2, <4>1 DEF Waiting
    <3> QED
      BY <1>3, <3>1, <3>2
  <2>5. sent <= Handshakes!End(answered + 1)
    BY <2>4 DEF OpeningInv, InTurn
  <2>6. /\ Handshakes!End(answered + 1) <= Handshakes!End(k + 1)
        /\ Handshakes!End(answered + 1) \in Nat /\ Handshakes!End(k + 1) \in Nat
    BY <1>2, <2>3, LengthsAre
  <2> QED
    BY <1>2, <2>5, <2>6
<1>4. Waiting' => \/ k + 1 < Handshakes!Rounds
                  \/ k + 1 = Handshakes!Rounds /\ conv \in Handshakes!WaitsForAnswer
  BY <1>1 DEF Waiting, Handshakes!Rounds, Handshakes!WaitsForAnswer
<1>5. InTurn' <=> (Waiting' => sent <= Handshakes!End(k + 1))
  BY <1>1 DEF InTurn, Handshakes!End
<1> QED
  BY <1>3, <1>4, <1>5

LEMMA EveryRoundFits ==
  ASSUME conv \in Convs, stage \in 1 .. Len(Handshakes!Reads(conv))
  PROVE  \E names, verdicts :
           /\ Fits(Handshakes!Fields, names, verdicts, 1)
           /\ "accepted" \notin verdicts /\ "refused" \in verdicts
<1> DEFINE fits ==
      \E names, verdicts :
        /\ Fits(Handshakes!Fields, names, verdicts, 1)
        /\ "accepted" \notin verdicts /\ "refused" \in verdicts
<1> SUFFICES fits
  OBVIOUS
<1>1. CASE conv \in OneRound
  <2>1. stage = 1
    <3>1. Len(Handshakes!Reads(conv)) = 1
      BY <1>1, OneRoundIs
    <3> QED
      BY <3>1
  <2>2. Fits(Handshakes!Fields, Handshakes!Writes(conv)[1], VerdictsOf(conv), 1)
    BY <1>1, <2>1, OneRoundIs DEF RoundIs
  <2>3. "accepted" \notin VerdictsOf(conv) /\ "refused" \in VerdictsOf(conv)
    BY DEF VerdictsOf
  <2> QED
    BY <2>2, <2>3
<1>2. CASE conv = "shadowsocks_own"
  <2>1. Handshakes!Fields = Handshakes!ShadowFields
    <3>1. Len(Handshakes!Reads(conv)) = 1
      BY <1>2, OwnIs
    <3>2. stage = 1
      BY <3>1
    <3> QED
      BY <1>2, <3>2, OwnIs
  <2>2. Fits(Handshakes!Fields, Handshakes!ShadowRequest, {"refused"}, 1)
    BY <2>1, TablesFit, SMTT(30) DEF Fits
  <2> QED
    BY <2>2
<1>3. CASE conv = "preset"
  <2>1. stage = 1 \/ stage = 2
    <3>1. Len(Handshakes!Reads(conv)) = 2
      BY <1>3, PresetIs
    <3> QED
      BY <3>1
  <2>2. \/ Fits(Handshakes!Fields, Handshakes!PresetRequest, {"refused", "fallback"}, 1)
        \/ Fits(Handshakes!Fields, Handshakes!VmessRequest, {"refused"}, 1)
    BY <1>3, <2>1, PresetIs DEF RoundIs
  <2> QED
    BY <2>2
<1>4. CASE (conv = "socks5http" /\ stage = 1)
  <2>1. Handshakes!Fields = Handshakes!HttpFields
    BY <1>4, ServerRounds
  <2>2. Fits(Handshakes!Fields, Handshakes!HttpRequest, {"refused"}, 1)
    BY <2>1, TablesFit, SMTT(30) DEF Fits
  <2> QED
    BY <2>2
<1>5. CASE (conv = "socks5" \/ (conv = "socks5http" /\ stage # 1))
  <2>1. PICK s \in 1 .. 3 : stage = IF conv = "socks5" THEN s ELSE s + 1
    <3>1. CASE conv = "socks5"
      <4>1. stage \in 1 .. 3
        BY <3>1, ServerRounds
      <4> QED
        BY <3>1, <4>1
    <3>2. CASE conv = "socks5http" /\ stage # 1
      <4>1. stage \in 1 .. 4 /\ stage # 1
        BY <3>2, ServerRounds
      <4>2. stage - 1 \in 1 .. 3 /\ stage = (stage - 1) + 1
        BY <4>1
      <4> QED
        BY <3>2, <4>2
    <3> QED
      BY <1>5, <3>1, <3>2
  <2>2. Fits(Handshakes!Fields, Handshakes!Socks5Client[s], SocksVerdicts, 1)
    BY <1>5, <2>1, ServerIs DEF RoundIs
  <2> QED
    BY <2>2 DEF SocksVerdicts
<1>6. CASE conv = "socks5_reply"
  <2>1. stage \in 1 .. 3
    BY <1>6, RepliesAre
  <2>2. Fits(Handshakes!Fields, Handshakes!Socks5Replies[stage], {"refused"}, 1)
    BY <1>6, <2>1, RepliesAre DEF RoundIs
  <2> QED
    BY <2>2
<1> HIDE DEF fits
<1>8. conv \in OneRound \/ conv = "shadowsocks_own" \/ conv = "preset"
      \/ conv = "socks5" \/ conv = "socks5http" \/ conv = "socks5_reply"
  BY HandshakesAssumption DEF OneRound
<1> QED
  BY <1>1, <1>2, <1>3, <1>4, <1>5, <1>6, <1>8

LEMMA JudgesNoWrong ==
  ASSUME OpeningInv, verdict = "none", NEW b, Handshakes!Judge(b), UNCHANGED <<conv, wrong>>
  PROVE  WrongAhead'
<1> SUFFICES ASSUME wrong # None
             PROVE  verdict' # "accepted" /\ (verdict' = "none" => wrong[1] >= stage')
  BY DEF WrongAhead
<1>1. /\ conv \in Convs /\ stage \in 1 .. Len(Handshakes!Reads(conv))
      /\ wrong \in Handshakes!Wrongs
  BY DEF OpeningInv, OpeningTypes
<1>2. /\ wrong[1] \in 1 .. Len(Handshakes!Reads(conv))
      /\ conv = "socks5http" => wrong[1] >= 2
  BY <1>1, WrongIs
<1>3. wrong[1] >= stage
  BY DEF OpeningInv, WrongAhead
<1>4. Len(Handshakes!Reads(conv)) \in Nat
  BY <1>1, LengthsAre
<1>5. PICK names, verdicts :
        /\ Fits(Handshakes!Fields, names, verdicts, 1)
        /\ "accepted" \notin verdicts /\ "refused" \in verdicts
  BY <1>1, EveryRoundFits
<1>6. PICK v \in Handshakes!Opinion(b) :
        \/ v = "accepted" /\ Handshakes!Accept(b)
        \/ v # "accepted" /\ conv = "socks5http" /\ stage = 1 /\ Handshakes!TryNext(b)
        \/ v # "accepted" /\ ~(conv = "socks5http" /\ stage = 1) /\ Handshakes!Refuse(v, b)
  BY DEF Handshakes!Judge
<1>7. CASE v = "accepted" /\ Handshakes!Accept(b)
  <2>1. Handshakes!Bad(b) = {}
    BY <1>1, <1>5, <1>6, <1>7, OpinionIs
  <2>2. wrong[1] # stage
    BY <1>1, <1>5, <2>1, TakesNoWrong
  <2>3. stage # Len(Handshakes!Reads(conv)) /\ wrong[1] >= stage + 1
    BY <1>1, <1>2, <1>3, <1>4, <2>2
  <2>4. stage' = stage + 1 /\ verdict' = verdict
    BY <1>7, <2>3 DEF Handshakes!Accept
  <2> QED
    BY <2>3, <2>4
<1>8. CASE conv = "socks5http" /\ Handshakes!TryNext(b)
  BY <1>2, <1>8 DEF Handshakes!TryNext
<1>9. CASE Handshakes!Refuse(v, b)
  <2>1. verdict' \in {"refused", "fallback"}
    BY <1>9 DEF Handshakes!Refuse
  <2> QED
    BY <2>1
<1> QED
  BY <1>6, <1>7, <1>8, <1>9

(* What was read is handed over from the place m on. *)
LEMMA HandsOver ==
  ASSUME conv \in Convs, UNCHANGED <<conv, out>>, out = <<>>,
         NEW m \in Nat \ {0}, NEW g \in Nat, got' = g, m <= g + 1, g <= Handshakes!Length,
         rest' = Places(m, g),
         \/ verdict' = "accepted" /\ Handshakes!Body = Places(m, Handshakes!Length)
         \/ verdict' = "fallback" /\ m = 1
  PROVE  Handing'
<1>1. Handshakes!Length \in Nat
  BY LengthsAre
<1>2. Handshakes!Contract!Due' = Places(m, Handshakes!Length)
  <2>1. CASE verdict' = "accepted" /\ Handshakes!Body = Places(m, Handshakes!Length)
    <3>1. Handshakes!Body' = Handshakes!Body
      BY StaysTheSame
    <3>2. Handshakes!Contract!Due' = Handshakes!Body'
      BY <2>1 DEF Handshakes!Contract!Due
    <3> QED
      BY <2>1, <3>1, <3>2
  <2>2. CASE verdict' = "fallback" /\ m = 1
    <3>1. Handshakes!Whole' = Handshakes!Whole
      BY StaysTheSame
    <3>2. Handshakes!Contract!Due' = Handshakes!Whole'
      BY <2>2 DEF Handshakes!Contract!Due
    <3> QED
      BY <1>1, <2>2, <3>1, <3>2, AllPlaces
  <2> QED
    BY <2>1, <2>2
<1>3. Giving(Places(m, Handshakes!Length), 0, Places(m, g), g)
  BY <1>1, GivesFrom
<1>4. out' = <<>> /\ Len(<<>>) = 0 /\ <<>> \in Seq(Nat) /\ rest' \in Seq(Nat)
  <2>1. Places(m, g) \in Seq(Nat)
    BY <1>1, PlacesAre
  <2> QED
    BY <2>1
<1>5. Handshakes!Length' = Handshakes!Length
  BY StaysTheSame
<1>6. Giving(Handshakes!Contract!Due, Len(out), rest, got)'
        <=> Giving(Handshakes!Contract!Due', Len(out'), rest', got')
  BY <1>5 DEF Giving
<1>7. Len(out') = 0
  BY <1>4
<1>8. Giving(Handshakes!Contract!Due', Len(out'), rest', got')
  BY <1>2, <1>3, <1>7
<1> QED
  BY <1>4, <1>6, <1>8 DEF Handing

LEMMA JudgesOnce ==
  ASSUME OpeningInv, verdict = "none", conv \in OneRound \ {"ws"}, answered = 0,
         out = <<>>, heap = <<>>,
         NEW g \in Nat \ {0}, got' = g, g <= sent, fit' \in {"cut", "exact", "over"},
         fit' # "cut" => g >= Handshakes!End(1),
         Handshakes!Judge(Places(1, g)), UNCHANGED <<conv, wrong, sent, out>>
  PROVE  OpeningInv'
<1> DEFINE e == Handshakes!End(1)
           b == Places(1, g)
<1>1. conv \in Convs /\ conv \in OneRound /\ conv # "ws" /\ conv # "preset"
      /\ conv # "shadowsocks_own" /\ conv # "socks5http" /\ conv # "socks5"
      /\ conv # "socks5_reply"
  BY DEF OpeningInv, OpeningTypes, OneRound
<1>2. /\ stage \in 1 .. Len(Handshakes!Reads(conv)) /\ sent \in Nat
      /\ sent <= Handshakes!Length /\ wrong \in {None} \cup Handshakes!Wrongs
  BY DEF OpeningInv, OpeningTypes
<1>3. /\ Handshakes!Rounds = 1 /\ Len(Handshakes!Reads(conv)) = 1
      /\ e \in Nat \ {0, 1} /\ e = Len(Handshakes!Reads(conv)[1].fields)
  BY <1>1, OneRoundIs
<1>4. stage = 1
  BY <1>2, <1>3
<1>5. RoundIs(Handshakes!Writes(conv)[1], 0, VerdictsOf(conv)) /\ Len(Handshakes!Fields) = e
  BY <1>1, <1>3, <1>4, OneRoundIs DEF Handshakes!Fields
<1>6. Handshakes!Length \in Nat /\ g <= Handshakes!Length
  BY <1>1, <1>2, LengthsAre
<1>7. b \in Seq(Nat) /\ Len(b) = g /\ \A k \in 1 .. g : b[k] = 0 + k
  <2>1. 1 \in Nat \ {0} /\ 1 <= g + 1 /\ (g - 1) + 1 = g
    OBVIOUS
  <2>2. /\ b \in Seq(Nat) /\ Len(b) = (g - 1) + 1
        /\ \A k \in 1 .. Len(b) : b[k] = (1 + k) - 1
    BY <1>6, <2>1, SomePlaces
  <2> QED
    BY <2>1, <2>2
<1> HIDE DEF b, e
<1>8. PICK v \in Handshakes!Opinion(b) :
        \/ v = "accepted" /\ Handshakes!Accept(b)
        \/ v # "accepted" /\ Handshakes!Refuse(v, b)
  BY <1>1 DEF Handshakes!Judge, b
<1>9. Fits(Handshakes!Fields, Handshakes!Writes(conv)[1], VerdictsOf(conv), 1)
      /\ "refused" \in VerdictsOf(conv)
      /\ VerdictsOf(conv) \subseteq {"refused", "fallback"}
  BY <1>1, <1>5 DEF RoundIs, VerdictsOf
<1>10. \/ v = "accepted" /\ Handshakes!Bad(b) = {} /\ Handshakes!Accept(b)
       \/ v \in {"refused", "fallback"} /\ Handshakes!Refuse(v, b)
  BY <1>2, <1>8, <1>9, OpinionIs
<1>11. wrong = None /\ fit' # "cut" => v = "accepted"
  <2> SUFFICES ASSUME wrong = None, fit' # "cut"
               PROVE  v = "accepted"
    OBVIOUS
  <2>1. Len(Handshakes!Fields) <= Len(b) /\ Len(b) \in Nat
    BY <1>5, <1>7 DEF e
  <2>2. \A i \in 1 .. Len(Handshakes!Fields) : b[i] = 0 + i
    BY <1>3, <1>5, <1>7, <2>1
  <2>3. Handshakes!Opinion(b) = {"accepted"}
    BY <1>5, <2>1, <2>2, Understands
  <2> QED
    BY <2>3
<1>12. WrongAhead'
  BY JudgesNoWrong DEF b
<1>13. /\ Handshakes!Length' = Handshakes!Length /\ Handshakes!Wrongs' = Handshakes!Wrongs
       /\ Handshakes!Rounds' = Handshakes!Rounds
  BY StaysTheSame
<1>14. CASE v = "accepted" /\ Handshakes!Bad(b) = {} /\ Handshakes!Accept(b)
  <2>1. /\ verdict' = "accepted" /\ rest' = Handshakes!Remains(b) /\ answered' = 1
        /\ stage' = stage
    BY <1>3, <1>4, <1>14 DEF Handshakes!Accept
  <2>2. e <= g
    <3>1. e \in 1 .. Len(Handshakes!Fields)
      BY <1>3, <1>5
    <3>2. Handshakes!Fields[e].short # "unnoticed"
      BY <1>9, <3>1 DEF Fits
    <3> QED
      BY <1>7, <1>14, <3>1, <3>2, TakesAll
  <2>3. ASSUME ~Handshakes!Lossy' PROVE Handing'
    <3>1. conv # "http_auth"
      BY <2>1, <2>3 DEF Handshakes!Lossy
    <3>2. \E m \in Nat \ {0} : /\ m <= g + 1 /\ rest' = Places(m, g)
                               /\ Handshakes!Body = Places(m, Handshakes!Length)
      <4>1. CASE conv = "http_get"
        <5>1. rest' = Places(1, g)
          BY <2>1, <4>1 DEF Handshakes!Remains, b
        <5>2. Handshakes!Body = Places(1, Handshakes!Length)
          BY <1>1, <4>1, BodyIs DEF Handshakes!PassesAll
        <5> QED
          BY <5>1, <5>2
      <4>2. CASE conv = "http_connect"
        <5>1. sent <= e
          BY <1>3, <4>2 DEF OpeningInv, InTurn, Waiting, Handshakes!WaitsForAnswer, e
        <5>2. g = e
          BY <1>2, <1>3, <2>2, <5>1
        <5>3. rest' = <<>>
          BY <2>1, <4>2 DEF Handshakes!Remains
        <5>4. rest' = Places(g + 1, g)
          BY <1>6, <5>3, NoPlaces
        <5>5. Handshakes!Body = Places(g + 1, Handshakes!Length)
          BY <1>1, <1>3, <4>2, <5>2, BodyIs DEF Handshakes!PassesAll, e
        <5> QED
          BY <5>4, <5>5
      <4>3. CASE conv \notin {"http_get", "http_connect"}
        <5>1. rest' = SubSeq(b, e + 1, Len(b))
          BY <1>1, <1>5, <2>1, <3>1, <4>3 DEF Handshakes!Remains
        <5>2. SubSeq(b, e + 1, g) = Places((1 + (e + 1)) - 1, (1 + g) - 1)
          <6>1. 1 \in Nat \ {0} /\ e + 1 \in Nat \ {0} /\ 1 <= g + 1 /\ g <= Len(b)
            BY <1>3, <1>7
          <6> QED
            BY <1>6, <6>1, SubPlaces, ZenonT(60) DEF b
        <5>3. (1 + (e + 1)) - 1 = e + 1 /\ (1 + g) - 1 = g
          BY <1>3
        <5>4. rest' = Places(e + 1, g)
          BY <1>7, <5>1, <5>2, <5>3
        <5>5. Handshakes!Body = Places(e + 1, Handshakes!Length)
          BY <1>1, <1>3, <3>1, <4>3, BodyIs DEF Handshakes!PassesAll, e
        <5>6. e + 1 \in Nat \ {0} /\ e + 1 <= g + 1
          BY <1>3, <2>2
        <5> QED
          BY <5>4, <5>5, <5>6
      <4> QED
        BY <4>1, <4>2, <4>3
    <3> QED
      BY <1>1, <1>6, <2>1, <3>2, HandsOver
  <2>4. InTurn'
    BY <1>3, <2>1, KeepsTurns
  <2>5. OpeningTypes'
    BY <1>1, <1>2, <1>3, <1>4, <1>13, <2>1 DEF OpeningTypes
  <2> QED
    BY <1>12, <2>1, <2>3, <2>4, <2>5 DEF OpeningInv, Understood
<1>15. CASE v \in {"refused", "fallback"} /\ Handshakes!Refuse(v, b)
  <2>1. /\ verdict' \in {"refused", "fallback"} /\ answered' = answered /\ stage' = stage
        /\ verdict' = "fallback" => rest' = Places(1, g)
    BY <1>1, <1>15 DEF Handshakes!Refuse, Handshakes!FallbackBuffer, b
  <2>2. verdict' = "fallback" => Handing'
    <3>1. 1 \in Nat \ {0} /\ 1 <= g + 1
      OBVIOUS
    <3> QED
      BY <1>1, <1>6, <2>1, <3>1, HandsOver
  <2>3. InTurn'
    BY <1>3, <2>1, KeepsTurns
  <2>4. OpeningTypes'
    BY <1>1, <1>2, <1>3, <1>4, <1>13, <2>1 DEF OpeningTypes
  <2>5. Understood'
    BY <1>11, <1>15 DEF Understood
  <2> QED
    BY <1>12, <2>1, <2>2, <2>3, <2>4, <2>5 DEF OpeningInv
<1> QED
  BY <1>10, <1>14, <1>15

LEMMA OnlyOne ==
  ASSUME NEW n, n = 1, NEW s, s \in 1 .. n
  PROVE  s = 1
OBVIOUS

LEMMA JudgesOwn ==
  ASSUME OpeningInv, verdict = "none", conv = "shadowsocks_own", answered = 0,
         NEW g \in Nat \ {0}, got' = g, g <= sent, fit' \in {"cut", "exact", "over"},
         Handshakes!Judge(Places(1, g)), UNCHANGED <<conv, wrong, sent, out>>
  PROVE  OpeningInv'
<1> DEFINE b == Places(1, g)
<1>1. /\ conv \in Convs /\ stage \in 1 .. Len(Handshakes!Reads(conv)) /\ sent \in Nat
      /\ sent <= Handshakes!Length /\ wrong \in {None} \cup Handshakes!Wrongs
  BY DEF OpeningInv, OpeningTypes
<1>2. /\ Handshakes!Rounds = 1 /\ Len(Handshakes!Reads(conv)) = 1
      /\ Handshakes!Length = Payload /\ Payload \in Nat \ {0}
      /\ \A i \in 1 .. Payload : Handshakes!Name(i) = "data"
  BY OwnIs, HandshakesAssumption
<1>3. stage = 1 /\ Handshakes!Length \in Nat /\ g <= Handshakes!Length
  <2>1. Len(Handshakes!Reads(conv)) = 1
    BY <1>2
  <2>2. stage \in 1 .. Len(Handshakes!Reads(conv))
    BY <1>1
  <2>4. stage = 1
    BY <2>1, <2>2, OnlyOne
  <2>3. Handshakes!Length \in Nat /\ sent \in Nat /\ sent <= Handshakes!Length
    BY <1>1, <1>2
  <2> QED
    BY <2>3, <2>4
<1>4. Handshakes!Fields = Handshakes!ShadowFields
  BY <1>3, OwnIs
<1>5. Len(b) \in Nat \ {0} /\ b[1] = 1
  <2>1. 1 \in Nat \ {0} /\ 1 <= g + 1 /\ (g - 1) + 1 = g /\ 1 \in 1 .. g /\ (1 + 1) - 1 = 1
    OBVIOUS
  <2>2. Len(b) = (g - 1) + 1 /\ \A k \in 1 .. Len(b) : b[k] = (1 + k) - 1
    BY <1>3, <2>1, SomePlaces
  <2> QED
    BY <2>1, <2>2
<1> HIDE DEF b
<1>6. /\ Handshakes!ShadowFields[1].name = "atyp"
      /\ Handshakes!ShadowFields[1].wrong = {"refused"}
      /\ 1 \in 1 .. Len(Handshakes!ShadowFields)
  BY DEF Handshakes!ShadowFields, Handshakes!ShadowAddr, Handshakes!F
<1>7. 1 \in Handshakes!Bad(b)
  <2>1. Handshakes!Has(b, 1)
    BY <1>4, <1>5, <1>6 DEF Handshakes!Has
  <2>2. Handshakes!Name(b[1]) = "data"
    BY <1>2, <1>5
  <2> QED
    BY <1>4, <1>6, <2>1, <2>2 DEF Handshakes!Bad
<1>8. PICK v \in Handshakes!Opinion(b) :
        v = "accepted" \/ (v # "accepted" /\ Handshakes!Refuse(v, b))
  BY DEF Handshakes!Judge, b
<1>9. Fits(Handshakes!Fields, Handshakes!ShadowRequest, {"refused"}, 1)
  BY <1>4, TablesFit DEF Fits
<1>10. v = "refused" /\ Handshakes!Refuse(v, b)
  BY <1>1, <1>7, <1>8, <1>9, OpinionIs
<1>11. verdict' = "refused" /\ UNCHANGED <<stage, answered>>
  BY <1>10 DEF Handshakes!Refuse
<1>12. WrongAhead'
  BY JudgesNoWrong DEF b
<1>13. /\ Handshakes!Length' = Handshakes!Length /\ Handshakes!Wrongs' = Handshakes!Wrongs
       /\ Handshakes!Rounds' = Handshakes!Rounds
  BY StaysTheSame
<1>14. InTurn'
  BY <1>2, <1>11, KeepsTurns
<1>15. OpeningTypes'
  BY <1>1, <1>2, <1>3, <1>11, <1>13 DEF OpeningTypes
<1> QED
  BY <1>11, <1>12, <1>14, <1>15 DEF OpeningInv, Understood

LEMMA UpgradeIs ==
  ASSUME conv = "ws"
  PROVE  /\ Handshakes!Rounds = 1 /\ Len(Handshakes!Reads(conv)) = 1
         /\ Handshakes!End(1) = 4
         /\ stage = 1 =>
              /\ Len(Handshakes!Fields) = 4 /\ Handshakes!Fields[4].name = "end"
              /\ Handshakes!Fields[4].short = "fallback"
              /\ RoundIs(Handshakes!Writes(conv)[1], 0, VerdictsOf(conv))
<1>1. conv \in OneRound
  BY DEF OneRound
<1>2. /\ Handshakes!Rounds = 1 /\ Len(Handshakes!Reads(conv)) = 1
      /\ Handshakes!End(1) = Len(Handshakes!Reads(conv)[1].fields)
      /\ stage = 1 => RoundIs(Handshakes!Writes(conv)[1], 0, VerdictsOf(conv))
  BY <1>1, OneRoundIs
<1>3. Handshakes!Reads(conv)[1].fields = Handshakes!WsFields
  BY DEF Handshakes!Reads, Handshakes!Round
<1>4. /\ Len(Handshakes!WsFields) = 4 /\ Handshakes!WsFields[4].name = "end"
      /\ Handshakes!WsFields[4].short = "fallback"
  BY DEF Handshakes!WsFields, Handshakes!F
<1> QED
  BY <1>2, <1>3, <1>4 DEF Handshakes!Fields

(* What follows the data in the header of an upgrade. *)
LEMMA GivesEarly ==
  ASSUME Handshakes!Length \in Nat, 4 <= Handshakes!Length
  PROVE  Giving(<< 3 >> \o Places(5, Handshakes!Length), 0, << 3 >>, 4)
<1> DEFINE l == Handshakes!Length
           p == Places(5, l)
           due == <<3>> \o p
<1>1. l \in Nat /\ 4 <= l
  OBVIOUS
<1>2. p \in Seq(Nat) /\ Len(p) = l - 4 /\ \A k \in 1 .. Len(p) : p[k] = 4 + k
  <2>1. 5 \in Nat \ {0} /\ 5 <= l + 1 /\ l <= Handshakes!Length /\ (l - 5) + 1 = l - 4
    OBVIOUS
  <2>2. p \in Seq(Nat) /\ Len(p) = (l - 5) + 1 /\ Len(p) \in Nat
        /\ \A k \in 1 .. Len(p) : p[k] = (5 + k) - 1
    BY <1>1, <2>1, SomePlaces
  <2>3. \A k \in 1 .. Len(p) : (5 + k) - 1 = 4 + k
    BY <2>2
  <2> QED
    BY <2>1, <2>2, <2>3
<1>3. <<3>> \in Seq(Nat) /\ Len(<<3>>) = 1 /\ <<3>>[1] = 3
  OBVIOUS
<1> HIDE DEF p, l
<1>4. /\ Len(due) = 1 + Len(p)
      /\ \A k \in 1 .. 1 + Len(p) : due[k] = IF k <= 1 THEN <<3>>[k] ELSE p[k - 1]
  BY <1>2, <1>3, ConcatProperties
<1> HIDE DEF due
<1>5. Len(p) \in Nat /\ Len(due) = (0 + Len(<<3>>)) + (l - 4)
  BY <1>1, <1>2, <1>3, <1>4
<1>6. ASSUME NEW k \in 1 .. Len(<< 3 >>)
      PROVE  << 3 >>[k] <= 4 /\ due[0 + k] = << 3 >>[k]
  <2>1. k = 1 /\ 0 + k = 1 /\ 1 \in 1 .. 1 + Len(p)
    BY <1>3, <1>5, <1>6
  <2>2. due[1] = <<3>>[1]
    BY <1>4, <2>1
  <2> QED
    BY <1>3, <2>1, <2>2
<1>7. ASSUME NEW k \in 1 .. (l - 4) PROVE due[(0 + Len(<< 3 >>)) + k] = 4 + k
  <2>1. /\ (0 + Len(<<3>>)) + k = 1 + k /\ 1 + k \in 1 .. 1 + Len(p) /\ ~(1 + k <= 1)
        /\ (1 + k) - 1 = k /\ k \in 1 .. Len(p)
    BY <1>1, <1>2, <1>3, <1>5, <1>7
  <2>2. due[1 + k] = p[(1 + k) - 1]
    BY <1>4, <2>1
  <2> QED
    BY <1>2, <2>1, <2>2
<1> QED
  BY <1>5, <1>6, <1>7 DEF Giving, due, p, l

LEMMA JudgesUpgrade ==
  ASSUME OpeningInv, verdict = "none", conv = "ws", answered = 0, out = <<>>,
         NEW g \in Nat \ {0}, got' = g, g <= sent, fit' \in {"cut", "exact", "over"},
         NEW b \in Seq(Nat), \A k \in 1 .. Len(b) : b[k] = IF k <= g THEN k ELSE 0,
         (heap = <<>> /\ b = Places(1, g) /\ g >= 4) \/ (heap # <<>> /\ fit' = "cut"),
         Handshakes!Judge(b), UNCHANGED <<conv, wrong, sent, out>>
  PROVE  OpeningInv'
<1>1. /\ conv \in Convs /\ stage \in 1 .. Len(Handshakes!Reads(conv)) /\ sent \in Nat
      /\ sent <= Handshakes!Length /\ wrong \in {None} \cup Handshakes!Wrongs
  BY DEF OpeningInv, OpeningTypes
<1>2. /\ Handshakes!Rounds = 1 /\ Len(Handshakes!Reads(conv)) = 1
      /\ Handshakes!End(1) = 4 /\ Handshakes!Length \in Nat /\ g <= Handshakes!Length
  BY <1>1, UpgradeIs, LengthsAre
<1>3. stage = 1
  <2>1. Len(Handshakes!Reads(conv)) = 1
    BY <1>2
  <2>2. stage \in 1 .. Len(Handshakes!Reads(conv))
    BY <1>1
  <2> QED
    BY <2>1, <2>2, OnlyOne
<1>4. sent <= 4
  BY <1>2 DEF OpeningInv, InTurn, Waiting, Handshakes!WaitsForAnswer
<1>5. /\ Len(Handshakes!Fields) = 4 /\ Handshakes!Fields[4].name = "end"
      /\ Handshakes!Fields[4].short = "fallback"
      /\ RoundIs(Handshakes!Writes(conv)[1], 0, VerdictsOf(conv))
  BY <1>3, UpgradeIs
<1>6. PICK v \in Handshakes!Opinion(b) :
        \/ v = "accepted" /\ Handshakes!Accept(b)
        \/ v # "accepted" /\ Handshakes!Refuse(v, b)
  BY DEF Handshakes!Judge
<1>7. Fits(Handshakes!Fields, Handshakes!Writes(conv)[1], VerdictsOf(conv), 1)
      /\ VerdictsOf(conv) = {"refused", "fallback", "drained"}
  BY <1>5 DEF RoundIs, VerdictsOf
<1>8. \/ v = "accepted" /\ Handshakes!Bad(b) = {} /\ Handshakes!Accept(b)
      \/ v \in {"refused", "fallback", "drained"} /\ Handshakes!Refuse(v, b)
  BY <1>1, <1>6, <1>7, OpinionIs
<1>9. WrongAhead'
  BY JudgesNoWrong
<1>10. /\ Handshakes!Length' = Handshakes!Length /\ Handshakes!Wrongs' = Handshakes!Wrongs
       /\ Handshakes!Rounds' = Handshakes!Rounds /\ Handshakes!End(1)' = Handshakes!End(1)
  BY StaysTheSame
<1>11. fit' # "cut" => /\ heap = <<>> /\ b = Places(1, 4) /\ g = 4
                       /\ Len(b) = 4 /\ \A k \in 1 .. 4 : b[k] = 0 + k
  <2> SUFFICES ASSUME fit' # "cut"
               PROVE  /\ heap = <<>> /\ b = Places(1, 4) /\ g = 4
                      /\ Len(b) = 4 /\ \A k \in 1 .. 4 : b[k] = 0 + k
    OBVIOUS
  <2>1. heap = <<>> /\ b = Places(1, g) /\ g = 4
    BY <1>1, <1>4
  <2>2. 1 \in Nat \ {0} /\ 1 <= g + 1 /\ (g - 1) + 1 = 4 /\ g <= Handshakes!Length
    BY <1>2, <2>1
  <2>3. Len(b) = (g - 1) + 1
    BY <1>2, <2>1, <2>2, SomePlaces
  <2> QED
    BY <2>1, <2>2, <2>3
<1>12. CASE v = "accepted" /\ Handshakes!Bad(b) = {} /\ Handshakes!Accept(b)
  <2>1. /\ verdict' = "accepted" /\ rest' = Handshakes!Remains(b) /\ answered' = 1
        /\ stage' = stage
    BY <1>2, <1>3, <1>12 DEF Handshakes!Accept
  <2>2. 4 <= Len(b) /\ Handshakes!Has(b, 4)
    <3>1. 4 \in 1 .. Len(Handshakes!Fields) /\ Handshakes!Fields[4].short # "unnoticed"
      BY <1>5
    <3> QED
      BY <1>12, <3>1, TakesAll
  <2>3. Handshakes!Name(b[4]) = "end"
    BY <1>5, <2>2 DEF Handshakes!Has
  <2>4. g = 4
    <3>1. 4 \in 1 .. Len(b)
      BY <2>2, LenProperties
    <3>2. b[4] # 0
      BY <2>3 DEF Handshakes!Name
    <3> QED
      BY <1>1, <1>4, <3>1, <3>2
  <2>5. rest' = <<3>>
    <3>1. 3 \in 1 .. Len(b) /\ b[3] = 3
      <4>1. Len(b) \in Nat
        BY LenProperties
      <4> QED
        BY <2>2, <2>4, <4>1
    <3>2. rest' = SubSeq(b, 3, 3)
      BY <2>1 DEF Handshakes!Remains, Handshakes!Early
    <3>3. \A i \in 3 .. 3 : b[i] \in Nat
      BY <3>1
    <3>4. /\ rest' \in Seq(Nat) /\ Len(rest') = IF 3 <= 3 THEN (3 - 3) + 1 ELSE 0
          /\ \A i \in 1 .. (3 - 3) + 1 : rest'[i] = b[(3 + i) - 1]
      BY <3>2, <3>3, SubSeqProperties
    <3>5. Len(rest') = 1 /\ rest'[1] = 3
      BY <3>1, <3>4
    <3>6. <<3>> \in Seq(Nat) /\ Len(<<3>>) = 1 /\ <<3>>[1] = 3
      OBVIOUS
    <3>7. \A i \in 1 .. Len(rest') : rest'[i] = <<3>>[i]
      BY <3>5, <3>6
    <3> QED
      BY <3>4, <3>5, <3>6, <3>7, SeqEqual
  <2>6. Handing'
    <3>1. Handshakes!Body' = Handshakes!Body
      BY StaysTheSame
    <3>2. Handshakes!Body = <<3>> \o Places(5, Handshakes!Length)
      BY <1>1, BodyIs
    <3>3. Handshakes!Contract!Due' = Handshakes!Body'
      BY <2>1 DEF Handshakes!Contract!Due
    <3>4. Giving(<< 3 >> \o Places(5, Handshakes!Length), 0, << 3 >>, 4)
      BY <1>2, <2>4, GivesEarly
    <3>5. out' = <<>> /\ Len(<<>>) = 0 /\ <<>> \in Seq(Nat) /\ <<3>> \in Seq(Nat)
      OBVIOUS
    <3>6. Len(out') = 0
      BY <3>5
    <3>7. Giving(Handshakes!Contract!Due', Len(out'), rest', got')
      BY <2>4, <2>5, <3>1, <3>2, <3>3, <3>4, <3>6
    <3>8. Giving(Handshakes!Contract!Due, Len(out), rest, got)'
            <=> Giving(Handshakes!Contract!Due', Len(out'), rest', got')
      BY <1>10 DEF Giving
    <3> QED
      BY <2>5, <3>5, <3>7, <3>8 DEF Handing
  <2>7. InTurn'
    BY <1>2, <2>1, KeepsTurns
  <2>8. OpeningTypes'
    BY <1>1, <1>2, <1>3, <1>10, <2>1 DEF OpeningTypes
  <2> QED
    BY <1>9, <2>1, <2>6, <2>7, <2>8 DEF OpeningInv, Understood
<1>13. CASE v \in {"refused", "fallback", "drained"} /\ Handshakes!Refuse(v, b)
  <2>1. /\ verdict' \in {"refused", "fallback"} /\ answered' = answered /\ stage' = stage
        /\ heap' = heap
        /\ rest' = IF v = "drained" \/ verdict' = "refused" THEN <<>> ELSE b
    BY <1>13 DEF Handshakes!Refuse, Handshakes!FallbackBuffer
  <2>2. ASSUME verdict' = "fallback", ~Handshakes!Lossy' PROVE Handing'
    <3>1. heap' = <<>> \/ fit' # "cut"
      BY <2>2 DEF Handshakes!Lossy
    <3>2. heap = <<>> /\ g >= 4
      BY <2>1, <3>1
    <3>3. b = Places(1, g) /\ g = 4 /\ sent = g
      BY <1>1, <1>4, <3>2
    <3>4. CASE v = "drained"
      <4>1. rest' = <<>> /\ <<>> \in Seq(Nat) /\ out' = <<>>
        BY <2>1, <3>4
      <4>2. Drained'
        BY <1>2, <1>10, <2>1, <2>2, <3>3, <4>1 DEF Drained
      <4> QED
        BY <4>1, <4>2 DEF Handing
    <3>5. CASE v # "drained"
      <4>1. rest' = Places(1, g)
        BY <2>1, <2>2, <3>3, <3>5
      <4>2. 1 \in Nat \ {0} /\ 1 <= g + 1
        OBVIOUS
      <4> QED
        BY <1>1, <1>2, <2>2, <4>1, <4>2, HandsOver
    <3> QED
      BY <3>4, <3>5
  <2>3. InTurn'
    BY <1>2, <2>1, KeepsTurns
  <2>4. OpeningTypes'
    BY <1>1, <1>2, <1>3, <1>10, <2>1 DEF OpeningTypes
  <2>5. Understood'
    <3>1. ASSUME wrong = None, fit' # "cut" PROVE FALSE
      <4>1. Len(Handshakes!Fields) <= Len(b) /\ Len(b) \in Nat
            /\ \A i \in 1 .. Len(Handshakes!Fields) : b[i] = 0 + i
        BY <1>5, <1>11, <3>1
      <4>2. Handshakes!Opinion(b) = {"accepted"}
        BY <1>5, <3>1, <4>1, Understands
      <4> QED
        BY <1>13, <4>2
    <3> QED
      BY <3>1 DEF Understood
  <2> QED
    BY <1>9, <2>1, <2>2, <2>3, <2>4, <2>5 DEF OpeningInv
<1> QED
  BY <1>8, <1>12, <1>13

(* The types are kept. *)
LEMMA StaysTyped ==
  ASSUME OpeningInv, UNCHANGED <<conv, wrong, sent>>,
         NEW g \in Nat, got' = g, g <= sent, fit' \in {"cut", "exact", "over"},
         verdict' \in {"none", "accepted", "fallback", "refused", "broken"},
         NEW a \in 0 .. Handshakes!Rounds, answered' = a,
         NEW s \in 1 .. Len(Handshakes!Reads(conv)), stage' = s
  PROVE  OpeningTypes'
<1>1. /\ Handshakes!Length' = Handshakes!Length /\ Handshakes!Wrongs' = Handshakes!Wrongs
      /\ Handshakes!Rounds' = Handshakes!Rounds
  BY StaysTheSame
<1>2. Len(Handshakes!Reads(conv))' = Len(Handshakes!Reads(conv))
  OBVIOUS
<1>3. conv \in Convs /\ wrong \in {None} \cup Handshakes!Wrongs /\ sent \in Nat
      /\ sent <= Handshakes!Length
  BY DEF OpeningInv, OpeningTypes
<1> QED
  BY <1>1, <1>2, <1>3 DEF OpeningTypes

(* A preset header is taken off, *)
LEMMA JudgesPreset ==
  ASSUME OpeningInv, verdict = "none", conv = "preset", stage = 1, answered = 0,
         out = <<>>,
         NEW g \in Nat \ {0}, got' = g, g <= sent, fit' \in {"cut", "exact", "over"},
         fit' # "cut" => g >= 4,
         Handshakes!Judge(Places(1, g)), UNCHANGED <<conv, wrong, sent, out>>
  PROVE  OpeningInv'
<1> DEFINE b == Places(1, g)
<1>1. /\ conv \in Convs /\ sent \in Nat
      /\ sent <= Handshakes!Length /\ wrong \in {None} \cup Handshakes!Wrongs
  BY DEF OpeningInv, OpeningTypes
<1>2. /\ Handshakes!Rounds = 1 /\ Len(Handshakes!Reads(conv)) = 2
      /\ Len(Handshakes!Fields) = 2
      /\ RoundIs(Handshakes!PresetRequest, 0, {"refused", "fallback"})
  BY PresetIs
<1>3. Handshakes!Length \in Nat /\ g <= Handshakes!Length
  BY <1>1, LengthsAre
<1>4. b \in Seq(Nat) /\ Len(b) = g /\ \A k \in 1 .. g : b[k] = 0 + k
  <2>1. 1 \in Nat \ {0} /\ 1 <= g + 1 /\ (g - 1) + 1 = g
    OBVIOUS
  <2>2. /\ b \in Seq(Nat) /\ Len(b) = (g - 1) + 1
        /\ \A k \in 1 .. Len(b) : b[k] = (1 + k) - 1
    BY <1>3, <2>1, SomePlaces
  <2> QED
    BY <2>1, <2>2
<1> HIDE DEF b
<1>5. PICK v \in Handshakes!Opinion(b) :
        \/ v = "accepted" /\ Handshakes!Accept(b)
        \/ v # "accepted" /\ Handshakes!Refuse(v, b)
  BY DEF Handshakes!Judge, b
<1>6. Fits(Handshakes!Fields, Handshakes!PresetRequest, {"refused", "fallback"}, 1)
  BY <1>2 DEF RoundIs
<1>7. \/ v = "accepted" /\ Handshakes!Bad(b) = {} /\ Handshakes!Accept(b)
      \/ v \in {"refused", "fallback"} /\ Handshakes!Refuse(v, b)
  <2>1. "refused" \in {"refused", "fallback"}
    OBVIOUS
  <2>2. \/ v = "accepted" /\ Handshakes!Bad(b) = {}
        \/ v \in {"refused", "fallback"} \ {"unnoticed"}
    BY <1>1, <1>6, <2>1, OpinionIs
  <2> QED
    BY <1>5, <2>2
<1>8. buf' = <<>>
  BY DEF Handshakes!Judge
<1>9. WrongAhead'
  BY JudgesNoWrong DEF b
<1>10. /\ Handshakes!Length' = Handshakes!Length /\ Handshakes!Wrongs' = Handshakes!Wrongs
       /\ Handshakes!Rounds' = Handshakes!Rounds /\ Handshakes!Whole' = Handshakes!Whole
  BY StaysTheSame
<1>11. CASE v = "accepted" /\ Handshakes!Bad(b) = {} /\ Handshakes!Accept(b)
  <2>1. /\ verdict' = "none" /\ stage' = 2 /\ answered' = 0 /\ heap' = b
        /\ rest' = SubSeq(b, 2 + 1, Len(b))
    BY <1>2, <1>11 DEF Handshakes!Accept, Handshakes!Remains
  <2>2. 2 <= g
    <3>1. 2 \in 1 .. Len(Handshakes!Fields)
      BY <1>2
    <3>2. Handshakes!Fields[2].short # "unnoticed"
      BY <1>6, <3>1 DEF Fits
    <3> QED
      BY <1>4, <1>11, <3>1, <3>2, TakesAll
  <2>3. rest' = Places(3, g)
    <3>1. /\ 1 \in Nat \ {0} /\ 3 \in Nat \ {0} /\ 1 <= g + 1 /\ g <= Len(b)
          /\ (1 + 3) - 1 = 3 /\ (1 + g) - 1 = g /\ 2 + 1 = 3
      BY <1>4
    <3>2. SubSeq(b, 3, g) = Places((1 + 3) - 1, (1 + g) - 1)
      BY <1>3, <3>1, SubPlaces, ZenonT(60) DEF b
    <3>3. rest' = SubSeq(b, 3, g)
      BY <1>4, <2>1, <3>1
    <3>4. Places((1 + 3) - 1, (1 + g) - 1) = Places(3, g)
      BY <3>1
    <3> QED
      BY <3>2, <3>3, <3>4
  <2>4. Places(1, got)' = Places(1, g) /\ Places(3, got)' = Places(3, g)
    BY <1>10 DEF Places
  <2>5. g < 4 => fit' = "cut"
    OBVIOUS
  <2>6. heap' = Places(1, g)
    BY <2>1 DEF b
  <2>7. Reading'
    BY <1>8, <2>1, <2>2, <2>3, <2>4, <2>5, <2>6 DEF Reading, OneRound, ReadsOn
  <2>8. InTurn'
    BY <1>2, <2>1, KeepsTurns
  <2>9. OpeningTypes'
    <3>1. 0 \in 0 .. Handshakes!Rounds /\ 2 \in 1 .. Len(Handshakes!Reads(conv))
          /\ g \in Nat
      BY <1>2
    <3> QED
      BY <2>1, <3>1, StaysTyped
  <2> QED
    BY <1>9, <2>1, <2>7, <2>8, <2>9 DEF OpeningInv, Understood
<1>12. CASE v \in {"refused", "fallback"} /\ Handshakes!Refuse(v, b)
  <2>1. /\ verdict' \in {"refused", "fallback"} /\ answered' = answered /\ stage' = stage
        /\ verdict' = "fallback" => rest' = Places(1, g)
    BY <1>12 DEF Handshakes!Refuse, Handshakes!FallbackBuffer, b
  <2>2. verdict' = "fallback" => Handing'
    <3>1. 1 \in Nat \ {0} /\ 1 <= g + 1
      OBVIOUS
    <3> QED
      BY <1>1, <1>3, <2>1, <3>1, HandsOver
  <2>3. InTurn'
    BY <1>2, <2>1, KeepsTurns
  <2>4. OpeningTypes'
    <3>1. 0 \in 0 .. Handshakes!Rounds /\ 1 \in 1 .. Len(Handshakes!Reads(conv))
          /\ g \in Nat
      BY <1>2
    <3> QED
      BY <2>1, <3>1, StaysTyped
  <2>5. ASSUME wrong = None, fit' # "cut" PROVE FALSE
    <3>1. Len(Handshakes!Fields) <= Len(b) /\ Len(b) \in Nat
      BY <1>2, <1>4, <2>5
    <3>2. \A i \in 1 .. Len(Handshakes!Fields) : b[i] = 0 + i
      BY <1>2, <1>4, <3>1
    <3>3. Handshakes!Opinion(b) = {"accepted"}
      BY <1>2, <2>5, <3>1, <3>2, Understands
    <3> QED
      BY <1>12, <3>3
  <2>6. Understood'
    BY <2>5 DEF Understood
  <2> QED
    BY <1>9, <2>1, <2>2, <2>3, <2>4, <2>6 DEF OpeningInv
<1> QED
  BY <1>7, <1>11, <1>12

(* and what follows it is read by the protocol, which falls back on both.  *)
LEMMA JudgesBehindPreset ==
  ASSUME OpeningInv, verdict = "none", conv = "preset", stage = 2, answered = 0,
         out = <<>>,
         NEW h \in Nat, 2 <= h, heap = Places(1, h),
         NEW g \in Nat, 3 <= g, h <= g, got' = g, g <= sent,
         fit' \in {"cut", "exact", "over"}, h # g => fit' = "cut", fit' # "cut" => g >= 4,
         Handshakes!Judge(Places(3, g)), UNCHANGED <<conv, wrong, sent, out>>
  PROVE  OpeningInv'
<1> DEFINE b == Places(3, g)
<1>1. /\ conv \in Convs /\ sent \in Nat
      /\ sent <= Handshakes!Length /\ wrong \in {None} \cup Handshakes!Wrongs
  BY DEF OpeningInv, OpeningTypes
<1>2. /\ Handshakes!Rounds = 1 /\ Len(Handshakes!Reads(conv)) = 2
      /\ Handshakes!End(1) = 4 /\ Len(Handshakes!Fields) = 2
      /\ RoundIs(Handshakes!VmessRequest, 2, {"refused"})
  BY PresetIs
<1>3. Handshakes!Length \in Nat /\ g <= Handshakes!Length /\ h <= Handshakes!Length
  BY <1>1, LengthsAre
<1>4. b \in Seq(Nat) /\ Len(b) = g - 2 /\ Len(b) \in Nat
      /\ \A k \in 1 .. Len(b) : b[k] = 2 + k
  <2>1. 3 \in Nat \ {0} /\ 3 <= g + 1 /\ (g - 3) + 1 = g - 2
    OBVIOUS
  <2>2. /\ b \in Seq(Nat) /\ Len(b) = (g - 3) + 1 /\ Len(b) \in Nat
        /\ \A k \in 1 .. Len(b) : b[k] = (3 + k) - 1
    BY <1>3, <2>1, SomePlaces
  <2>3. \A k \in 1 .. Len(b) : (3 + k) - 1 = 2 + k
    BY <2>2
  <2> QED
    BY <2>1, <2>2, <2>3
<1> HIDE DEF b
<1>5. PICK v \in Handshakes!Opinion(b) :
        \/ v = "accepted" /\ Handshakes!Accept(b)
        \/ v # "accepted" /\ Handshakes!Refuse(v, b)
  BY DEF Handshakes!Judge, b
<1>6. Fits(Handshakes!Fields, Handshakes!VmessRequest, {"refused"}, 1)
  BY <1>2 DEF RoundIs
<1>7. \/ v = "accepted" /\ Handshakes!Bad(b) = {} /\ Handshakes!Accept(b)
      \/ v = "refused" /\ Handshakes!Refuse(v, b)
  BY <1>1, <1>5, <1>6, OpinionIs
<1>8. WrongAhead'
  BY JudgesNoWrong DEF b
<1>9. /\ Handshakes!Length' = Handshakes!Length /\ Handshakes!Wrongs' = Handshakes!Wrongs
      /\ Handshakes!Rounds' = Handshakes!Rounds
  BY StaysTheSame
<1>10. CASE v = "accepted" /\ Handshakes!Bad(b) = {} /\ Handshakes!Accept(b)
  <2>1. /\ verdict' = "accepted" /\ stage' = stage /\ answered' = 1
        /\ rest' = SubSeq(b, 2 + 1, Len(b))
    BY <1>2, <1>10 DEF Handshakes!Accept, Handshakes!Remains
  <2>2. 2 <= Len(b)
    <3>1. 2 \in 1 .. Len(Handshakes!Fields)
      BY <1>2
    <3>2. Handshakes!Fields[2].short # "unnoticed"
      BY <1>6, <3>1 DEF Fits
    <3> QED
      BY <1>10, <3>1, <3>2, TakesAll
  <2>3. 4 <= g
    BY <1>4, <2>2
  <2>4. rest' = Places(5, g)
    <3>1. /\ 3 \in Nat \ {0} /\ 3 <= g + 1 /\ Len(b) <= Len(b)
          /\ (3 + 3) - 1 = 5 /\ (3 + Len(b)) - 1 = g /\ 2 + 1 = 3
      BY <1>4
    <3>2. SubSeq(b, 3, Len(b)) = Places((3 + 3) - 1, (3 + Len(b)) - 1)
      BY <1>3, <1>4, <3>1, SubPlaces, ZenonT(60) DEF b
    <3>3. rest' = SubSeq(b, 3, Len(b))
      BY <2>1, <3>1
    <3>4. Places((3 + 3) - 1, (3 + Len(b)) - 1) = Places(5, g)
      BY <3>1
    <3> QED
      BY <3>2, <3>3, <3>4
  <2>5. Handing'
    <3>1. Handshakes!Body = Places(4 + 1, Handshakes!Length)
      BY <1>1, <1>2, BodyIs DEF Handshakes!PassesAll
    <3>2. 4 + 1 = 5 /\ 5 \in Nat \ {0} /\ 5 <= g + 1
      BY <2>3
    <3>3. Handshakes!Body = Places(5, Handshakes!Length)
      BY <3>1, <3>2
    <3> QED
      BY <1>1, <1>3, <2>1, <2>4, <3>2, <3>3, HandsOver
  <2>6. InTurn'
    BY <1>2, <2>1, KeepsTurns
  <2>7. OpeningTypes'
    <3>1. 1 \in 0 .. Handshakes!Rounds /\ 2 \in 1 .. Len(Handshakes!Reads(conv))
      BY <1>2
    <3> QED
      BY <2>1, <3>1, StaysTyped
  <2> QED
    BY <1>8, <2>1, <2>5, <2>6, <2>7 DEF OpeningInv, Understood
<1>11. CASE v = "refused" /\ Handshakes!Refuse(v, b)
  <2>1. /\ verdict' = "fallback" /\ answered' = answered /\ stage' = stage
        /\ heap' = heap /\ rest' = heap
    BY <1>11 DEF Handshakes!Refuse, Handshakes!FallbackBuffer
  <2>2. ASSUME ~Handshakes!Lossy' PROVE Handing'
    <3>1. 1 \in Nat \ {0} /\ 1 <= h + 1 /\ (h - 1) + 1 = h /\ 1 <= g + 1
      OBVIOUS
    <3>2. Len(heap) = (h - 1) + 1
      BY <1>3, <3>1, SomePlaces
    <3>3. heap # <<>>
      BY <3>1, <3>2
    <3>4. h = g
      BY <2>1, <2>2, <3>3 DEF Handshakes!Lossy
    <3> QED
      BY <1>1, <1>3, <2>1, <3>1, <3>4, HandsOver
  <2>3. InTurn'
    BY <1>2, <2>1, KeepsTurns
  <2>4. OpeningTypes'
    <3>1. 0 \in 0 .. Handshakes!Rounds /\ 2 \in 1 .. Len(Handshakes!Reads(conv))
      BY <1>2
    <3> QED
      BY <2>1, <3>1, StaysTyped
  <2>5. ASSUME wrong = None, fit' # "cut" PROVE FALSE
    <3>1. Len(Handshakes!Fields) <= Len(b) /\ Len(b) \in Nat
      BY <1>2, <1>4, <2>5
    <3>2. \A i \in 1 .. Len(Handshakes!Fields) : b[i] = 2 + i
      BY <1>2, <1>4, <3>1
    <3>3. Handshakes!Opinion(b) = {"accepted"}
      BY <1>2, <2>5, <3>1, <3>2, Understands
    <3> QED
      BY <1>11, <3>3
  <2>6. Understood'
    BY <2>5 DEF Understood
  <2> QED
    BY <1>8, <2>1, <2>2, <2>3, <2>4, <2>6 DEF OpeningInv
<1> QED
  BY <1>7, <1>10, <1>11

(* socks5, from either end: three rounds, each answered before the next.   *)
Socks == {"socks5", "socks5http", "socks5_reply"}

LEMMA RoundsOfThree ==
  ASSUME conv \in Socks, NEW s \in 1 .. 3,
         stage = IF conv = "socks5http" THEN s + 1 ELSE s
  PROVE  /\ Handshakes!Rounds = 3
         /\ Len(Handshakes!Reads(conv)) = IF conv = "socks5http" THEN 4 ELSE 3
         /\ Handshakes!End(s - 1) \in Nat /\ Handshakes!End(s) \in Nat
         /\ Handshakes!End(s - 1) < Handshakes!End(s)
         /\ Len(Handshakes!Fields) = Handshakes!End(s) - Handshakes!End(s - 1)
         /\ \E names : RoundIs(names, Handshakes!End(s - 1), SocksVerdicts)
         /\ s # 3 \/ conv = "socks5_reply" =>
              \A i \in 1 .. Len(Handshakes!Fields) : Handshakes!Fields[i].short = "refused"
<1>1. /\ s = 1 \/ s = 2 \/ s = 3
      /\ s - 1 = 0 \/ s - 1 = 1 \/ s - 1 = 2
      /\ s = 1 => s - 1 = 0
      /\ s = 2 => s - 1 = 1
      /\ s = 3 => s - 1 = 2
  OBVIOUS
<1>2. CASE conv \in {"socks5", "socks5http"}
  <2>1. /\ Handshakes!Rounds = 3
        /\ Handshakes!End(0) = 0 /\ Handshakes!End(1) = 2 /\ Handshakes!End(2) = 3
        /\ Handshakes!End(3) = 5
    BY <1>2, ClientIs
  <2>2. /\ Handshakes!End(s - 1) \in Nat /\ Handshakes!End(s) \in Nat
        /\ Handshakes!End(s - 1) < Handshakes!End(s)
    BY <1>1, <2>1
  <2>3. Len(Handshakes!Reads(conv)) = IF conv = "socks5http" THEN 4 ELSE 3
    BY <1>2, ServerRounds
  <2>4. stage = IF conv = "socks5" THEN s ELSE s + 1
    BY <1>2
  <2>5. /\ RoundIs(Handshakes!Socks5Client[s], Handshakes!End(s - 1), SocksVerdicts)
        /\ Len(Handshakes!Fields) = Handshakes!End(s) - Handshakes!End(s - 1)
        /\ s # 3 => \A i \in 1 .. Len(Handshakes!Fields) :
                      Handshakes!Fields[i].short = "refused"
    BY <1>2, <2>4, ServerIs
  <2> QED
    BY <1>2, <2>1, <2>2, <2>3, <2>5
<1>3. CASE conv = "socks5_reply"
  <2>1. /\ Handshakes!Rounds = 3
        /\ Handshakes!End(0) = 0 /\ Handshakes!End(1) = 2 /\ Handshakes!End(2) = 4
        /\ Handshakes!End(3) = 6
    BY <1>3, ReplyIs
  <2>2. /\ Handshakes!End(s - 1) \in Nat /\ Handshakes!End(s) \in Nat
        /\ Handshakes!End(s - 1) < Handshakes!End(s)
        /\ Handshakes!End(s) - Handshakes!End(s - 1) = 2
    BY <1>1, <2>1
  <2>3. stage = s /\ Len(Handshakes!Reads(conv)) = 3
    BY <1>3, RepliesAre
  <2>4. /\ RoundIs(Handshakes!Socks5Replies[s], Handshakes!End(s - 1), {"refused"})
        /\ Len(Handshakes!Fields) = 2
    BY <1>3, <2>3, RepliesAre
  <2>5. \A i \in 1 .. Len(Handshakes!Fields) : Handshakes!Fields[i].short = "refused"
    BY <2>4 DEF RoundIs, Fits
  <2>6. RoundIs(Handshakes!Socks5Replies[s], Handshakes!End(s - 1), SocksVerdicts)
    BY <2>4 DEF RoundIs, Fits, SocksVerdicts
  <2> QED
    BY <1>3, <2>1, <2>2, <2>3, <2>4, <2>5, <2>6
<1> QED
  BY <1>2, <1>3 DEF Socks

LEMMA JudgesSocks ==
  ASSUME OpeningInv, verdict = "none", conv \in Socks, out = <<>>, heap = <<>>,
         NEW s \in 1 .. 3, stage = IF conv = "socks5http" THEN s + 1 ELSE s,
         answered = s - 1,
         NEW g \in Nat, got' = g, g <= sent, Handshakes!End(s - 1) < g,
         fit' \in {"cut", "exact", "over"},
         fit' = "cut" <=> g < Handshakes!End(s),
         fit' = "over" <=> Handshakes!End(s) < g,
         Handshakes!Judge(Places(Handshakes!End(s - 1) + 1, g)),
         UNCHANGED <<conv, wrong, sent, out>>
  PROVE  OpeningInv'
<1> DEFINE d == Handshakes!End(s - 1)
           e == Handshakes!End(s)
           b == Places(d + 1, g)
<1>1. /\ conv \in Convs /\ sent \in Nat
      /\ sent <= Handshakes!Length /\ wrong \in {None} \cup Handshakes!Wrongs
      /\ InTurn
  BY DEF OpeningInv, OpeningTypes
<1>2. /\ Handshakes!Rounds = 3
      /\ Len(Handshakes!Reads(conv)) = IF conv = "socks5http" THEN 4 ELSE 3
      /\ d \in Nat /\ e \in Nat /\ d < e
      /\ Len(Handshakes!Fields) = e - d
  BY RoundsOfThree
<1>3. PICK names : RoundIs(names, d, SocksVerdicts)
  BY RoundsOfThree
<1>4. s # 3 \/ conv = "socks5_reply" =>
        \A i \in 1 .. Len(Handshakes!Fields) : Handshakes!Fields[i].short = "refused"
  BY RoundsOfThree
<1>5. Handshakes!Length \in Nat /\ g <= Handshakes!Length
  BY <1>1, LengthsAre
<1>6. s # 3 \/ conv # "socks5_reply" => g <= e
  <2> SUFFICES ASSUME s # 3 \/ conv # "socks5_reply"
               PROVE  g <= e
    OBVIOUS
  <2>1. answered + 1 = s /\ (s # 3 => s < 3)
    OBVIOUS
  <2>2. Waiting
    BY <1>2, <2>1 DEF Waiting, Handshakes!WaitsForAnswer, Socks
  <2>3. sent <= e
    BY <1>1, <2>1, <2>2 DEF InTurn
  <2> QED
    BY <1>1, <1>2, <2>3
<1>7. b \in Seq(Nat) /\ Len(b) = g - d /\ Len(b) \in Nat
      /\ \A k \in 1 .. Len(b) : b[k] = d + k
  <2>1. d + 1 \in Nat \ {0} /\ d + 1 <= g + 1 /\ (g - (d + 1)) + 1 = g - d
    BY <1>2
  <2>2. /\ b \in Seq(Nat) /\ Len(b) = (g - (d + 1)) + 1 /\ Len(b) \in Nat
        /\ \A k \in 1 .. Len(b) : b[k] = ((d + 1) + k) - 1
    BY <1>5, <2>1, SomePlaces
  <2>3. \A k \in 1 .. Len(b) : ((d + 1) + k) - 1 = d + k
    BY <1>2, <2>2
  <2> QED
    BY <2>1, <2>2, <2>3
<1> HIDE DEF b
<1>8. PICK v \in Handshakes!Opinion(b) :
        \/ v = "accepted" /\ Handshakes!Accept(b)
        \/ v # "accepted" /\ Handshakes!Refuse(v, b)
  <2>1. ~(conv = "socks5http" /\ stage = 1)
    OBVIOUS
  <2> QED
    BY <2>1 DEF Handshakes!Judge, b
<1>9. Fits(Handshakes!Fields, names, SocksVerdicts, 1)
  BY <1>3 DEF RoundIs
<1>10. \/ v = "accepted" /\ Handshakes!Bad(b) = {} /\ Handshakes!Accept(b)
       \/ v = "refused" /\ Handshakes!Refuse(v, b)
  <2>1. "refused" \in SocksVerdicts
    BY DEF SocksVerdicts
  <2>2. \/ v = "accepted" /\ Handshakes!Bad(b) = {}
        \/ v \in SocksVerdicts \ {"unnoticed"}
    BY <1>1, <1>9, <2>1, OpinionIs
  <2> QED
    BY <1>8, <2>2 DEF SocksVerdicts
<1>11. WrongAhead'
  BY JudgesNoWrong DEF b
<1>12. buf' = <<>>
  BY DEF Handshakes!Judge
<1> HIDE DEF d, e
<1>13. fit' = "cut" <=> g < e
  BY DEF e
<1>14. fit' = "over" <=> e < g
  BY DEF e
<1>15. CASE v = "accepted" /\ Handshakes!Bad(b) = {} /\ Handshakes!Accept(b)
  <2>1. s # 3 \/ conv = "socks5_reply" => e <= g
    <3> SUFFICES ASSUME s # 3 \/ conv = "socks5_reply"
                 PROVE  e <= g
      OBVIOUS
    <3>1. e - d \in 1 .. Len(Handshakes!Fields)
      BY <1>2
    <3>2. Handshakes!Fields[e - d].short = "refused"
      BY <1>4, <3>1
    <3>3. e - d <= Len(b)
      BY <1>15, <3>1, <3>2, TakesAll
    <3> QED
      BY <1>2, <1>7, <3>3
  <2>2. CASE s # 3
    <3>1. stage # Len(Handshakes!Reads(conv))
      BY <1>2, <2>2
    <3>2. /\ verdict' = "none" /\ stage' = stage + 1 /\ rest' = <<>> /\ heap' = <<>>
          /\ answered' = answered + 1
      BY <1>15, <3>1 DEF Handshakes!Accept, Socks
    <3>3. g = e /\ answered' = s
      BY <1>2, <1>6, <2>1, <2>2, <3>2
    <3>4. Handshakes!End(answered)' = e
      <4>1. Handshakes!End(s)' = Handshakes!End(s)
        BY StaysTheSame
      <4> QED
        BY <3>3, <4>1 DEF Handshakes!End, e
    <3>5. fit' # "cut"
      BY <1>2, <1>13, <3>3
    <3>6. BetweenRounds'
      BY <1>12, <3>2, <3>3, <3>4, <3>5 DEF BetweenRounds
    <3>7. /\ conv \in {"socks5", "socks5_reply"} => answered' = stage' - 1
          /\ conv = "socks5http" => stage' > 2 /\ answered' = stage' - 2
      BY <3>2, <3>3 DEF Socks
    <3>8. Reading'
      BY <3>6, <3>7 DEF Reading, Socks, OneRound, ReadsOn
    <3>9. s \in 0 .. Handshakes!Rounds /\ stage + 1 \in 1 .. Len(Handshakes!Reads(conv))
      BY <1>2, <2>2
    <3>10. OpeningTypes'
      BY <3>2, <3>3, <3>9, StaysTyped
    <3>11. InTurn'
      BY <1>2, <3>3, KeepsTurns
    <3> QED
      BY <1>11, <3>2, <3>8, <3>10, <3>11 DEF OpeningInv, Understood
  <2>3. CASE s = 3
    <3>1. stage = Len(Handshakes!Reads(conv))
      BY <1>2, <2>3
    <3>2. /\ verdict' = "accepted" /\ stage' = stage /\ answered' = 3 /\ rest' = <<>>
      BY <1>2, <1>15, <3>1 DEF Handshakes!Accept, Handshakes!Remains, Socks
    <3>3. ASSUME ~Handshakes!Lossy' PROVE Handing'
      <4>1. g = e
        <5>1. conv # "socks5_reply" => fit' # "cut"
          BY <3>2, <3>3 DEF Handshakes!Lossy, Socks
        <5>2. conv = "socks5_reply" => fit' # "over"
          BY <3>2, <3>3 DEF Handshakes!Lossy
        <5> QED
          BY <1>2, <1>6, <1>13, <1>14, <2>1, <5>1, <5>2
      <4>2. rest' = Places(g + 1, g)
        BY <1>5, <3>2, NoPlaces
      <4>3. Handshakes!Body = Places(Handshakes!End(3) + 1, Handshakes!Length)
        BY <1>1, <1>2, BodyIs DEF Handshakes!PassesAll, Socks
      <4>4. Handshakes!Body = Places(g + 1, Handshakes!Length)
        BY <2>3, <4>1, <4>3 DEF e
      <4>5. g + 1 \in Nat \ {0} /\ g + 1 <= g + 1
        OBVIOUS
      <4> QED
        BY <1>1, <1>5, <3>2, <4>2, <4>4, <4>5, HandsOver
    <3>4. 3 \in 0 .. Handshakes!Rounds /\ stage \in 1 .. Len(Handshakes!Reads(conv))
      BY <1>2, <2>3
    <3>5. OpeningTypes'
      BY <3>2, <3>4, StaysTyped
    <3>6. InTurn'
      BY <1>2, <3>2, KeepsTurns
    <3> QED
      BY <1>11, <3>2, <3>3, <3>5, <3>6 DEF OpeningInv, Understood
  <2> QED
    BY <2>2, <2>3
<1>16. CASE v = "refused" /\ Handshakes!Refuse(v, b)
  <2>1. verdict' = "refused" /\ answered' = answered /\ stage' = stage
    BY <1>16 DEF Handshakes!Refuse, Socks
  <2>2. InTurn'
    BY <1>2, <2>1, KeepsTurns
  <2>3. OpeningTypes'
    <3>1. s - 1 \in 0 .. Handshakes!Rounds /\ stage \in 1 .. Len(Handshakes!Reads(conv))
      BY <1>2
    <3> QED
      BY <2>1, <3>1, StaysTyped
  <2>4. ASSUME wrong = None, fit' # "cut" PROVE FALSE
    <3>1. e <= g
      BY <1>2, <1>13, <2>4
    <3>2. Len(Handshakes!Fields) <= Len(b)
      BY <1>2, <1>7, <3>1
    <3>3. \A i \in 1 .. Len(Handshakes!Fields) : b[i] = d + i
      BY <1>2, <1>7, <3>2
    <3>4. Handshakes!Opinion(b) = {"accepted"}
      BY <1>2, <1>3, <1>7, <2>4, <3>2, <3>3, Understands
    <3> QED
      BY <1>16, <3>4
  <2>5. Understood'
    BY <2>4 DEF Understood
  <2> QED
    BY <1>11, <2>1, <2>2, <2>3, <2>5 DEF OpeningInv
<1> QED
  BY <1>10, <1>15, <1>16

(* What is no http request is tried as a socks5 request. *)
LEMMA JudgesHttpFirst ==
  ASSUME OpeningInv, verdict = "none", conv = "socks5http", stage = 1, answered = 0,
         out = <<>>, heap = <<>>,
         NEW g \in Nat \ {0}, got' = g, g <= sent, fit' \in {"cut", "exact", "over"},
         fit' = "cut" <=> g < Handshakes!End(1),
         Handshakes!Judge(Places(1, g)), UNCHANGED <<conv, wrong, sent, out>>
  PROVE  OpeningInv'
<1> DEFINE b == Places(1, g)
<1>1. /\ conv \in Convs /\ sent \in Nat
      /\ sent <= Handshakes!Length /\ wrong \in {None} \cup Handshakes!Wrongs
  BY DEF OpeningInv, OpeningTypes
<1>2. /\ Handshakes!Rounds = 3 /\ Handshakes!End(1) = 2 /\ Handshakes!Name(1) = "version"
      /\ Len(Handshakes!Reads(conv)) = 4 /\ Handshakes!Fields = Handshakes!HttpFields
  BY ClientIs, ServerRounds
<1>3. Handshakes!Length \in Nat /\ g <= Handshakes!Length
  BY <1>1, LengthsAre
<1>4. Len(b) \in Nat \ {0} /\ b[1] = 1
  <2>1. 1 \in Nat \ {0} /\ 1 <= g + 1 /\ (g - 1) + 1 = g /\ 1 \in 1 .. g /\ (1 + 1) - 1 = 1
    OBVIOUS
  <2>2. Len(b) = (g - 1) + 1 /\ \A k \in 1 .. Len(b) : b[k] = (1 + k) - 1
    BY <1>3, <2>1, SomePlaces
  <2> QED
    BY <2>1, <2>2
<1> HIDE DEF b
<1>5. /\ Handshakes!HttpFields[1].name = "line"
      /\ Handshakes!HttpFields[1].wrong = {"refused"}
      /\ 1 \in 1 .. Len(Handshakes!HttpFields)
  BY DEF Handshakes!HttpFields, Handshakes!F
<1>6. 1 \in Handshakes!Bad(b)
  <2>1. Handshakes!Has(b, 1)
    BY <1>2, <1>4, <1>5 DEF Handshakes!Has
  <2>2. Handshakes!Name(b[1]) = "version"
    BY <1>2, <1>4
  <2> QED
    BY <1>2, <1>5, <2>1, <2>2 DEF Handshakes!Bad
<1>7. Fits(Handshakes!Fields, Handshakes!HttpRequest, {"refused"}, 1)
  BY <1>2, TablesFit, SMTT(30) DEF Fits
<1>8. PICK v \in Handshakes!Opinion(b) : v = "accepted" \/ Handshakes!TryNext(b)
  BY DEF Handshakes!Judge, b
<1>9. v # "accepted"
  BY <1>1, <1>6, <1>7, OpinionIs
<1>10. stage' = 2 /\ rest' = b /\ verdict' = "none" /\ heap' = <<>> /\ answered' = 0
  BY <1>8, <1>9 DEF Handshakes!TryNext
<1>11. buf' = <<>>
  BY DEF Handshakes!Judge
<1>12. WrongAhead'
  BY JudgesNoWrong DEF b
<1>13. Places(1, got)' = Places(1, g)
  <2>1. Handshakes!Whole' = Handshakes!Whole
    BY StaysTheSame
  <2> QED
    BY <2>1 DEF Places
<1>14. rest' = Places(1, g) /\ g >= 1 /\ (fit' = "cut" => g = 1)
  BY <1>2, <1>10 DEF b
<1>15. Reading'
  BY <1>10, <1>11, <1>13, <1>14 DEF Reading, OneRound, ReadsOn
<1>16. InTurn'
  BY <1>2, <1>10, KeepsTurns
<1>17. OpeningTypes'
  <2>1. /\ 0 \in 0 .. Handshakes!Rounds /\ 2 \in 1 .. Len(Handshakes!Reads(conv))
        /\ g \in Nat
    BY <1>2, SMTT(30)
  <2> QED
    BY <1>10, <2>1, StaysTyped
<1> QED
  BY <1>10, <1>12, <1>15, <1>16, <1>17 DEF OpeningInv, Understood

-----------------------------------------------------------------------------
(* What a read takes from the network, *)
LEMMA FirstPlaces ==
  ASSUME Handshakes!Length \in Nat, NEW h \in Nat, h <= Handshakes!Length,
         NEW g \in Nat, g <= h, NEW n \in Nat, 1 <= n, n <= Len(Places(g + 1, h))
  PROVE  /\ SubSeq(Places(g + 1, h), 1, n) = Places(g + 1, g + n)
         /\ Len(Places(g + 1, g + n)) = n
         /\ g < g + n /\ g + n <= h
<1>1. PICK m \in Nat \ {0} : m = g + 1
  OBVIOUS
<1>2. 1 \in Nat \ {0} /\ m <= h + 1 /\ n <= Len(Places(m, h))
  BY <1>1
<1>3. SubSeq(Places(m, h), 1, n) = Places((m + 1) - 1, (m + n) - 1)
  BY <1>2, SubPlaces, ZenonT(60)
<1>4. Len(Places(m, h)) = (h - m) + 1
  BY <1>2, SomePlaces
<1>5. (m + 1) - 1 = m /\ (m + n) - 1 = g + n /\ g + n <= h /\ g + n \in Nat
      /\ m <= (g + n) + 1 /\ ((g + n) - m) + 1 = n
  BY <1>1, <1>2, <1>4
<1>6. Len(Places(m, g + n)) = ((g + n) - m) + 1
  <2>1. g + n <= Handshakes!Length
    BY <1>5
  <2> QED
    BY <1>5, <2>1, SomePlaces
<1>7. SubSeq(Places(m, h), 1, n) = Places(m, g + n)
  BY <1>3, <1>5
<1> QED
  BY <1>1, <1>5, <1>6, <1>7

LEMMA PieceOfNetwork ==
  ASSUME OpeningTypes, rest = <<>>, NEW piece \in Handshakes!Pieces
  PROVE  \E g \in Nat : /\ got < g /\ g <= sent /\ piece = Places(got + 1, g)
                        /\ Len(piece) = g - got
<1>1. /\ conv \in Convs /\ got \in Nat /\ sent \in Nat /\ got <= sent
      /\ sent <= Handshakes!Length
  BY DEF OpeningTypes
<1>2. Handshakes!Length \in Nat
  BY <1>1, LengthsAre
<1>3. Handshakes!Arrived = Places(got + 1, sent)
  BY DEF Handshakes!Arrived, Places
<1>4. PICK n \in 1 .. Len(Handshakes!Arrived) : piece = SubSeq(Handshakes!Arrived, 1, n)
  BY DEF Handshakes!Pieces
<1>5. n \in Nat /\ 1 <= n /\ n <= Len(Places(got + 1, sent))
  <2>1. Len(Places(got + 1, sent)) \in Nat
    <3>1. got + 1 \in Nat \ {0}
      BY <1>1
    <3> QED
      BY <1>1, <1>2, <3>1, PlacesAre
  <2> QED
    BY <1>3, <1>4, <2>1
<1>6. /\ SubSeq(Places(got + 1, sent), 1, n) = Places(got + 1, got + n)
      /\ Len(Places(got + 1, got + n)) = n
      /\ got < got + n /\ got + n <= sent
  BY <1>1, <1>2, <1>5, FirstPlaces
<1>7. got + n \in Nat /\ (got + n) - got = n
  BY <1>1, <1>5
<1> QED
  BY <1>3, <1>4, <1>6, <1>7

(* and from what an earlier round left. *)
LEMMA PieceOfRest ==
  ASSUME rest \in Seq(Nat), rest # <<>>, NEW piece \in Handshakes!Pieces
  PROVE  piece = rest
<1>1. piece = SubSeq(rest, 1, Len(rest))
  BY DEF Handshakes!Pieces, Handshakes!Arrived
<1> QED
  BY <1>1, SubSeqFull

(* Whether a read ended inside, at, or after a round. *)
LEMMA TakenIs ==
  ASSUME NEW piece, Handshakes!Taken(piece), NEW g \in Nat, got' = g,
         NEW e \in Nat, e = Handshakes!End(answered + 1), fit \in {"cut", "exact", "over"}
  PROVE  /\ fit' \in {"cut", "exact", "over"}
         /\ fit = "cut" => fit' = "cut"
         /\ fit' # "cut" => g >= e
         /\ fit # "cut" => /\ fit' = "cut" <=> g < e
                           /\ fit' = "over" <=> e < g
<1>1. fit' = IF fit = "cut" \/ g < e
             THEN "cut"
             ELSE IF g = e THEN "exact" ELSE "over"
  BY DEF Handshakes!Taken
<1> QED
  BY <1>1

LEMMA KeepsReadOnce ==
  ASSUME OpeningInv, Handshakes!Read, Handshakes!ReadOnce
  PROVE  OpeningInv'
<1>1. /\ OpeningTypes /\ Reading /\ verdict = "none" /\ UNCHANGED <<conv, wrong, sent, out>>
      /\ InTurn
  BY DEF OpeningInv, Handshakes!Read
<1>2. conv \notin ReadsOn
  BY DEF Handshakes!ReadOnce, ReadsOn
<1>3. PICK piece \in Handshakes!Pieces : Handshakes!Taken(piece) /\ Handshakes!Judge(piece)
  BY DEF Handshakes!ReadOnce
<1>4. /\ got' = IF rest # <<>> THEN got ELSE got + Len(piece)
      /\ out = <<>> /\ got \in Nat /\ sent \in Nat /\ got <= sent /\ conv \in Convs
      /\ fit \in {"cut", "exact", "over"} /\ sent <= Handshakes!Length
      /\ stage \in 1 .. Len(Handshakes!Reads(conv))
  BY <1>1, <1>3 DEF Handshakes!Taken, Reading, OpeningTypes
<1>5. Handshakes!Length \in Nat
  BY <1>4, LengthsAre
<1>6. ASSUME Nothing, NEW e \in Nat, e = Handshakes!End(1)
      PROVE  \E g \in Nat \ {0} :
               /\ piece = Places(1, g) /\ got' = g /\ g <= sent
               /\ fit' \in {"cut", "exact", "over"} /\ (fit' # "cut" => g >= e)
               /\ fit' = "cut" <=> g < e
               /\ answered = 0 /\ heap = <<>>
  <2>1. /\ got = 0 /\ answered = 0 /\ rest = <<>> /\ heap = <<>> /\ fit # "cut"
    BY <1>6 DEF Nothing
  <2>2. PICK g \in Nat : /\ got < g /\ g <= sent /\ piece = Places(got + 1, g)
                         /\ Len(piece) = g - got
    BY <1>1, <2>1, PieceOfNetwork
  <2>3. got' = g /\ g # 0 /\ got + 1 = 1 /\ answered + 1 = 1
    BY <1>4, <2>1, <2>2
  <2>4. /\ fit' \in {"cut", "exact", "over"} /\ (fit' # "cut" => g >= e)
        /\ fit' = "cut" <=> g < e
    BY <1>3, <1>4, <1>6, <2>1, <2>3, TakenIs
  <2> QED
    BY <2>1, <2>2, <2>3, <2>4
<1>7. CASE conv \in OneRound \ ReadsOn
  <2>1. Nothing
    BY <1>1, <1>7 DEF Reading
  <2>2. Handshakes!End(1) \in Nat
    BY <1>7, OneRoundIs
  <2>3. PICK g \in Nat \ {0} :
               /\ piece = Places(1, g) /\ got' = g /\ g <= sent
               /\ fit' \in {"cut", "exact", "over"} /\ (fit' # "cut" => g >= Handshakes!End(1))
               /\ answered = 0 /\ heap = <<>>
    BY <1>6, <2>1, <2>2
  <2>4. conv \in OneRound \ {"ws"}
    BY <1>7 DEF ReadsOn
  <2> QED
    BY <1>1, <1>3, <1>4, <2>3, <2>4, JudgesOnce
<1>8. CASE conv = "shadowsocks_own"
  <2>1. Nothing
    BY <1>1, <1>8 DEF Reading
  <2>2. Handshakes!End(1) \in Nat
    BY <1>8, OwnIs
  <2>3. PICK g \in Nat \ {0} :
               /\ piece = Places(1, g) /\ got' = g /\ g <= sent
               /\ fit' \in {"cut", "exact", "over"}
               /\ answered = 0
    BY <1>6, <2>1, <2>2
  <2> QED
    BY <1>1, <1>3, <1>8, <2>3, JudgesOwn
<1>9. CASE conv = "preset" /\ stage = 1
  <2>1. Nothing
    BY <1>1, <1>9 DEF Reading
  <2>2. Handshakes!End(1) = 4 /\ 4 \in Nat
    BY <1>9, PresetIs
  <2>3. PICK g \in Nat \ {0} :
               /\ piece = Places(1, g) /\ got' = g /\ g <= sent
               /\ fit' \in {"cut", "exact", "over"} /\ (fit' # "cut" => g >= 4)
               /\ answered = 0
    BY <1>6, <2>1, <2>2
  <2> QED
    BY <1>1, <1>3, <1>4, <1>9, <2>3, JudgesPreset
<1>10. CASE conv = "preset" /\ stage = 2
  <2>1. /\ 2 <= got /\ heap = Places(1, got) /\ rest = Places(3, got) /\ answered = 0
        /\ got < 4 => fit = "cut"
    BY <1>1, <1>4, <1>10 DEF Reading
  <2>2. Handshakes!End(1) = 4 /\ 4 \in Nat /\ answered + 1 = 1
    BY <1>10, <2>1, PresetIs
  <2>3. CASE got = 2
    <3>1. rest = <<>>
      <4>1. got + 1 = 3 /\ got <= Handshakes!Length
        BY <1>4, <1>5, <2>3
      <4>2. Places(got + 1, got) = <<>>
        BY <1>4, <1>5, <4>1, NoPlaces
      <4> QED
        BY <2>1, <4>1, <4>2
    <3>2. PICK g \in Nat : /\ got < g /\ g <= sent /\ piece = Places(got + 1, g)
                           /\ Len(piece) = g - got
      BY <1>1, <3>1, PieceOfNetwork
    <3>3. got' = g /\ piece = Places(3, g) /\ 3 <= g /\ got <= g
      <4>1. got + 1 = 3 /\ got + (g - got) = g /\ 3 <= g
        BY <2>3, <3>2
      <4> QED
        BY <1>4, <3>1, <3>2, <4>1
    <3>4. fit' = "cut"
      <4>1. fit = "cut"
        BY <2>1, <2>3
      <4> QED
        BY <1>3, <4>1 DEF Handshakes!Taken
    <3> QED
      BY <1>1, <1>3, <1>4, <1>10, <2>1, <3>2, <3>3, <3>4, JudgesBehindPreset
  <2>4. CASE got # 2
    <3>1. 3 <= got /\ got <= Handshakes!Length
      BY <1>4, <1>5, <2>1, <2>4
    <3>2. rest \in Seq(Nat) /\ rest # <<>>
      <4>1. 3 \in Nat \ {0} /\ 3 <= got + 1 /\ (got - 3) + 1 # 0
        BY <1>4, <3>1
      <4>2. rest \in Seq(Nat) /\ Len(rest) = (got - 3) + 1
        BY <1>4, <1>5, <2>1, <3>1, <4>1, SomePlaces
      <4> QED
        BY <4>1, <4>2
    <3>3. piece = Places(3, got) /\ got' = got
      BY <1>4, <2>1, <3>2, PieceOfRest
    <3>4. fit' \in {"cut", "exact", "over"} /\ (fit' # "cut" => got >= 4)
      BY <1>3, <1>4, <2>2, <3>3, TakenIs
    <3> QED
      BY <1>1, <1>3, <1>4, <1>10, <2>1, <3>1, <3>3, <3>4, JudgesBehindPreset
  <2> QED
    BY <2>3, <2>4
<1>11. CASE conv = "socks5http" /\ stage = 1
  <2>1. Nothing
    BY <1>1, <1>11 DEF Reading
  <2>2. Handshakes!End(1) \in Nat
    BY <1>11, ClientIs
  <2>3. PICK g \in Nat \ {0} :
               /\ piece = Places(1, g) /\ got' = g /\ g <= sent
               /\ fit' \in {"cut", "exact", "over"}
               /\ fit' = "cut" <=> g < Handshakes!End(1)
               /\ answered = 0 /\ heap = <<>>
    BY <1>6, <2>1, <2>2
  <2> QED
    BY <1>1, <1>3, <1>4, <1>11, <2>3, JudgesHttpFirst
<1>12. CASE conv = "socks5http" /\ stage = 2
  <2>1. /\ 1 <= got /\ rest = Places(1, got) /\ answered = 0 /\ heap = <<>>
        /\ fit = "cut" => got = 1
    BY <1>1, <1>4, <1>12 DEF Reading
  <2>2. /\ Handshakes!End(0) = 0 /\ Handshakes!End(1) = 2 /\ 2 \in Nat /\ answered + 1 = 1
    BY <1>12, <2>1, ClientIs
  <2>3. rest \in Seq(Nat) /\ rest # <<>>
    <3>1. 1 \in Nat \ {0} /\ 1 <= got + 1 /\ (got - 1) + 1 # 0 /\ got <= Handshakes!Length
      BY <1>4, <1>5, <2>1
    <3>2. rest \in Seq(Nat) /\ Len(rest) = (got - 1) + 1
      BY <1>4, <1>5, <2>1, <3>1, SomePlaces
    <3> QED
      BY <3>1, <3>2
  <2>4. piece = Places(1, got) /\ got' = got
    BY <1>4, <2>1, <2>3, PieceOfRest
  <2>5. /\ fit' \in {"cut", "exact", "over"}
        /\ fit = "cut" => fit' = "cut"
        /\ fit # "cut" => /\ fit' = "cut" <=> got < 2
                          /\ fit' = "over" <=> 2 < got
    BY <1>3, <1>4, <2>2, <2>4, TakenIs
  <2>6. /\ fit' = "cut" <=> got < 2
        /\ fit' = "over" <=> 2 < got
    BY <1>4, <2>1, <2>5
  <2>7. /\ 1 \in 1 .. 3 /\ stage = 1 + 1 /\ 1 - 1 = 0 /\ answered = 1 - 1 /\ 0 + 1 = 1
        /\ Handshakes!End(1 - 1) < got /\ Handshakes!End(1 - 1) + 1 = 1
    BY <1>4, <1>12, <2>1, <2>2
  <2> QED
    BY <1>1, <1>3, <1>4, <1>12, <2>1, <2>2, <2>4, <2>5, <2>6, <2>7, JudgesSocks DEF Socks
<1>13. CASE conv \in Socks /\ ~(conv = "socks5http" /\ stage \in {1, 2})
  <2>1. PICK s \in 1 .. 3 : stage = IF conv = "socks5http" THEN s + 1 ELSE s
    <3>1. CASE conv = "socks5http"
      <4>1. Len(Handshakes!Reads(conv)) = 4
        BY <3>1, ServerRounds
      <4>2. stage \in 1 .. 4
        BY <1>4, <4>1
      <4>3. stage - 1 \in 1 .. 3 /\ stage = (stage - 1) + 1
        BY <1>13, <3>1, <4>2
      <4> QED
        BY <3>1, <4>3
    <3>2. CASE conv # "socks5http"
      <4>1. Len(Handshakes!Reads(conv)) = 3
        BY <1>13, <3>2, ServerRounds, RepliesAre DEF Socks
      <4>2. stage \in 1 .. 3
        BY <1>4, <4>1
      <4> QED
        BY <3>2, <4>2
    <3> QED
      BY <3>1, <3>2
  <2>2. answered = s - 1 /\ BetweenRounds
    <3>1. CASE conv = "socks5http"
      <4>1. stage > 2 /\ stage - 2 = s - 1
        BY <1>13, <2>1, <3>1
      <4> QED
        BY <1>1, <3>1, <4>1 DEF Reading
    <3>2. CASE conv # "socks5http"
      <4>1. conv \in {"socks5", "socks5_reply"} /\ stage = s
        BY <1>13, <2>1, <3>2 DEF Socks
      <4> QED
        BY <1>1, <4>1 DEF Reading
    <3> QED
      BY <3>1, <3>2
  <2>3. /\ got = Handshakes!End(s - 1) /\ rest = <<>> /\ heap = <<>> /\ fit # "cut"
    BY <2>2 DEF BetweenRounds
  <2>4. Handshakes!End(s) \in Nat /\ answered + 1 = s
    BY <1>13, <2>1, <2>2, RoundsOfThree
  <2>5. PICK g \in Nat : /\ got < g /\ g <= sent /\ piece = Places(got + 1, g)
                         /\ Len(piece) = g - got
    BY <1>1, <2>3, PieceOfNetwork
  <2>6. got' = g
    BY <1>4, <2>3, <2>5
  <2>7. /\ fit' \in {"cut", "exact", "over"}
        /\ fit' = "cut" <=> g < Handshakes!End(s)
        /\ fit' = "over" <=> Handshakes!End(s) < g
    BY <1>3, <1>4, <2>3, <2>4, <2>6, TakenIs
  <2>8. Handshakes!Judge(Places(Handshakes!End(s - 1) + 1, g)) /\ Handshakes!End(s - 1) < g
    BY <1>3, <2>3, <2>5
  <2> QED
    BY <1>1, <1>4, <1>13, <2>1, <2>2, <2>3, <2>5, <2>6, <2>7, <2>8, JudgesSocks
<1>14. \/ conv \in OneRound \ ReadsOn \/ conv = "shadowsocks_own"
       \/ conv = "preset" \/ conv \in Socks
  BY <1>2, <1>4, HandshakesAssumption DEF OneRound, Socks
<1>15. conv = "preset" => stage = 1 \/ stage = 2
  <2> SUFFICES ASSUME conv = "preset" PROVE stage = 1 \/ stage = 2
    OBVIOUS
  <2>1. Len(Handshakes!Reads(conv)) = 2
    BY PresetIs
  <2>2. stage \in 1 .. Len(Handshakes!Reads(conv))
    BY <1>4
  <2>3. stage \in 1 .. 2
    BY <2>1, <2>2
  <2> QED
    BY <2>3
<1> QED
  BY <1>7, <1>8, <1>9, <1>10, <1>11, <1>12, <1>13, <1>14, <1>15

(* Three conversations may need several reads for one round. *)
LEMMA ReadsOnFurther ==
  ASSUME OpeningTypes, Reading, conv \in ReadsOn, NEW piece \in Handshakes!Pieces
  PROVE  /\ answered = 0 /\ buf = Places(1, got) /\ rest = <<>> /\ out = <<>>
         /\ Handshakes!End(1) \in Nat /\ stage = 1
         /\ Handshakes!End(1) = Len(Handshakes!Fields)
         /\ \E g \in Nat \ {0} : /\ got < g /\ g <= sent /\ Len(piece) = g - got
                                 /\ piece = Places(got + 1, g)
                                 /\ buf \o piece = Places(1, g)
                                 /\ Len(buf \o piece) = g
<1>1. /\ answered = 0 /\ buf = Places(1, got) /\ rest = <<>> /\ out = <<>>
  BY DEF Reading
<1>2. /\ conv \in Convs /\ got \in Nat /\ sent \in Nat /\ got <= sent
      /\ sent <= Handshakes!Length /\ stage \in 1 .. Len(Handshakes!Reads(conv))
  BY DEF OpeningTypes
<1>3. conv \in OneRound
  BY DEF OneRound, ReadsOn
<1>4. /\ Handshakes!End(1) \in Nat /\ Len(Handshakes!Reads(conv)) = 1
      /\ Handshakes!End(1) = Len(Handshakes!Reads(conv)[1].fields)
  BY <1>3, OneRoundIs
<1>5. stage = 1
  <2>1. Len(Handshakes!Reads(conv)) = 1
    BY <1>4
  <2>2. stage \in 1 .. Len(Handshakes!Reads(conv))
    BY <1>2
  <2> QED
    BY <2>1, <2>2, OnlyOne
<1>6. PICK g \in Nat : /\ got < g /\ g <= sent /\ piece = Places(got + 1, g)
                       /\ Len(piece) = g - got
  BY <1>1, PieceOfNetwork
<1>7. Handshakes!Length \in Nat /\ g <= Handshakes!Length /\ g \in Nat \ {0}
  <2>1. Handshakes!Length \in Nat
    BY <1>2, LengthsAre
  <2> QED
    BY <1>2, <1>6, <2>1
<1>8. Places(1, got) \o Places(got + 1, g) = Places(1, g)
  <2>1. 1 \in Nat \ {0} /\ 1 <= got + 1 /\ got <= g
    BY <1>2, <1>6
  <2> QED
    BY <1>2, <1>7, <2>1, JoinPlaces
<1>9. buf \o piece = Places(1, g)
  BY <1>1, <1>6, <1>8
<1>10. Len(Places(1, g)) = g
  <2>1. 1 \in Nat \ {0} /\ 1 <= g + 1 /\ (g - 1) + 1 = g
    BY <1>7
  <2>2. Len(Places(1, g)) = (g - 1) + 1
    BY <1>7, <2>1, SomePlaces
  <2> QED
    BY <2>1, <2>2
<1> QED
  BY <1>1, <1>4, <1>5, <1>6, <1>7, <1>9, <1>10 DEF Handshakes!Fields

(* What has been read so far is held. *)
LEMMA HoldsOn ==
  ASSUME OpeningInv, conv \in ReadsOn, verdict = "none",
         UNCHANGED <<conv, wrong, sent, out, answered, stage, verdict, rest>>,
         NEW g \in Nat, got' = g, g <= sent, fit' \in {"cut", "exact", "over"},
         buf' = Places(1, g),
         conv \in {"trojan", "vmess_reply"} => UNCHANGED heap,
         conv = "ws" => g < 4 /\ heap' = buf' /\ fit' = "cut"
  PROVE  OpeningInv'
<1>1. /\ OpeningTypes /\ Reading /\ InTurn /\ WrongAhead
  BY DEF OpeningInv
<1>2. /\ answered \in 0 .. Handshakes!Rounds /\ stage \in 1 .. Len(Handshakes!Reads(conv))
      /\ conv \in Convs
  BY <1>1 DEF OpeningTypes
<1>3. OpeningTypes'
  BY <1>2, StaysTyped
<1>4. InTurn'
  <2>1. answered \in Nat /\ answered <= Handshakes!Rounds /\ answered <= answered
    BY <1>2, LengthsAre
  <2> QED
    BY <2>1, KeepsTurns
<1>5. Places(1, got)' = Places(1, g)
  <2>1. Handshakes!Whole' = Handshakes!Whole
    BY StaysTheSame
  <2> QED
    BY <2>1 DEF Places
<1>6. Reading'
  BY <1>1, <1>5 DEF Reading, OneRound, ReadsOn
<1>7. WrongAhead'
  BY <1>1 DEF WrongAhead
<1> QED
  BY <1>3, <1>4, <1>6, <1>7 DEF OpeningInv, Understood

LEMMA KeepsReadLine ==
  ASSUME OpeningInv, Handshakes!Read, Handshakes!ReadLine
  PROVE  OpeningInv'
<1>1. /\ OpeningTypes /\ Reading /\ verdict = "none" /\ UNCHANGED <<conv, wrong, sent, out>>
  BY DEF OpeningInv, Handshakes!Read
<1>2. conv = "trojan" /\ conv \in ReadsOn
  BY DEF Handshakes!ReadLine, ReadsOn
<1>3. PICK piece \in Handshakes!Pieces :
        /\ Handshakes!Taken(piece)
        /\ \/ Handshakes!Judge(buf \o piece)
           \/ /\ buf' = buf \o piece
              /\ UNCHANGED <<answered, stage, heap, verdict, rest>>
  BY DEF Handshakes!ReadLine
<1>4. /\ answered = 0 /\ rest = <<>> /\ out = <<>> /\ Handshakes!End(1) \in Nat
  BY <1>1, <1>2, ReadsOnFurther
<1>5. PICK g \in Nat \ {0} : /\ got < g /\ g <= sent /\ Len(piece) = g - got
                             /\ buf \o piece = Places(1, g)
  BY <1>1, <1>2, ReadsOnFurther
<1>6. got' = g
  <2>1. got' = got + Len(piece) /\ got \in Nat
    BY <1>1, <1>3, <1>4 DEF Handshakes!Taken, OpeningTypes
  <2> QED
    BY <1>5, <2>1
<1>7. fit' \in {"cut", "exact", "over"} /\ (fit' # "cut" => g >= Handshakes!End(1))
  <2>1. answered + 1 = 1 /\ fit \in {"cut", "exact", "over"} /\ g \in Nat
    BY <1>1, <1>4 DEF OpeningTypes
  <2> QED
    BY <1>3, <1>4, <1>6, <2>1, TakenIs
<1>8. CASE Handshakes!Judge(buf \o piece)
  <2>1. heap = <<>> /\ conv \in OneRound \ {"ws"}
    BY <1>1, <1>2 DEF Reading, OneRound
  <2> QED
    BY <1>1, <1>4, <1>5, <1>6, <1>7, <1>8, <2>1, JudgesOnce
<1>9. CASE buf' = buf \o piece /\ UNCHANGED <<answered, stage, heap, verdict, rest>>
  BY <1>1, <1>2, <1>5, <1>6, <1>7, <1>9, HoldsOn
<1> QED
  BY <1>3, <1>8, <1>9

LEMMA KeepsReadFull ==
  ASSUME OpeningInv, Handshakes!Read, Handshakes!ReadFull
  PROVE  OpeningInv'
<1>1. /\ OpeningTypes /\ Reading /\ verdict = "none" /\ UNCHANGED <<conv, wrong, sent, out>>
  BY DEF OpeningInv, Handshakes!Read
<1>2. conv = "vmess_reply" /\ conv \in ReadsOn
  BY DEF Handshakes!ReadFull, ReadsOn
<1>3. PICK piece \in Handshakes!Pieces :
        /\ got' = got + Len(piece) /\ fit' = fit
        /\ \/ Len(buf \o piece) = Len(Handshakes!Fields) /\ Handshakes!Judge(buf \o piece)
           \/ /\ buf' = buf \o piece
              /\ UNCHANGED <<answered, stage, heap, verdict, rest>>
  BY DEF Handshakes!ReadFull
<1>4. /\ answered = 0 /\ out = <<>> /\ Handshakes!End(1) = Len(Handshakes!Fields)
      /\ Handshakes!End(1) \in Nat
  BY <1>1, <1>2, ReadsOnFurther
<1>5. PICK g \in Nat \ {0} : /\ got < g /\ g <= sent /\ Len(piece) = g - got
                             /\ buf \o piece = Places(1, g) /\ Len(buf \o piece) = g
  BY <1>1, <1>2, ReadsOnFurther
<1>6. got' = g /\ fit' \in {"cut", "exact", "over"}
  <2>1. got \in Nat /\ fit \in {"cut", "exact", "over"}
    BY <1>1 DEF OpeningTypes
  <2> QED
    BY <1>3, <1>5, <2>1
<1>7. CASE Len(buf \o piece) = Len(Handshakes!Fields) /\ Handshakes!Judge(buf \o piece)
  <2>1. heap = <<>> /\ conv \in OneRound \ {"ws"}
    BY <1>1, <1>2 DEF Reading, OneRound
  <2>2. g >= Handshakes!End(1)
    BY <1>4, <1>5, <1>7
  <2> QED
    BY <1>1, <1>4, <1>5, <1>6, <1>7, <2>1, <2>2, JudgesOnce
<1>8. CASE buf' = buf \o piece /\ UNCHANGED <<answered, stage, heap, verdict, rest>>
  BY <1>1, <1>2, <1>5, <1>6, <1>8, HoldsOn
<1> QED
  BY <1>3, <1>7, <1>8

(* The buffer after the second read of an upgrade: its length is twice     *)
(* that of the first.                                                      *)
LEMMA TwiceIs ==
  ASSUME Handshakes!Length \in Nat, NEW g \in Nat, g <= Handshakes!Length,
         NEW h \in Nat, h <= g, NEW piece, Len(Places(1, h)) = h,
         Places(1, h) \o piece = Places(1, g)
  PROVE  /\ Handshakes!Twice(Places(1, h), piece) \in Seq(Nat)
         /\ \A k \in 1 .. Len(Handshakes!Twice(Places(1, h), piece)) :
              Handshakes!Twice(Places(1, h), piece)[k] = IF k <= g THEN k ELSE 0
<1> DEFINE p == Places(1, g)
           z == [i \in 1 .. h |-> 0]
           all == p \o z
           b == SubSeq(all, 1, 2 * h)
<1>1. Handshakes!Twice(Places(1, h), piece) = b
  BY DEF Handshakes!Twice
<1>2. p \in Seq(Nat) /\ Len(p) = g /\ \A k \in 1 .. g : p[k] = k
  <2>1. 1 \in Nat \ {0} /\ 1 <= g + 1 /\ (g - 1) + 1 = g
    OBVIOUS
  <2>2. p \in Seq(Nat) /\ Len(p) = (g - 1) + 1 /\ \A k \in 1 .. Len(p) : p[k] = (1 + k) - 1
    BY <2>1, SomePlaces
  <2>3. \A k \in 1 .. g : (1 + k) - 1 = k
    OBVIOUS
  <2> QED
    BY <2>1, <2>2, <2>3
<1>3. z \in Seq(Nat) /\ Len(z) = h /\ \A k \in 1 .. h : z[k] = 0
  <2>1. \A i \in 1 .. h : 0 \in Nat
    OBVIOUS
  <2> QED
    BY <2>1, IsASeq
<1> HIDE DEF p, z
<1>4. /\ all \in Seq(Nat) /\ Len(all) = g + h
      /\ \A k \in 1 .. g + h : all[k] = IF k <= g THEN p[k] ELSE z[k - g]
  BY <1>2, <1>3, ConcatProperties
<1> HIDE DEF all
<1>5. \A k \in 1 .. g + h : all[k] = (IF k <= g THEN k ELSE 0) /\ all[k] \in Nat
  <2> SUFFICES ASSUME NEW k \in 1 .. g + h
               PROVE  all[k] = (IF k <= g THEN k ELSE 0) /\ all[k] \in Nat
    OBVIOUS
  <2>1. CASE k <= g
    BY <1>2, <1>4, <2>1
  <2>2. CASE ~(k <= g)
    <3>1. k - g \in 1 .. h
      BY <2>2
    <3> QED
      BY <1>3, <1>4, <2>2, <3>1
  <2> QED
    BY <2>1, <2>2
<1>6. 1 \in Int /\ 2 * h \in Int /\ \A i \in 1 .. 2 * h : i \in 1 .. g + h
  OBVIOUS
<1>7. \A i \in 1 .. 2 * h : all[i] \in Nat
  BY <1>5, <1>6
<1>8. /\ b \in Seq(Nat)
      /\ Len(b) = IF 1 <= 2 * h THEN (2 * h - 1) + 1 ELSE 0
      /\ \A i \in 1 .. (2 * h - 1) + 1 : b[i] = all[(1 + i) - 1]
  BY <1>6, <1>7, SubSeqProperties
<1> HIDE DEF b
<1>9. ASSUME NEW k \in 1 .. Len(b)
      PROVE  b[k] = IF k <= g THEN k ELSE 0
  <2>1. k \in 1 .. (2 * h - 1) + 1 /\ (1 + k) - 1 = k /\ k \in 1 .. g + h
    BY <1>8, <1>9
  <2> QED
    BY <1>5, <1>8, <2>1
<1> QED
  BY <1>1, <1>8, <1>9

LEMMA KeepsReadUpgrade ==
  ASSUME OpeningInv, Handshakes!Read, Handshakes!ReadUpgrade
  PROVE  OpeningInv'
<1>1. /\ OpeningTypes /\ Reading /\ verdict = "none" /\ UNCHANGED <<conv, wrong, sent, out>>
  BY DEF OpeningInv, Handshakes!Read
<1>2. conv = "ws" /\ conv \in ReadsOn
  BY DEF Handshakes!ReadUpgrade, ReadsOn
<1>3. PICK piece \in Handshakes!Pieces :
        /\ Handshakes!Taken(piece)
        /\ \/ /\ buf = <<>> /\ Len(piece) < Len(Handshakes!Fields)
              /\ buf' = piece /\ heap' = piece
              /\ UNCHANGED <<answered, stage, verdict, rest>>
           \/ buf = <<>> /\ Len(piece) >= Len(Handshakes!Fields) /\ Handshakes!Judge(piece)
           \/ buf # <<>> /\ Handshakes!Judge(Handshakes!Twice(buf, piece))
  BY DEF Handshakes!ReadUpgrade
<1>4. /\ answered = 0 /\ rest = <<>> /\ out = <<>> /\ buf = Places(1, got) /\ stage = 1
  BY <1>1, <1>2, ReadsOnFurther
<1>5. PICK g \in Nat \ {0} : /\ got < g /\ g <= sent /\ Len(piece) = g - got
                             /\ piece = Places(got + 1, g)
                             /\ buf \o piece = Places(1, g)
  BY <1>1, <1>2, ReadsOnFurther
<1>6. /\ got \in Nat /\ fit \in {"cut", "exact", "over"} /\ conv \in Convs /\ sent \in Nat
      /\ sent <= Handshakes!Length /\ got <= sent
  BY <1>1 DEF OpeningTypes
<1>7. got' = g
  <2>1. got' = got + Len(piece)
    BY <1>3, <1>4 DEF Handshakes!Taken
  <2> QED
    BY <1>5, <1>6, <2>1
<1>8. Len(Handshakes!Fields) = 4 /\ Handshakes!End(1) = 4
  BY <1>2, <1>4, UpgradeIs
<1>9. /\ fit' \in {"cut", "exact", "over"}
      /\ fit = "cut" => fit' = "cut"
      /\ fit' # "cut" => g >= 4
  <2>1. answered + 1 = 1 /\ g \in Nat /\ 4 \in Nat
    BY <1>4
  <2> QED
    BY <1>3, <1>6, <1>7, <1>8, <2>1, TakenIs
<1>10. /\ heap = buf /\ got < 4 /\ (got > 0 => fit = "cut")
  BY <1>1, <1>2 DEF Reading
<1>11. Handshakes!Length \in Nat /\ g <= Handshakes!Length /\ got <= Handshakes!Length
  <2>1. Handshakes!Length \in Nat
    BY <1>6, LengthsAre
  <2> QED
    BY <1>5, <1>6, <2>1
<1>12. Len(Places(1, got)) = got
  <2>1. 1 \in Nat \ {0} /\ 1 <= got + 1 /\ (got - 1) + 1 = got
    BY <1>6
  <2>2. Len(Places(1, got)) = (got - 1) + 1
    BY <1>6, <1>11, <2>1, SomePlaces
  <2> QED
    BY <2>1, <2>2
<1>13. ASSUME buf = <<>>
       PROVE  got = 0 /\ piece = Places(1, g) /\ Len(piece) = g
  <2>1. Len(Places(1, got)) = 0
    BY <1>4, <1>13
  <2>2. got = 0
    BY <1>12, <2>1
  <2>3. got + 1 = 1 /\ g - got = g
    BY <2>2
  <2> QED
    BY <1>5, <2>2, <2>3
<1>14. CASE /\ buf = <<>> /\ Len(piece) < Len(Handshakes!Fields)
            /\ buf' = piece /\ heap' = piece
            /\ UNCHANGED <<answered, stage, verdict, rest>>
  <2>1. g < 4 /\ fit' = "cut" /\ buf' = Places(1, g) /\ heap' = buf'
    BY <1>8, <1>9, <1>13, <1>14
  <2> QED
    BY <1>1, <1>2, <1>5, <1>7, <1>14, <2>1, HoldsOn
<1>15. CASE buf = <<>> /\ Len(piece) >= Len(Handshakes!Fields) /\ Handshakes!Judge(piece)
  <2>1. heap = <<>> /\ g >= 4 /\ Handshakes!Judge(Places(1, g))
    BY <1>8, <1>10, <1>13, <1>15
  <2>2. PICK b : b = Places(1, g)
    OBVIOUS
  <2>3. b \in Seq(Nat) /\ \A k \in 1 .. Len(b) : b[k] = IF k <= g THEN k ELSE 0
    <3>1. 1 \in Nat \ {0} /\ 1 <= g + 1 /\ (g - 1) + 1 = g /\ g \in Nat
      OBVIOUS
    <3>2. b \in Seq(Nat) /\ Len(b) = (g - 1) + 1 /\ \A k \in 1 .. Len(b) : b[k] = (1 + k) - 1
      BY <1>11, <2>2, <3>1, SomePlaces
    <3>3. \A k \in 1 .. Len(b) : (1 + k) - 1 = (IF k <= g THEN k ELSE 0)
      BY <3>1, <3>2
    <3> QED
      BY <3>2, <3>3
  <2> QED
    BY <1>1, <1>2, <1>4, <1>5, <1>7, <1>9, <2>1, <2>2, <2>3, JudgesUpgrade
<1>16. CASE buf # <<>> /\ Handshakes!Judge(Handshakes!Twice(buf, piece))
  <2>1. PICK b : b = Handshakes!Twice(Places(1, got), piece)
    OBVIOUS
  <2>2. b \in Seq(Nat) /\ \A k \in 1 .. Len(b) : b[k] = IF k <= g THEN k ELSE 0
    <3>1. Places(1, got) \o piece = Places(1, g) /\ got <= g /\ g \in Nat
      BY <1>4, <1>5, <1>6
    <3> QED
      BY <1>6, <1>11, <1>12, <2>1, <3>1, TwiceIs
  <2>3. heap # <<>> /\ fit' = "cut" /\ Handshakes!Judge(b)
    <3>1. got > 0
      <4>1. got # 0
        <5> SUFFICES ASSUME got = 0 PROVE FALSE
          OBVIOUS
        <5>1. Len(Places(1, got)) = 0
          BY <1>12
        <5>2. 0 + 1 = 1 /\ 0 <= Handshakes!Length /\ 0 \in Nat
          BY <1>11
        <5>3. Places(0 + 1, 0) = <<>>
          BY <1>11, <5>2, NoPlaces
        <5> QED
          BY <1>4, <1>16, <5>2, <5>3
      <4> QED
        BY <1>6, <4>1
    <3> QED
      BY <1>4, <1>9, <1>10, <1>16, <2>1, <3>1
  <2> QED
    BY <1>1, <1>2, <1>4, <1>5, <1>7, <1>9, <2>2, <2>3, JudgesUpgrade
<1> QED
  BY <1>3, <1>14, <1>15, <1>16

LEMMA KeepsRead ==
  ASSUME OpeningInv, Handshakes!Read
  PROVE  OpeningInv'
BY KeepsReadOnce, KeepsReadLine, KeepsReadFull, KeepsReadUpgrade DEF Handshakes!Read

(* Who falls back because the peer has gone away has only a part.          *)
LEMMA KeepsReadFails ==
  ASSUME OpeningInv, Handshakes!ReadFails
  PROVE  OpeningInv'
<1>1. /\ OpeningTypes /\ Reading /\ InTurn /\ WrongAhead /\ verdict = "none" /\ rest = <<>>
      /\ UNCHANGED <<conv, wrong, sent, got, answered, stage, heap, fit, out>>
  BY DEF OpeningInv, Handshakes!ReadFails
<1>2. /\ answered \in 0 .. Handshakes!Rounds /\ stage \in 1 .. Len(Handshakes!Reads(conv))
      /\ conv \in Convs /\ got \in Nat /\ got <= sent /\ fit \in {"cut", "exact", "over"}
      /\ sent <= Handshakes!Length /\ sent \in Nat
  BY <1>1 DEF OpeningTypes
<1>3. verdict' \in {"fallback", "broken"}
  BY DEF Handshakes!ReadFails
<1>4. OpeningTypes'
  BY <1>1, <1>2, <1>3, StaysTyped
<1>5. InTurn'
  <2>1. answered \in Nat /\ answered <= Handshakes!Rounds /\ answered <= answered
    BY <1>2, LengthsAre
  <2> QED
    BY <1>1, <2>1, KeepsTurns
<1>6. WrongAhead'
  BY <1>1, <1>3 DEF WrongAhead
<1>7. ASSUME verdict' = "fallback" PROVE Handshakes!Lossy' /\ fit' = "cut"
  <2>1. heap # <<>> /\ conv \in {"preset", "ws"}
    BY <1>7 DEF Handshakes!ReadFails
  <2>2. fit = "cut"
    <3>1. CASE conv = "preset"
      <4>1. stage = 1 \/ stage = 2
        <5>1. Len(Handshakes!Reads(conv)) = 2
          BY <3>1, PresetIs
        <5>2. stage \in 1 .. Len(Handshakes!Reads(conv))
          BY <1>2
        <5>3. stage \in 1 .. 2
          BY <5>1, <5>2
        <5> QED
          BY <5>3
      <4>2. stage # 1
        BY <1>1, <2>1, <3>1 DEF Reading, Nothing
      <4>3. /\ 2 <= got /\ rest = Places(3, got)
            /\ got < 4 => fit = "cut"
        BY <1>1, <1>2, <3>1, <4>1, <4>2 DEF Reading
      <4>4. got < 4
        <5> SUFFICES ASSUME got >= 4 PROVE FALSE
          BY <1>2
        <5>1. Handshakes!Length \in Nat /\ got <= Handshakes!Length
          <6>1. Handshakes!Length \in Nat
            BY <1>2, LengthsAre
          <6> QED
            BY <1>2, <6>1
        <5>2. 3 \in Nat \ {0} /\ 3 <= got + 1 /\ (got - 3) + 1 # 0
          BY <1>2
        <5>3. Len(rest) = (got - 3) + 1
          BY <1>2, <4>3, <5>1, <5>2, SomePlaces
        <5> QED
          BY <1>1, <5>2, <5>3
      <4> QED
        BY <4>3, <4>4
    <3>2. CASE conv = "ws"
      <4>1. buf = Places(1, got) /\ heap = buf /\ (got > 0 => fit = "cut")
        BY <1>1, <3>2 DEF Reading, ReadsOn
      <4>2. got # 0
        <5> SUFFICES ASSUME got = 0 PROVE FALSE
          OBVIOUS
        <5>1. Handshakes!Length \in Nat
          BY <1>2, LengthsAre
        <5>2. 0 + 1 = 1 /\ 0 <= Handshakes!Length /\ 0 \in Nat
          BY <5>1
        <5>3. Places(0 + 1, 0) = <<>>
          BY <5>1, <5>2, NoPlaces
        <5> QED
          BY <2>1, <4>1, <5>2, <5>3
      <4> QED
        BY <1>2, <4>1, <4>2
    <3> QED
      BY <2>1, <3>1, <3>2
  <2> QED
    BY <1>1, <1>7, <2>1, <2>2 DEF Handshakes!Lossy
<1>8. Understood'
  BY <1>3, <1>7 DEF Understood
<1> QED
  BY <1>3, <1>4, <1>5, <1>6, <1>7, <1>8 DEF OpeningInv

-----------------------------------------------------------------------------
(* The writer does not disturb the reader, *)
LEMMA ReaderStays ==
  ASSUME OpeningInv,
         UNCHANGED <<conv, wrong, got, answered, stage, buf, heap, fit, verdict, rest, out>>,
         NEW n \in Nat, sent' = n, sent <= n, n <= Handshakes!Length, InTurn',
         Drained => n = sent
  PROVE  OpeningInv'
<1>1. /\ OpeningTypes /\ WrongAhead /\ Understood
      /\ verdict = "none" => Reading
      /\ verdict \in {"accepted", "fallback"} /\ ~Handshakes!Lossy => Handing
  BY DEF OpeningInv
<1>2. /\ Handshakes!Length' = Handshakes!Length /\ Handshakes!Wrongs' = Handshakes!Wrongs
      /\ Handshakes!Rounds' = Handshakes!Rounds /\ Handshakes!Whole' = Handshakes!Whole
      /\ Handshakes!Body' = Handshakes!Body
      /\ \A r : Handshakes!End(r)' = Handshakes!End(r)
  BY StaysTheSame
<1>3. OpeningTypes'
  <2>1. /\ conv \in Convs /\ wrong \in {None} \cup Handshakes!Wrongs
        /\ got \in Nat /\ got <= n
        /\ answered \in 0 .. Handshakes!Rounds /\ stage \in 1 .. Len(Handshakes!Reads(conv))
        /\ fit \in {"cut", "exact", "over"}
        /\ verdict \in {"none", "accepted", "fallback", "refused", "broken"}
    BY <1>1 DEF OpeningTypes
  <2>2. Len(Handshakes!Reads(conv))' = Len(Handshakes!Reads(conv))
    OBVIOUS
  <2> QED
    BY <1>2, <2>1, <2>2 DEF OpeningTypes
<1>4. ASSUME verdict = "none" PROVE Reading'
  <2>1. Places(1, got)' = Places(1, got) /\ Places(3, got)' = Places(3, got)
    BY <1>2 DEF Places
  <2>2. Handshakes!End(answered)' = Handshakes!End(answered)
    BY DEF Handshakes!End
  <2>3. (Nothing' <=> Nothing) /\ (BetweenRounds' <=> BetweenRounds)
    BY <2>2 DEF Nothing, BetweenRounds
  <2>4. Reading
    BY <1>1, <1>4
  <2> QED
    BY <2>1, <2>3, <2>4 DEF Reading, OneRound, ReadsOn
<1>5. ASSUME verdict \in {"accepted", "fallback"}, ~Handshakes!Lossy' PROVE Handing'
  <2>1. Handshakes!Lossy' <=> Handshakes!Lossy
    BY DEF Handshakes!Lossy
  <2>2. Handing
    BY <1>1, <1>5, <2>1
  <2>3. Handshakes!Contract!Due' = Handshakes!Contract!Due
    BY <1>2 DEF Handshakes!Contract!Due
  <2>4. Giving(Handshakes!Contract!Due, Len(out), rest, got)'
          <=> Giving(Handshakes!Contract!Due, Len(out), rest, got)
    BY <1>2, <2>3 DEF Giving
  <2>5. Drained => Drained'
    BY <1>2 DEF Drained
  <2> QED
    BY <2>2, <2>4, <2>5 DEF Handing
<1>6. WrongAhead' /\ Understood'
  BY <1>1 DEF WrongAhead, Understood
<1> QED
  BY <1>3, <1>4, <1>5, <1>6 DEF OpeningInv

LEMMA OpeningStays ==
  ASSUME OpeningInv, UNCHANGED handshakeVars
  PROVE  OpeningInv'
<1>1. UNCHANGED <<conv, wrong, sent, got, answered, stage, buf, heap, fit, verdict, rest, out>>
  BY DEF handshakeVars
<1>2. sent \in Nat /\ sent <= Handshakes!Length /\ answered \in 0 .. Handshakes!Rounds
      /\ conv \in Convs
  BY DEF OpeningInv, OpeningTypes
<1>3. InTurn'
  <2>1. answered' \in Nat /\ answered <= answered' /\ answered' <= Handshakes!Rounds
    BY <1>1, <1>2, LengthsAre
  <2> QED
    BY <1>1, <2>1, KeepsTurns
<1>4. sent' = sent /\ sent <= sent /\ (Drained => sent = sent)
  BY <1>1, <1>2
<1> QED
  BY <1>1, <1>2, <1>3, <1>4, ReaderStays

(* and writes in its turn.                                                 *)
LEMMA WritesOn ==
  ASSUME OpeningInv, Handshakes!Write
  PROVE  /\ \E n \in Nat : sent' = n /\ sent <= n /\ n <= Handshakes!Length
         /\ Waiting => sent' <= Handshakes!End(answered + 1)
         /\ ~Drained
<1>1. /\ OpeningTypes /\ InTurn
  BY DEF OpeningInv
<1>2. /\ conv \in Convs /\ sent \in Nat /\ answered \in 0 .. Handshakes!Rounds
  BY <1>1 DEF OpeningTypes
<1>3. /\ Handshakes!Length \in Nat /\ Payload \in Nat \ {0}
      /\ Handshakes!Rounds \in {1, 3} /\ Handshakes!End(0) = 0
      /\ Handshakes!Length = Handshakes!End(Handshakes!Rounds) + Payload
  BY <1>2, LengthsAre
<1>4. /\ \A r \in 0 .. Handshakes!Rounds : Handshakes!End(r) \in Nat
      /\ \A r \in 0 .. Handshakes!Rounds, s \in 0 .. Handshakes!Rounds :
           r <= s => Handshakes!End(r) <= Handshakes!End(s)
      /\ Handshakes!Rounds = 3 => Handshakes!End(1) < Handshakes!End(3)
                                  /\ Handshakes!End(2) < Handshakes!End(3)
  BY <1>2, LengthsAre
<1>5. ASSUME Drained
      PROVE  conv = "ws" /\ Handshakes!Rounds = 1 /\ sent = 4 /\ answered = 0
  <2>1. conv = "ws" /\ got = Handshakes!End(1) /\ sent = got /\ answered = 0
    BY <1>5 DEF Drained
  <2>2. Handshakes!Rounds = 1 /\ Handshakes!End(1) = 4
    BY <2>1, UpgradeIs
  <2> QED
    BY <2>1, <2>2
<1>6. CASE Handshakes!WriteRound
  <2>1. PICK r \in 1 .. Handshakes!Rounds :
          /\ sent = Handshakes!End(r - 1)
          /\ r = 1 \/ answered >= r - 1
          /\ \/ sent' = Handshakes!End(r)
             \/ r = Handshakes!Rounds /\ conv \notin Handshakes!WaitsForAnswer
                /\ sent' = Handshakes!End(r) + 1
    BY <1>6 DEF Handshakes!WriteRound
  <2>2. /\ r - 1 \in 0 .. Handshakes!Rounds /\ r \in 0 .. Handshakes!Rounds /\ r - 1 <= r
        /\ Handshakes!Rounds \in 0 .. Handshakes!Rounds /\ r <= Handshakes!Rounds
        /\ r <= answered + 1 /\ answered \in Nat /\ r \in Nat
    BY <1>2, <1>3, <2>1
  <2>3. /\ Handshakes!End(r - 1) <= Handshakes!End(r)
        /\ Handshakes!End(r) <= Handshakes!End(Handshakes!Rounds)
        /\ Handshakes!End(r - 1) \in Nat /\ Handshakes!End(r) \in Nat
        /\ Handshakes!End(Handshakes!Rounds) \in Nat
    BY <1>4, <2>2
  <2>4. \E n \in Nat : sent' = n /\ sent <= n /\ n <= Handshakes!Length
    BY <1>3, <2>1, <2>3
  <2>5. ASSUME Waiting PROVE sent' <= Handshakes!End(answered + 1)
    <3>1. \/ answered + 1 < Handshakes!Rounds
          \/ answered + 1 = Handshakes!Rounds /\ conv \in Handshakes!WaitsForAnswer
      BY <2>5 DEF Waiting
    <3>2. answered + 1 \in 0 .. Handshakes!Rounds
      BY <1>2, <1>3, <3>1
    <3>3. Handshakes!End(r) <= Handshakes!End(answered + 1)
      BY <1>4, <2>2, <3>2
    <3>4. ~(r = Handshakes!Rounds /\ conv \notin Handshakes!WaitsForAnswer)
      BY <1>3, <2>2, <3>1
    <3> QED
      BY <2>1, <3>3, <3>4
  <2>6. ~Drained
    <3> SUFFICES ASSUME Drained PROVE FALSE
      OBVIOUS
    <3>1. Handshakes!Rounds = 1 /\ sent = 4
      BY <1>5
    <3>2. r = 1
      BY <2>1, <3>1
    <3>3. sent = Handshakes!End(0)
      BY <2>1, <3>2
    <3> QED
      BY <1>3, <3>1, <3>3
  <2> QED
    BY <2>4, <2>5, <2>6
<1>7. CASE Handshakes!WriteData
  <2>1. /\ sent \in Handshakes!End(Handshakes!Rounds) .. (Handshakes!Length - 1)
        /\ conv \in Handshakes!WaitsForAnswer => answered = Handshakes!Rounds
        /\ sent' = sent + 1
    BY <1>7 DEF Handshakes!WriteData
  <2>2. Handshakes!End(Handshakes!Rounds) \in Nat
    <3>1. Handshakes!Rounds \in 0 .. Handshakes!Rounds
      BY <1>3
    <3> QED
      BY <1>4, <3>1
  <2>3. \E n \in Nat : sent' = n /\ sent <= n /\ n <= Handshakes!Length
    BY <1>2, <1>3, <2>1, <2>2
  <2>4. ~Waiting
    <3> SUFFICES ASSUME Waiting PROVE FALSE
      OBVIOUS
    <3>1. sent <= Handshakes!End(answered + 1)
      BY <1>1 DEF InTurn
    <3>2. answered + 1 < Handshakes!Rounds
      BY <1>2, <1>3, <2>1 DEF Waiting
    <3>3. Handshakes!Rounds = 3 /\ (answered + 1 = 1 \/ answered + 1 = 2)
      BY <1>2, <1>3, <3>2
    <3>4. /\ Handshakes!End(answered + 1) < Handshakes!End(Handshakes!Rounds)
          /\ Handshakes!End(answered + 1) \in Nat
      <4>1. answered + 1 \in 0 .. Handshakes!Rounds
        BY <3>3
      <4> QED
        BY <1>4, <3>3, <4>1
    <3>5. Handshakes!End(Handshakes!Rounds) <= sent
      BY <2>1, <2>2
    <3> QED
      BY <1>2, <2>2, <3>1, <3>4, <3>5
  <2>5. ~Drained
    <3> SUFFICES ASSUME Drained PROVE FALSE
      OBVIOUS
    <3>1. conv = "ws" /\ Handshakes!Rounds = 1 /\ answered = 0
      BY <1>5
    <3>2. conv \in Handshakes!WaitsForAnswer
      BY <3>1 DEF Handshakes!WaitsForAnswer
    <3> QED
      BY <2>1, <3>1, <3>2
  <2> QED
    BY <2>3, <2>4, <2>5
<1> QED
  BY <1>6, <1>7 DEF Handshakes!Write

LEMMA KeepsWrite ==
  ASSUME OpeningInv, Handshakes!Write
  PROVE  OpeningInv'
<1>1. UNCHANGED <<conv, wrong, got, answered, stage, buf, heap, fit, verdict, rest, out>>
  BY DEF Handshakes!Write
<1>2. PICK n \in Nat : sent' = n /\ sent <= n /\ n <= Handshakes!Length
  BY WritesOn
<1>3. (Waiting => sent' <= Handshakes!End(answered + 1)) /\ ~Drained
  BY WritesOn
<1>4. InTurn'
  <2>1. Waiting' <=> Waiting
    BY <1>1 DEF Waiting, Handshakes!Rounds, Handshakes!WaitsForAnswer
  <2>2. Handshakes!End(answered + 1)' = Handshakes!End(answered + 1)
    BY <1>1 DEF Handshakes!End
  <2> QED
    BY <1>3, <2>1, <2>2 DEF InTurn
<1> QED
  BY <1>1, <1>2, <1>3, <1>4, ReaderStays

(* What has arrived is what is due next. *)
LEMMA ArrivedIsDue ==
  ASSUME OpeningTypes, rest \in Seq(Nat), NEW o \in Nat, NEW due, Giving(due, o, rest, got)
  PROVE  /\ Len(Handshakes!Arrived) \in Nat /\ o + Len(Handshakes!Arrived) <= Len(due)
         /\ \A k \in 1 .. Len(Handshakes!Arrived) :
              /\ Handshakes!Arrived[k] \in Nat /\ Handshakes!Arrived[k] <= sent
              /\ due[o + k] = Handshakes!Arrived[k]
         /\ rest = <<>> => Len(Handshakes!Arrived) = sent - got
<1>1. /\ conv \in Convs /\ got \in Nat /\ sent \in Nat /\ got <= sent
      /\ sent <= Handshakes!Length
  BY DEF OpeningTypes
<1>2. Handshakes!Length \in Nat
  BY <1>1, LengthsAre
<1>3. /\ Len(due) = (o + Len(rest)) + (Handshakes!Length - got)
      /\ \A k \in 1 .. Len(rest) : rest[k] <= got /\ due[o + k] = rest[k]
      /\ \A k \in 1 .. (Handshakes!Length - got) : due[(o + Len(rest)) + k] = got + k
  BY DEF Giving
<1>4. CASE rest # <<>>
  <2>1. Handshakes!Arrived = rest
    BY <1>4 DEF Handshakes!Arrived
  <2>2. Len(rest) \in Nat /\ \A k \in 1 .. Len(rest) : rest[k] \in Nat
    BY LenProperties
  <2>3. o + Len(rest) <= Len(due)
    BY <1>1, <1>2, <1>3, <2>2
  <2>4. \A k \in 1 .. Len(rest) : rest[k] <= sent
    BY <1>1, <1>3, <2>2
  <2> QED
    BY <1>3, <1>4, <2>1, <2>2, <2>3, <2>4
<1>5. CASE rest = <<>>
  <2>1. Handshakes!Arrived = Places(got + 1, sent)
    BY <1>5 DEF Handshakes!Arrived, Places
  <2>2. /\ Len(Places(got + 1, sent)) \in Nat /\ Len(Places(got + 1, sent)) = sent - got
        /\ \A k \in 1 .. Len(Places(got + 1, sent)) : Places(got + 1, sent)[k] = got + k
    <3>1. got + 1 \in Nat \ {0} /\ got + 1 <= sent + 1 /\ (sent - (got + 1)) + 1 = sent - got
      BY <1>1
    <3>2. /\ Len(Places(got + 1, sent)) \in Nat
          /\ Len(Places(got + 1, sent)) = (sent - (got + 1)) + 1
          /\ \A k \in 1 .. Len(Places(got + 1, sent)) :
               Places(got + 1, sent)[k] = ((got + 1) + k) - 1
      BY <1>1, <1>2, <3>1, SomePlaces
    <3>3. \A k \in 1 .. Len(Places(got + 1, sent)) : ((got + 1) + k) - 1 = got + k
      BY <1>1, <3>2
    <3> QED
      BY <3>1, <3>2, <3>3
  <2>3. Len(rest) = 0 /\ (o + Len(rest)) = o
    BY <1>5
  <2>4. \A k \in 1 .. (Handshakes!Length - got) : due[o + k] = got + k
    BY <1>3, <2>3
  <2>5. \A k \in 1 .. sent - got : /\ k \in 1 .. (Handshakes!Length - got)
                                   /\ got + k \in Nat /\ got + k <= sent
    BY <1>1, <1>2
  <2>6. o + (sent - got) <= Len(due)
    BY <1>1, <1>2, <1>3, <2>3
  <2> QED
    BY <2>1, <2>2, <2>4, <2>5, <2>6
<1> QED
  BY <1>4, <1>5

LEMMA KeepsGiveOn ==
  ASSUME OpeningInv, Handshakes!GiveOn
  PROVE  OpeningInv'
<1>1. /\ OpeningTypes /\ InTurn /\ WrongAhead /\ Understood
      /\ verdict \in {"accepted", "fallback"} /\ (~Handshakes!Lossy => Handing)
      /\ UNCHANGED <<conv, wrong, sent, answered, stage, buf, heap, fit, verdict>>
  BY DEF OpeningInv, Handshakes!GiveOn
<1>2. PICK n \in 1 .. Len(Handshakes!Arrived) :
        /\ out' = out \o SubSeq(Handshakes!Arrived, 1, n)
        /\ rest' = IF rest # <<>> THEN SubSeq(rest, n + 1, Len(rest)) ELSE rest
        /\ got' = IF rest # <<>> THEN got ELSE got + n
  BY DEF Handshakes!GiveOn
<1>3. /\ conv \in Convs /\ got \in Nat /\ sent \in Nat /\ got <= sent
      /\ sent <= Handshakes!Length /\ answered \in 0 .. Handshakes!Rounds
      /\ stage \in 1 .. Len(Handshakes!Reads(conv)) /\ fit \in {"cut", "exact", "over"}
  BY <1>1 DEF OpeningTypes
<1>4. Handshakes!Length \in Nat /\ Handshakes!Rounds \in {1, 3}
  BY <1>3, LengthsAre
<1>5. rest = <<>> => Len(Handshakes!Arrived) = sent - got
  <2> SUFFICES ASSUME rest = <<>>
               PROVE  Len(Handshakes!Arrived) = sent - got
    OBVIOUS
  <2>1. Handshakes!Arrived = Places(got + 1, sent)
    BY DEF Handshakes!Arrived, Places
  <2>2. got + 1 \in Nat \ {0} /\ got + 1 <= sent + 1 /\ (sent - (got + 1)) + 1 = sent - got
    BY <1>3
  <2>3. Len(Places(got + 1, sent)) = (sent - (got + 1)) + 1
    BY <1>3, <1>4, <2>2, SomePlaces
  <2> QED
    BY <2>1, <2>2, <2>3
<1>6. PICK g \in Nat : got' = g /\ g <= sent /\ g = IF rest # <<>> THEN got ELSE got + n
  <2>1. CASE rest # <<>>
    BY <1>2, <1>3, <2>1
  <2>2. CASE rest = <<>>
    <3>1. n \in Nat /\ n <= sent - got
      BY <1>2, <1>3, <1>5, <2>2
    <3> QED
      BY <1>2, <1>3, <2>2, <3>1
  <2> QED
    BY <2>1, <2>2
<1>7. OpeningTypes'
  BY <1>1, <1>3, <1>6, StaysTyped
<1>8. InTurn'
  <2>1. answered \in Nat /\ answered <= Handshakes!Rounds /\ answered <= answered
    BY <1>3, <1>4
  <2> QED
    BY <1>1, <2>1, KeepsTurns
<1>9. ASSUME ~Handshakes!Lossy' PROVE Handing'
  <2>1. ~Handshakes!Lossy
    BY <1>1, <1>9 DEF Handshakes!Lossy
  <2>2. Handing /\ out \in Seq(Nat) /\ rest \in Seq(Nat)
    BY <1>1, <2>1 DEF Handing
  <2>3. ~Drained
    <3> SUFFICES ASSUME Drained PROVE FALSE
      OBVIOUS
    <3>1. rest = <<>> /\ sent = got
      BY DEF Drained
    <3>2. Len(Handshakes!Arrived) = 0
      BY <1>3, <1>5, <3>1
    <3> QED
      BY <1>2, <3>2
  <2> DEFINE due == Handshakes!Contract!Due
             o == Len(out)
             s == SubSeq(Handshakes!Arrived, 1, n)
  <2>4. Giving(due, o, rest, got)
    BY <2>2, <2>3 DEF Handing
  <2>5. o \in Nat /\ Len(rest) \in Nat /\ \A k \in 1 .. Len(rest) : rest[k] \in Nat
    BY <2>2, LenProperties
  <2>6. Handshakes!Contract!Due' = due
    <3>1. Handshakes!Whole' = Handshakes!Whole /\ Handshakes!Body' = Handshakes!Body
      BY <1>1, StaysTheSame
    <3> QED
      BY <1>1, <3>1 DEF Handshakes!Contract!Due
  <2> HIDE DEF due
  <2>7. /\ Len(Handshakes!Arrived) \in Nat
        /\ \A k \in 1 .. Len(Handshakes!Arrived) : Handshakes!Arrived[k] \in Nat
    BY <1>1, <2>2, <2>4, <2>5, ArrivedIsDue
  <2>8. s \in Seq(Nat) /\ Len(s) = n
    <3>1. 1 \in Int /\ n \in Int /\ 1 <= n /\ (n - 1) + 1 = n
          /\ \A i \in 1 .. n : Handshakes!Arrived[i] \in Nat
      BY <2>7
    <3>2. s \in Seq(Nat) /\ Len(s) = IF 1 <= n THEN (n - 1) + 1 ELSE 0
      BY <3>1, SubSeqProperties
    <3> QED
      BY <3>1, <3>2
  <2> HIDE DEF s
  <2>9. out' \in Seq(Nat) /\ Len(out') = o + n
    BY <1>2, <2>2, <2>8, ConcatProperties DEF s
  <2> HIDE DEF o
  <2>10. /\ Len(due) = (o + Len(rest)) + (Handshakes!Length - got)
         /\ \A k \in 1 .. Len(rest) : rest[k] <= got /\ due[o + k] = rest[k]
         /\ \A k \in 1 .. (Handshakes!Length - got) : due[(o + Len(rest)) + k] = got + k
    BY <2>4 DEF Giving
  <2>11. /\ rest' \in Seq(Nat) /\ Len(due) = ((o + n) + Len(rest')) + (Handshakes!Length - g)
         /\ \A k \in 1 .. Len(rest') : rest'[k] <= g /\ due[(o + n) + k] = rest'[k]
         /\ \A k \in 1 .. (Handshakes!Length - g) : due[((o + n) + Len(rest')) + k] = g + k
    <3>1. CASE rest # <<>>
      <4>1. Handshakes!Arrived = rest /\ n \in Nat /\ 1 <= n /\ n <= Len(rest)
        BY <2>5, <3>1 DEF Handshakes!Arrived
      <4>2. rest' = SubSeq(rest, n + 1, Len(rest)) /\ g = got
        BY <1>2, <1>6, <3>1
      <4>3. n + 1 \in Int /\ Len(rest) \in Int /\ \A i \in (n + 1) .. Len(rest) : rest[i] \in Nat
        BY <2>5, <4>1
      <4>4. /\ rest' \in Seq(Nat)
            /\ Len(rest') = IF n + 1 <= Len(rest) THEN (Len(rest) - (n + 1)) + 1 ELSE 0
            /\ \A i \in 1 .. (Len(rest) - (n + 1)) + 1 : rest'[i] = rest[((n + 1) + i) - 1]
        BY <4>2, <4>3, SubSeqProperties
      <4>5. PICK l \in Nat : l = Len(rest')
        BY <4>4, LenProperties
      <4>6. l = Len(rest) - n
        BY <2>5, <4>1, <4>4, <4>5
      <4>7. ASSUME NEW k \in 1 .. l PROVE rest'[k] <= g /\ due[(o + n) + k] = rest'[k]
        <5>1. /\ k \in 1 .. (Len(rest) - (n + 1)) + 1 /\ ((n + 1) + k) - 1 = n + k
              /\ n + k \in 1 .. Len(rest) /\ (o + n) + k = o + (n + k)
          BY <2>5, <4>1, <4>6, <4>7 DEF o
        <5>2. rest'[k] = rest[n + k]
          BY <4>4, <5>1
        <5> QED
          BY <2>10, <4>2, <5>1, <5>2
      <4>8. /\ (o + n) + l = o + Len(rest)
        BY <2>5, <4>1, <4>6 DEF o
      <4> QED
        BY <2>10, <4>2, <4>4, <4>5, <4>7, <4>8
    <3>2. CASE rest = <<>>
      <4>1. rest' = <<>> /\ g = got + n /\ Len(rest) = 0 /\ Len(rest') = 0
            /\ <<>> \in Seq(Nat)
        BY <1>2, <1>6, <3>2
      <4>2. n \in Nat /\ n <= Handshakes!Length - got
        BY <1>3, <1>4, <1>5, <3>2
      <4>3. o \in Nat
        BY <2>5 DEF o
      <4>4. /\ (o + 0) = o /\ (o + n) + 0 = o + n
            /\ o + (Handshakes!Length - got) = (o + n) + (Handshakes!Length - g)
        BY <1>3, <1>4, <4>1, <4>2, <4>3
      <4>5. ASSUME NEW k \in 1 .. (Handshakes!Length - g) PROVE due[(o + n) + k] = g + k
        <5>1. /\ n + k \in 1 .. (Handshakes!Length - got) /\ (o + n) + k = o + (n + k)
              /\ got + (n + k) = g + k
          BY <1>3, <1>4, <4>1, <4>2, <4>3, <4>5
        <5>2. due[o + (n + k)] = got + (n + k)
          BY <2>10, <4>1, <4>4, <5>1
        <5> QED
          BY <5>1, <5>2
      <4>6. /\ rest' \in Seq(Nat)
            /\ Len(due) = ((o + n) + Len(rest')) + (Handshakes!Length - g)
        BY <2>10, <4>1, <4>4
      <4>7. ((o + n) + Len(rest')) = o + n
        BY <4>1, <4>4
      <4> QED
        BY <4>1, <4>5, <4>6, <4>7
    <3> QED
      BY <3>1, <3>2
  <2>12. Giving(due, Len(out'), rest', got')
    BY <1>6, <2>9, <2>11 DEF Giving
  <2>13. Giving(Handshakes!Contract!Due, Len(out), rest, got)'
           <=> Giving(Handshakes!Contract!Due', Len(out'), rest', got')
    <3>1. Handshakes!Length' = Handshakes!Length
      BY <1>1, StaysTheSame
    <3> QED
      BY <3>1 DEF Giving
  <2> QED
    BY <2>6, <2>9, <2>11, <2>12, <2>13 DEF Handing
<1>10. WrongAhead' /\ Understood'
  BY <1>1 DEF WrongAhead, Understood
<1> QED
  BY <1>1, <1>7, <1>8, <1>9, <1>10 DEF OpeningInv

LEMMA OpeningStart ==
  ASSUME Handshakes!Init
  PROVE  OpeningInv
<1>1. /\ conv \in Convs /\ wrong \in {None} \cup Handshakes!Wrongs /\ sent = 0 /\ got = 0
      /\ answered = 0 /\ stage = 1 /\ buf = <<>> /\ heap = <<>> /\ fit = "exact"
      /\ verdict = "none" /\ rest = <<>> /\ out = <<>>
  BY DEF Handshakes!Init
<1>2. /\ Handshakes!Length \in Nat /\ Handshakes!Rounds \in {1, 3} /\ Handshakes!End(0) = 0
      /\ \A r \in 0 .. Handshakes!Rounds : Handshakes!End(r) \in Nat
      /\ Len(Handshakes!Reads(conv)) \in {1, 2, 3, 4}
  BY <1>1, LengthsAre
<1>3. OpeningTypes
  <2>1. /\ sent \in Nat /\ got \in Nat /\ got <= sent /\ sent <= Handshakes!Length
        /\ answered \in 0 .. Handshakes!Rounds
    BY <1>1, <1>2
  <2>2. stage \in 1 .. Len(Handshakes!Reads(conv))
    BY <1>1, <1>2, SMTT(30)
  <2> QED
    BY <1>1, <2>1, <2>2 DEF OpeningTypes
<1>4. InTurn
  <2>1. Waiting => answered + 1 \in 0 .. Handshakes!Rounds
    BY <1>1, <1>2 DEF Waiting
  <2>2. Waiting => Handshakes!End(answered + 1) \in Nat
    BY <1>2, <2>1
  <2> QED
    BY <1>1, <2>2 DEF InTurn
<1>5. Reading
  <2>1. Nothing
    BY <1>1 DEF Nothing
  <2>2. BetweenRounds
    BY <1>1, <1>2 DEF BetweenRounds
  <2>3. Places(1, got) = <<>>
    <3>1. 0 \in Nat /\ 0 <= Handshakes!Length /\ 0 + 1 = 1
      BY <1>2
    <3>2. Places(0 + 1, 0) = <<>>
      BY <1>2, <3>1, NoPlaces
    <3> QED
      BY <1>1, <3>1, <3>2
  <2> QED
    BY <1>1, <2>1, <2>2, <2>3 DEF Reading
<1>6. WrongAhead
  <2>1. wrong # None => wrong[1] >= 1
    <3> SUFFICES ASSUME wrong # None PROVE wrong[1] >= 1
      OBVIOUS
    <3>1. wrong[1] \in 1 .. Len(Handshakes!Reads(conv))
      BY <1>1, WrongIs
    <3> QED
      BY <1>2, <3>1
  <2> QED
    BY <1>1, <2>1 DEF WrongAhead
<1> QED
  BY <1>1, <1>3, <1>4, <1>5, <1>6 DEF OpeningInv, Understood

LEMMA OpeningStep ==
  ASSUME OpeningInv, [Next]_vars
  PROVE  OpeningInv'
<1>1. CASE Of("handshake", Handshakes!Next)
  <2>1. Handshakes!Next
    BY <1>1 DEF Of
  <2> QED
    BY <2>1, KeepsWrite, KeepsRead, KeepsReadFails, KeepsGiveOn DEF Handshakes!Next
<1>2. CASE UNCHANGED vars
  BY <1>2, OpeningStays DEF vars
<1>3. CASE \/ Of("packets", PacketStream!Next) \/ Of("lazy", TlsLazy!Next)
           \/ Of("copy", Copy!Next) \/ Of("frames", Frames!Next)
           \/ Of("socks5udp", Socks5UDP!Next) \/ Of("shadow", ShadowTls!Next)
  <2>1. UNCHANGED handshakeVars
    BY <1>3 DEF Of
  <2> QED
    BY <2>1, OpeningStays
<1> QED
  BY <1>1, <1>2, <1>3 DEF Next

LEMMA OpeningHolds == Spec => []OpeningInv
<1>1. Init => OpeningInv
  BY OpeningStart DEF Init
<1>2. OpeningInv /\ [Next]_vars => OpeningInv'
  BY OpeningStep
<1> QED
  BY <1>1, <1>2, PTL DEF Spec

(* No request with a wrong value is accepted, in whichever round and field *)
(* the value is, and a request that is right and was not cut inside one of *)
(* its rounds is not refused, for every protocol and any cuts between the  *)
(* reads (Handshake of the clients and servers).                           *)
THEOREM RequestsUnderstood == Spec => []RequestUnderstood
<1>1. OpeningInv => RequestUnderstood
  BY DEF OpeningInv, WrongAhead, Understood, RequestUnderstood, Handshakes!RequestUnderstood
<1> QED
  BY <1>1, OpeningHolds, PTL

-----------------------------------------------------------------------------
(* The refinement, step by step.                                           *)
LEMMA StartsAsDue ==
  ASSUME Handshakes!Init
  PROVE  Handshakes!Contract!Init
BY DEF Handshakes!Init, Handshakes!Contract!Init, Handshakes!Lossy

LEMMA NotLossyBefore ==
  ASSUME verdict = "none"
  PROVE  Handshakes!Lossy = FALSE
BY DEF Handshakes!Lossy

(* A write is a write, or nothing: the client of shadowsocks writes an     *)
(* empty request.                                                          *)
LEMMA WritesAsDue ==
  ASSUME OpeningInv, Handshakes!Write
  PROVE  Handshakes!Contract!Write \/ UNCHANGED Handshakes!Contract!vars
<1>1. UNCHANGED <<conv, wrong, got, answered, stage, buf, heap, fit, verdict, rest, out>>
  BY DEF Handshakes!Write
<1>2. PICK n \in Nat : sent' = n /\ sent <= n /\ n <= Handshakes!Length
  BY WritesOn
<1>3. Handshakes!Whole' = Handshakes!Whole /\ Handshakes!Body' = Handshakes!Body
  BY <1>1, StaysTheSame
<1>4. Handshakes!Lossy' = Handshakes!Lossy
  BY <1>1 DEF Handshakes!Lossy
<1>5. conv \in Convs /\ sent \in Nat
  BY DEF OpeningInv, OpeningTypes
<1>6. Handshakes!Length \in Nat /\ Len(Handshakes!Whole) = Handshakes!Length
  <2>1. Handshakes!Length \in Nat
    BY <1>5, LengthsAre
  <2> QED
    BY <2>1 DEF Handshakes!Whole
<1>7. CASE sent' = sent
  BY <1>1, <1>3, <1>4, <1>7 DEF Handshakes!Contract!vars
<1>8. CASE sent' # sent
  <2>1. sent' \in (sent + 1) .. Len(Handshakes!Whole)
    BY <1>2, <1>5, <1>6, <1>8
  <2> QED
    BY <1>1, <1>3, <1>4, <2>1 DEF Handshakes!Contract!Write
<1> QED
  BY <1>7, <1>8

(* A read, or its failure, judges, or goes on, or leaves the contract.     *)
LEMMA ReadsAsDue ==
  ASSUME OpeningInv, OpeningInv', Handshakes!Read \/ Handshakes!ReadFails
  PROVE  \/ Handshakes!Contract!Judge \/ Handshakes!Contract!Leave
         \/ UNCHANGED Handshakes!Contract!vars
<1>1. verdict = "none" /\ UNCHANGED <<conv, sent, out>>
  BY DEF Handshakes!Read, Handshakes!ReadFails
<1>2. Handshakes!Whole' = Handshakes!Whole /\ Handshakes!Body' = Handshakes!Body
  BY <1>1, StaysTheSame
<1>3. Handshakes!Lossy = FALSE
  BY <1>1, NotLossyBefore
<1>4. verdict' \in {"none", "accepted", "fallback", "refused", "broken"}
  BY DEF OpeningInv, OpeningTypes
<1>5. CASE Handshakes!Lossy'
  BY <1>2, <1>5 DEF Handshakes!Contract!Leave
<1>6. CASE ~Handshakes!Lossy'
  <2>1. Handshakes!Lossy' = Handshakes!Lossy
    <3>1. Handshakes!Lossy' = FALSE
      BY <1>6 DEF Handshakes!Lossy
    <3> QED
      BY <1>3, <3>1
  <2>2. CASE verdict' = "none"
    BY <1>1, <1>2, <2>1, <2>2 DEF Handshakes!Contract!vars
  <2>3. CASE verdict' # "none"
    BY <1>1, <1>2, <1>4, <2>1, <2>3 DEF Handshakes!Contract!Judge,
       Handshakes!Contract!Verdicts
  <2> QED
    BY <2>2, <2>3
<1> QED
  BY <1>5, <1>6

(* What is given on is what is due next, and written.                      *)
LEMMA GivesAsDue ==
  ASSUME OpeningInv, Handshakes!GiveOn
  PROVE  Handshakes!Contract!GiveOn \/ Handshakes!Contract!Leave
<1>1. /\ OpeningTypes /\ verdict \in {"accepted", "fallback"}
      /\ (~Handshakes!Lossy => Handing)
      /\ UNCHANGED <<conv, wrong, sent, answered, stage, buf, heap, fit, verdict>>
  BY DEF OpeningInv, Handshakes!GiveOn
<1>2. PICK n \in 1 .. Len(Handshakes!Arrived) :
        out' = out \o SubSeq(Handshakes!Arrived, 1, n)
  BY DEF Handshakes!GiveOn
<1>3. Handshakes!Whole' = Handshakes!Whole /\ Handshakes!Body' = Handshakes!Body
  BY <1>1, StaysTheSame
<1>4. Handshakes!Lossy' = Handshakes!Lossy
  BY <1>1 DEF Handshakes!Lossy
<1>5. CASE Handshakes!Lossy
  BY <1>3, <1>4, <1>5 DEF Handshakes!Contract!Leave
<1>6. CASE ~Handshakes!Lossy
  <2> DEFINE due == Handshakes!Contract!Due
             o == Len(out)
  <2>1. out \in Seq(Nat) /\ rest \in Seq(Nat) /\ (Drained \/ Giving(due, o, rest, got))
    BY <1>1, <1>6 DEF Handing
  <2>2. o \in Nat
    BY <2>1, LenProperties
  <2>3. ~Drained
    <3> SUFFICES ASSUME Drained PROVE FALSE
      OBVIOUS
    <3>1. rest = <<>> /\ sent = got
      BY DEF Drained
    <3>2. got \in Nat /\ sent <= Handshakes!Length /\ conv \in Convs
      BY <1>1 DEF OpeningTypes
    <3>3. Handshakes!Length \in Nat
      BY <3>2, LengthsAre
    <3>4. Handshakes!Arrived = Places(got + 1, got)
      BY <3>1 DEF Handshakes!Arrived, Places
    <3>5. Places(got + 1, got) = <<>>
      BY <3>1, <3>2, <3>3, NoPlaces
    <3>6. Len(Handshakes!Arrived) = 0
      BY <3>4, <3>5
    <3> QED
      BY <1>2, <3>6
  <2> HIDE DEF due
  <2>4. Giving(due, o, rest, got)
    BY <2>1, <2>3
  <2>5. /\ Len(Handshakes!Arrived) \in Nat /\ o + Len(Handshakes!Arrived) <= Len(due)
        /\ \A k \in 1 .. Len(Handshakes!Arrived) :
             /\ Handshakes!Arrived[k] \in Nat /\ Handshakes!Arrived[k] <= sent
             /\ due[o + k] = Handshakes!Arrived[k]
    BY <1>1, <2>1, <2>2, <2>4, ArrivedIsDue
  <2> DEFINE a == SubSeq(Handshakes!Arrived, 1, n)
             b == SubSeq(due, o + 1, o + n)
  <2> HIDE DEF o
  <2>6. o \in Nat
    BY <2>2 DEF o
  <2>7. /\ n \in Nat /\ 1 <= n /\ (n - 1) + 1 = n /\ 1 \in Int /\ n \in Int
        /\ o + 1 \in Int /\ o + n \in Int /\ o + 1 <= o + n /\ ((o + n) - (o + 1)) + 1 = n
    BY <2>5, <2>6
  <2>8. \A i \in 1 .. n : Handshakes!Arrived[i] \in Nat
    BY <2>5
  <2>9. /\ a \in Seq(Nat) /\ Len(a) = IF 1 <= n THEN (n - 1) + 1 ELSE 0
        /\ \A i \in 1 .. (n - 1) + 1 : a[i] = Handshakes!Arrived[(1 + i) - 1]
    BY <2>7, <2>8, SubSeqProperties
  <2>10. \A i \in (o + 1) .. (o + n) : due[i] \in Nat
    <3> SUFFICES ASSUME NEW i \in (o + 1) .. (o + n) PROVE due[i] \in Nat
      OBVIOUS
    <3>1. i - o \in 1 .. Len(Handshakes!Arrived) /\ o + (i - o) = i
      BY <2>5, <2>6, <2>7
    <3> QED
      BY <2>5, <3>1
  <2>11. /\ b \in Seq(Nat)
         /\ Len(b) = IF o + 1 <= o + n THEN ((o + n) - (o + 1)) + 1 ELSE 0
         /\ \A i \in 1 .. ((o + n) - (o + 1)) + 1 : b[i] = due[((o + 1) + i) - 1]
    BY <2>7, <2>10, SubSeqProperties
  <2> HIDE DEF a, b
  <2>12. Len(a) = n /\ Len(b) = n
    BY <2>7, <2>9, <2>11
  <2>13. ASSUME NEW i \in 1 .. n PROVE a[i] = b[i]
    <3>1. /\ (1 + i) - 1 = i /\ ((o + 1) + i) - 1 = o + i
          /\ i \in 1 .. Len(Handshakes!Arrived)
      BY <2>5, <2>6, <2>7
    <3>2. a[i] = Handshakes!Arrived[i] /\ b[i] = due[o + i]
      BY <2>7, <2>9, <2>11, <2>13, <3>1
    <3> QED
      BY <2>5, <3>1, <3>2
  <2>14. a = b
    BY <2>9, <2>11, <2>12, <2>13, SeqEqual
  <2>15. /\ out' = out \o SubSeq(due, Len(out) + 1, Len(out) + n)
         /\ due[Len(out) + n] <= sent
    BY <1>2, <2>5, <2>14 DEF a, b, o
  <2>16. n \in 1 .. (Len(due) - Len(out))
    <3>1. o + n <= Len(due) /\ Len(due) \in Int
      <4>1. Len(due) = (o + Len(rest)) + (Handshakes!Length - got)
        BY <2>4 DEF Giving, o
      <4>2. Handshakes!Length \in Nat /\ got \in Nat /\ Len(rest) \in Nat
        BY <1>1, <2>1, LengthsAre, LenProperties DEF OpeningTypes
      <4> QED
        BY <2>5, <2>6, <4>1, <4>2
    <3>2. n \in 1 .. (Len(due) - o)
      BY <2>6, <2>7, <3>1
    <3> QED
      BY <3>2 DEF o
  <2> QED
    BY <1>1, <1>3, <1>4, <2>15, <2>16 DEF Handshakes!Contract!GiveOn, due
<1> QED
  BY <1>5, <1>6

LEMMA StepsAsDue ==
  ASSUME OpeningInv, [Next]_vars
  PROVE  [Handshakes!Contract!Next]_Handshakes!Contract!vars
<1>1. OpeningInv'
  BY OpeningStep
<1>2. CASE Of("handshake", Handshakes!Next)
  <2>1. Handshakes!Write \/ Handshakes!Read \/ Handshakes!ReadFails \/ Handshakes!GiveOn
    BY <1>2 DEF Of, Handshakes!Next
  <2> QED
    BY <1>1, <2>1, WritesAsDue, ReadsAsDue, GivesAsDue DEF Handshakes!Contract!Next
<1>3. ASSUME UNCHANGED handshakeVars
      PROVE  UNCHANGED Handshakes!Contract!vars
  <2>1. UNCHANGED <<conv, sent, fit, heap, verdict, out>>
    BY <1>3 DEF handshakeVars
  <2>2. Handshakes!Whole' = Handshakes!Whole /\ Handshakes!Body' = Handshakes!Body
    BY <2>1, StaysTheSame
  <2>3. Handshakes!Lossy' = Handshakes!Lossy
    BY <2>1 DEF Handshakes!Lossy
  <2> QED
    BY <2>1, <2>2, <2>3 DEF Handshakes!Contract!vars
<1>4. CASE UNCHANGED vars
  BY <1>3, <1>4 DEF vars
<1>5. CASE \/ Of("packets", PacketStream!Next) \/ Of("lazy", TlsLazy!Next)
           \/ Of("copy", Copy!Next) \/ Of("frames", Frames!Next)
           \/ Of("socks5udp", Socks5UDP!Next) \/ Of("shadow", ShadowTls!Next)
  BY <1>3, <1>5 DEF Of
<1> QED
  BY <1>2, <1>4, <1>5 DEF Next

(* The handshakes implement the contract of Handover: whatever the layer   *)
(* above, or a fallback target, has got is the beginning of what it is to  *)
(* get, byte by byte, and was written before, for every protocol and any   *)
(* cuts of the network (ErrBuffer, ReadWrapper, io.MultiReader); where the *)
(* code leaves the contract is said by Lossy.                              *)
THEOREM HandshakesImplementHandover == Spec => ImplementsHandover
<1>1. Init => Handshakes!Contract!Init
  BY StartsAsDue DEF Init
<1>2. OpeningInv /\ [Next]_vars => [Handshakes!Contract!Next]_Handshakes!Contract!vars
  BY StepsAsDue
<1>3. ImplementsHandover
        <=> Handshakes!Contract!Init
            /\ [][Handshakes!Contract!Next]_Handshakes!Contract!vars
  BY DEF ImplementsHandover, Handshakes!ImplementsHandover, Handshakes!Contract!Spec
<1> QED
  BY <1>1, <1>2, <1>3, OpeningHolds, PTL DEF Spec

-----------------------------------------------------------------------------
(* ShadowTls with an ordinary client.  What the client has written was     *)
(* copied to the target or is on its way to the shadowTls server; what the *)
(* target has written is, from the newest on: not read from it, in the     *)
(* hands of the HashWriter, on its way to the client, or read.  No record  *)
(* of such a client is a checksum, so the connection is never taken over.  *)
OtherNames ==
  {"hello", "ccs", "fin", "cert", "verify", "key", "hs", "end", "newticket", "app",
   "response", "ticket", ""}

OtherRecs == [type : Nat, what : OtherNames, covers : Nat]

InHands == IF hashW.phase = 1 THEN <<>> ELSE <<hashW.rec>>

PassingTypes ==
  /\ who = "other" /\ mode = 2 /\ tls \in {"1.2", "1.3"} /\ flight \in {1, 5}
  /\ copier.up \in {"copy", "fallback", "failed"} /\ DOMAIN copier = {"up", "down"}
  /\ fakeOpen /\ tunnel = <<>>
  /\ clientSent \in Seq(OtherRecs) /\ toServer \in Seq(OtherRecs)
  /\ forwardedUp \in Seq(OtherRecs) /\ targetSent \in Seq(OtherRecs)
  /\ fakeConn \in Seq(OtherRecs) /\ toClient \in Seq(OtherRecs)
  /\ clientRead \in Seq(OtherRecs)
  /\ hashW \in [phase : {1, 2, 3}, rec : OtherRecs]

PassingInv ==
  /\ PassingTypes
  /\ forwardedUp \o toServer = clientSent
  /\ clientRead \o (toClient \o (InHands \o fakeConn)) = targetSent

LEMMA JoinedRecs ==
  ASSUME NEW a \in Seq(OtherRecs), NEW b \in Seq(OtherRecs)
  PROVE  a \o b \in Seq(OtherRecs)
BY ConcatProperties

LEMMA RegroupedRecs ==
  ASSUME NEW a \in Seq(OtherRecs), NEW b \in Seq(OtherRecs), NEW c \in Seq(OtherRecs)
  PROVE  (a \o b) \o c = a \o (b \o c)
BY ConcatAssociative

LEMMA MovedRecs ==
  ASSUME NEW a \in Seq(OtherRecs), NEW b \in Seq(OtherRecs), NEW c \in Seq(OtherRecs),
         NEW d \in Seq(OtherRecs)
  PROVE  (a \o b) \o (c \o d) = a \o ((b \o c) \o d)
<1> DEFINE x == c \o d
<1>1. x \in Seq(OtherRecs)
  BY JoinedRecs
<1>2. (b \o c) \o d = b \o x
  BY RegroupedRecs
<1> HIDE DEF x
<1>3. (a \o b) \o x = a \o (b \o x)
  BY <1>1, RegroupedRecs, ZenonT(60)
<1> QED
  BY <1>2, <1>3 DEF x

LEMMA AddedRecs ==
  ASSUME NEW a \in Seq(OtherRecs), NEW b \in Seq(OtherRecs), NEW c \in Seq(OtherRecs),
         NEW d \in Seq(OtherRecs)
  PROVE  (a \o (b \o c)) \o d = a \o (b \o (c \o d))
<1> DEFINE y == b \o c
<1>1. y \in Seq(OtherRecs)
  BY JoinedRecs
<1>2. y \o d = b \o (c \o d)
  BY RegroupedRecs
<1> HIDE DEF y
<1>3. (a \o y) \o d = a \o (y \o d)
  BY <1>1, RegroupedRecs, SMTT(30)
<1> QED
  BY <1>2, <1>3 DEF y

LEMMA FirstRec ==
  ASSUME NEW s \in Seq(OtherRecs), s # <<>>
  PROVE  /\ Head(s) \in OtherRecs /\ Tail(s) \in Seq(OtherRecs)
         /\ <<Head(s)>> \in Seq(OtherRecs) /\ <<Head(s)>> \o Tail(s) = s
<1>1. Head(s) \in OtherRecs /\ Tail(s) \in Seq(OtherRecs)
      /\ Len(Tail(s)) = Len(s) - 1
      /\ \A i \in 1..Len(Tail(s)) : Tail(s)[i] = s[i + 1]
  BY HeadTailProperties
<1> DEFINE h == <<Head(s)>>
           t == Tail(s)
<1>2. h \in Seq(OtherRecs) /\ Len(h) = 1 /\ h[1] = s[1]
  BY <1>1
<1>3. Len(s) \in Nat \ {0}
  BY EmptySeq
<1> HIDE DEF h, t
<1>4. t \in Seq(OtherRecs) /\ Len(t) = Len(s) - 1 /\ \A i \in 1..Len(t) : t[i] = s[i + 1]
  BY <1>1 DEF t
<1>5. /\ h \o t \in Seq(OtherRecs) /\ Len(h \o t) = Len(h) + Len(t)
      /\ \A i \in 1..Len(h) + Len(t) :
           (h \o t)[i] = IF i <= Len(h) THEN h[i] ELSE t[i - Len(h)]
  <2>1. h \in Seq(OtherRecs) /\ t \in Seq(OtherRecs)
    BY <1>2, <1>4
  <2> QED
    BY <2>1, ConcatProperties
<1>6. Len(h \o t) = Len(s)
  BY <1>2, <1>3, <1>4, <1>5
<1>7. ASSUME NEW i \in 1..Len(h \o t) PROVE (h \o t)[i] = s[i]
  <2>1. i \in 1..Len(h) + Len(t) /\ i \in Nat
    BY <1>3, <1>5, <1>6
  <2>2. CASE i = 1
    <3>1. 1 <= 1
      OBVIOUS
    <3> QED
      BY <1>2, <1>5, <2>1, <2>2, <3>1
  <2>3. CASE i # 1
    <3>1. i - 1 \in 1..Len(t) /\ (i - 1) + 1 = i /\ ~(i <= 1)
      BY <1>2, <1>3, <1>4, <1>5, <1>6, <2>3
    <3> QED
      BY <1>2, <1>4, <1>5, <2>1, <3>1
  <2> QED
    BY <2>2, <2>3
<1>8. h \o t = s
  BY <1>5, <1>6, <1>7, SeqEqual
<1> QED
  BY <1>1, <1>2, <1>8 DEF h, t

LEMMA CutRecs ==
  ASSUME NEW s \in Seq(OtherRecs), NEW n \in 1..Len(s)
  PROVE  /\ SubSeq(s, 1, n) \in Seq(OtherRecs)
         /\ SubSeq(s, n + 1, Len(s)) \in Seq(OtherRecs)
         /\ SubSeq(s, 1, n) \o SubSeq(s, n + 1, Len(s)) = s
<1>1. Len(s) \in Nat /\ \A i \in 1..Len(s) : s[i] \in OtherRecs
  BY LenProperties
<1>2. /\ 1 \in Int /\ n \in Int /\ n + 1 \in Int /\ Len(s) \in Int
      /\ \A i \in 1..n : i \in 1..Len(s)
      /\ \A i \in (n + 1)..Len(s) : i \in 1..Len(s)
      /\ 1 \in 1..Len(s) + 1 /\ n \in 1 - 1..Len(s) /\ Len(s) \in n..Len(s)
  BY <1>1
<1>3. SubSeq(s, 1, n) \in Seq(OtherRecs)
  <2>1. \A i \in 1..n : s[i] \in OtherRecs
    BY <1>1, <1>2
  <2> QED
    BY <1>2, <2>1, SubSeqProperties
<1>4. SubSeq(s, n + 1, Len(s)) \in Seq(OtherRecs)
  <2>1. \A i \in (n + 1)..Len(s) : s[i] \in OtherRecs
    BY <1>1, <1>2
  <2> QED
    BY <1>2, <2>1, SubSeqProperties
<1>5. SubSeq(s, 1, n) \o SubSeq(s, n + 1, Len(s)) = SubSeq(s, 1, Len(s))
  BY <1>2, ConcatAdjacentSubSeq
<1>6. SubSeq(s, 1, Len(s)) = s
  BY SubSeqFull
<1> QED
  BY <1>3, <1>4, <1>5, <1>6

(* What each side writes holds no checksum.                                *)
LEMMA RecsAre ==
  ASSUME NEW type \in Nat, NEW what \in OtherNames
  PROVE  ShadowTls!Rec(type, what) \in OtherRecs
BY DEF ShadowTls!Rec, OtherRecs

LEMMA ClientFlights ==
  /\ ShadowTls!ClientFlight \in Seq(OtherRecs)
  /\ ShadowTls!Hello \in Seq(OtherRecs)
  /\ \A what \in OtherNames : ShadowTls!AppData(what) \in Seq(OtherRecs)
<1> DEFINE r(type, what) == ShadowTls!Rec(type, what)
<1>1. /\ r(20, "ccs") \in OtherRecs /\ r(23, "fin") \in OtherRecs
      /\ r(22, "cert") \in OtherRecs /\ r(22, "verify") \in OtherRecs
      /\ r(22, "key") \in OtherRecs /\ r(22, "fin") \in OtherRecs
      /\ r(22, "hello") \in OtherRecs /\ \A what \in OtherNames : r(23, what) \in OtherRecs
  BY RecsAre DEF OtherNames
<1> HIDE DEF r
<1>2. /\ <<r(20, "ccs"), r(23, "fin")>> \in Seq(OtherRecs)
      /\ <<r(22, "cert"), r(22, "verify")>> \in Seq(OtherRecs)
      /\ <<>> \in Seq(OtherRecs)
      /\ <<r(22, "key"), r(20, "ccs"), r(22, "fin")>> \in Seq(OtherRecs)
      /\ <<r(22, "hello")>> \in Seq(OtherRecs)
      /\ \A what \in OtherNames : <<r(23, what)>> \in Seq(OtherRecs)
  BY <1>1
<1>3. ASSUME NEW s \in {<<r(22, "cert"), r(22, "verify")>>, <<>>}
      PROVE  s \o <<r(22, "key"), r(20, "ccs"), r(22, "fin")>> \in Seq(OtherRecs)
  BY <1>2, JoinedRecs
<1>4. \/ ShadowTls!ClientFlight = <<r(20, "ccs"), r(23, "fin")>>
      \/ \E s \in {<<r(22, "cert"), r(22, "verify")>>, <<>>} :
           ShadowTls!ClientFlight = s \o <<r(22, "key"), r(20, "ccs"), r(22, "fin")>>
  BY DEF ShadowTls!ClientFlight, r
<1> QED
  BY <1>2, <1>3, <1>4 DEF ShadowTls!Hello, ShadowTls!AppData, r

LEMMA TargetFlights ==
  ASSUME flight \in {1, 5}
  PROVE  ShadowTls!TargetFlight \in Seq(OtherRecs) /\ ShadowTls!TargetFinish \in Seq(OtherRecs)
<1> DEFINE r(type, what) == ShadowTls!Rec(type, what)
           t == [i \in 1..flight |-> r(22, IF i = flight THEN "end" ELSE "hs")]
<1>1. /\ r(22, "hello") \in OtherRecs /\ r(20, "ccs") \in OtherRecs /\ r(23, "end") \in OtherRecs
      /\ r(22, "end") \in OtherRecs /\ r(22, "hs") \in OtherRecs
      /\ r(22, "newticket") \in OtherRecs /\ r(22, "fin") \in OtherRecs
  BY RecsAre DEF OtherNames
<1>2. t \in Seq(OtherRecs)
  <2>1. flight \in Nat
    OBVIOUS
  <2>2. \A i \in 1..flight : r(22, IF i = flight THEN "end" ELSE "hs") \in OtherRecs
    <3>1. ASSUME NEW i \in 1..flight
          PROVE  r(22, IF i = flight THEN "end" ELSE "hs") \in OtherRecs
      <4>1. CASE i = flight
        BY <1>1, <4>1
      <4>2. CASE i # flight
        BY <1>1, <4>2
      <4> QED
        BY <4>1, <4>2
    <3> QED
      BY <3>1
  <2> HIDE DEF r
  <2> QED
    BY <2>1, <2>2, IsASeq
<1> HIDE DEF r, t
<1>3. /\ <<r(22, "hello"), r(20, "ccs"), r(23, "end")>> \in Seq(OtherRecs)
      /\ <<r(22, "newticket")>> \in Seq(OtherRecs) /\ <<>> \in Seq(OtherRecs)
      /\ <<r(20, "ccs"), r(22, "fin")>> \in Seq(OtherRecs)
  BY <1>1
<1>4. ASSUME NEW s \in {<<r(22, "newticket")>>, <<>>}
      PROVE  s \o <<r(20, "ccs"), r(22, "fin")>> \in Seq(OtherRecs)
  BY <1>3, JoinedRecs
<1>5. ShadowTls!TargetFlight \in {<<r(22, "hello"), r(20, "ccs"), r(23, "end")>>, t}
  BY DEF ShadowTls!TargetFlight, r, t
<1>6. \/ ShadowTls!TargetFinish = <<>>
      \/ \E s \in {<<r(22, "newticket")>>, <<>>} :
           ShadowTls!TargetFinish = s \o <<r(20, "ccs"), r(22, "fin")>>
  BY DEF ShadowTls!TargetFinish, r
<1> QED
  BY <1>2, <1>3, <1>4, <1>5, <1>6

LEMMA PassingStart ==
  ASSUME ShadowTls!Init, who = "other"
  PROVE  PassingInv
<1>1. /\ mode = 2 /\ tls \in {"1.2", "1.3"} /\ flight \in {1, 5}
      /\ copier = [up |-> "copy", down |-> IF mode = 1 THEN "copy" ELSE "none"]
      /\ fakeOpen = TRUE /\ tunnel = <<>> /\ clientSent = <<>> /\ toServer = <<>>
      /\ forwardedUp = <<>> /\ targetSent = <<>> /\ fakeConn = <<>> /\ toClient = <<>>
      /\ clientRead = <<>> /\ hashW = [phase |-> 1, rec |-> ShadowTls!Rec(0, "")]
  BY DEF ShadowTls!Init
<1>2. <<>> \in Seq(OtherRecs)
  OBVIOUS
<1>3. <<>> \o <<>> = <<>>
  BY <1>2, ConcatEmptySeq
<1>4. hashW \in [phase : {1, 2, 3}, rec : OtherRecs] /\ hashW.phase = 1
  <2>1. ShadowTls!Rec(0, "") \in OtherRecs
    BY RecsAre DEF OtherNames
  <2> QED
    BY <1>1, <2>1
<1>5. copier.up = "copy" /\ DOMAIN copier = {"up", "down"}
  BY <1>1
<1>6. PassingTypes
  BY <1>1, <1>2, <1>4, <1>5 DEF PassingTypes
<1>7. InHands = <<>>
  BY <1>4 DEF InHands
<1> QED
  BY <1>1, <1>3, <1>6, <1>7 DEF PassingInv

(* The steps of the two ends and of what lies between them.                *)
LEMMA PassingClientWrites ==
  ASSUME PassingInv, NEW recs \in Seq(OtherRecs), ShadowTls!ClientWrites(recs)
  PROVE  /\ clientSent' \in Seq(OtherRecs) /\ toServer' \in Seq(OtherRecs)
         /\ forwardedUp \o toServer' = clientSent'
<1>1. clientSent' = clientSent \o recs /\ toServer' = toServer \o recs
  BY DEF ShadowTls!ClientWrites
<1>2. /\ clientSent \in Seq(OtherRecs) /\ toServer \in Seq(OtherRecs)
      /\ forwardedUp \in Seq(OtherRecs) /\ forwardedUp \o toServer = clientSent
  BY DEF PassingInv, PassingTypes
<1>3. clientSent' \in Seq(OtherRecs) /\ toServer' \in Seq(OtherRecs)
  BY <1>1, <1>2, JoinedRecs
<1>4. (forwardedUp \o toServer) \o recs = forwardedUp \o (toServer \o recs)
  BY <1>2, RegroupedRecs, ZenonT(60)
<1> QED
  BY <1>1, <1>2, <1>3, <1>4

LEMMA PassingTargetWrites ==
  ASSUME PassingInv, NEW recs \in Seq(OtherRecs), ShadowTls!TargetWrites(recs)
  PROVE  /\ targetSent' \in Seq(OtherRecs) /\ fakeConn' \in Seq(OtherRecs)
         /\ clientRead \o (toClient \o (InHands \o fakeConn')) = targetSent'
<1>1. targetSent' = targetSent \o recs /\ fakeConn' = fakeConn \o recs
  BY DEF ShadowTls!TargetWrites
<1> DEFINE a == clientRead
           b == toClient
           h == InHands
           f == fakeConn
<1>2. /\ a \in Seq(OtherRecs) /\ b \in Seq(OtherRecs) /\ f \in Seq(OtherRecs)
      /\ targetSent \in Seq(OtherRecs) /\ a \o (b \o (h \o f)) = targetSent
  BY DEF PassingInv, PassingTypes
<1>3. h \in Seq(OtherRecs)
  <2>1. hashW.rec \in OtherRecs
    BY DEF PassingInv, PassingTypes
  <2> QED
    BY <2>1 DEF InHands
<1> HIDE DEF a, b, h, f
<1>4. h \o f \in Seq(OtherRecs)
  BY <1>2, <1>3, JoinedRecs
<1>5. (h \o f) \o recs = h \o (f \o recs)
  BY <1>2, <1>3, RegroupedRecs, ZenonT(60)
<1> DEFINE hf == h \o f
<1>6. hf \in Seq(OtherRecs) /\ a \o (b \o hf) = targetSent
      /\ hf \o recs = h \o (f \o recs)
  BY <1>2, <1>4, <1>5
<1> HIDE DEF hf
<1>7. (a \o (b \o hf)) \o recs = a \o (b \o (hf \o recs))
  <2>1. a \in Seq(OtherRecs) /\ b \in Seq(OtherRecs) /\ hf \in Seq(OtherRecs)
        /\ recs \in Seq(OtherRecs)
    BY <1>2, <1>6
  <2> QED
    BY <2>1, AddedRecs, SMTT(60)
<1>8. targetSent' \in Seq(OtherRecs) /\ f \o recs \in Seq(OtherRecs)
  BY <1>1, <1>2, JoinedRecs
<1>9. a \o (b \o (h \o (f \o recs))) = targetSent'
  BY <1>1, <1>6, <1>7
<1> QED
  BY <1>1, <1>8, <1>9 DEF a, b, h, f

(* A step that only writes on one side.                                    *)
LEMMA PassingOtherwise ==
  ASSUME PassingInv,
         UNCHANGED <<mode, tls, who, extra, flight, copier, fakeOpen, tunnel, hashW>>,
         /\ clientSent' \in Seq(OtherRecs) /\ toServer' \in Seq(OtherRecs)
         /\ forwardedUp' \in Seq(OtherRecs) /\ targetSent' \in Seq(OtherRecs)
         /\ fakeConn' \in Seq(OtherRecs) /\ toClient' \in Seq(OtherRecs)
         /\ clientRead' \in Seq(OtherRecs),
         forwardedUp' \o toServer' = clientSent',
         clientRead' \o (toClient' \o (InHands \o fakeConn')) = targetSent'
  PROVE  PassingInv'
<1>1. PassingTypes'
  BY DEF PassingInv, PassingTypes
<1>2. InHands' = InHands
  BY DEF InHands
<1> QED
  BY <1>1, <1>2 DEF PassingInv

LEMMA PassingClient ==
  ASSUME PassingInv,
         \/ ShadowTls!ClientHello \/ ShadowTls!ClientSum \/ ShadowTls!ClientData
         \/ ShadowTls!ClientReadData
         \/ \E n \in 1..Len(toClient) : ShadowTls!ClientReads(n)
  PROVE  PassingInv'
<1>1. PassingTypes /\ forwardedUp \o toServer = clientSent
      /\ clientRead \o (toClient \o (InHands \o fakeConn)) = targetSent
  BY DEF PassingInv
<1>2. /\ clientSent \in Seq(OtherRecs) /\ toServer \in Seq(OtherRecs)
      /\ forwardedUp \in Seq(OtherRecs) /\ targetSent \in Seq(OtherRecs)
      /\ fakeConn \in Seq(OtherRecs) /\ toClient \in Seq(OtherRecs)
      /\ clientRead \in Seq(OtherRecs) /\ who = "other" /\ hashW.rec \in OtherRecs
  BY <1>1 DEF PassingTypes
<1>3. InHands \o fakeConn \in Seq(OtherRecs)
  <2>1. InHands \in Seq(OtherRecs)
    BY <1>2 DEF InHands
  <2> QED
    BY <1>2, <2>1, JoinedRecs
<1>4. CASE ShadowTls!ClientHello
  <2>1. /\ ShadowTls!ClientWrites(ShadowTls!Hello)
        /\ UNCHANGED <<mode, tls, who, extra, flight, clientRead, copier, forwardedUp, tunnel,
                       targetSent, fakeConn, fakeOpen, hashW, toClient>>
    BY <1>4 DEF ShadowTls!ClientHello, ShadowTls!setting, ShadowTls!ofUp, ShadowTls!ofTarget,
                ShadowTls!ofDown
  <2>2. /\ clientSent' \in Seq(OtherRecs) /\ toServer' \in Seq(OtherRecs)
        /\ forwardedUp \o toServer' = clientSent'
    BY <2>1, ClientFlights, PassingClientWrites
  <2> QED
    BY <1>1, <1>2, <2>1, <2>2, PassingOtherwise
<1>5. CASE ShadowTls!ClientSum
  BY <1>2, <1>5 DEF ShadowTls!ClientSum
<1>6. CASE ShadowTls!ClientData
  <2>1. /\ ShadowTls!ClientWrites(ShadowTls!AppData("app"))
        /\ UNCHANGED <<mode, tls, who, extra, flight, clientRead, copier, forwardedUp, tunnel,
                       targetSent, fakeConn, fakeOpen, hashW, toClient>>
    BY <1>6 DEF ShadowTls!ClientData, ShadowTls!setting, ShadowTls!ofUp, ShadowTls!ofTarget,
                ShadowTls!ofDown
  <2>2. ShadowTls!AppData("app") \in Seq(OtherRecs)
    BY ClientFlights DEF OtherNames
  <2>3. /\ clientSent' \in Seq(OtherRecs) /\ toServer' \in Seq(OtherRecs)
        /\ forwardedUp \o toServer' = clientSent'
    BY <2>1, <2>2, PassingClientWrites
  <2> QED
    BY <1>1, <1>2, <2>1, <2>3, PassingOtherwise
<1>7. CASE ShadowTls!ClientReadData
  <2>1. /\ toClient # <<>> /\ toClient' = Tail(toClient)
        /\ clientRead' = Append(clientRead, Head(toClient))
        /\ UNCHANGED <<mode, tls, who, extra, flight, clientSent, toServer, copier, forwardedUp,
                       tunnel, targetSent, fakeConn, fakeOpen, hashW>>
    BY <1>2, <1>7 DEF ShadowTls!ClientReadData, ShadowTls!setting, ShadowTls!ofUp,
                      ShadowTls!ofTarget, ShadowTls!ofDown
  <2> DEFINE h == <<Head(toClient)>>
             t == Tail(toClient)
             z == InHands \o fakeConn
  <2>2. h \in Seq(OtherRecs) /\ t \in Seq(OtherRecs) /\ h \o t = toClient
        /\ Head(toClient) \in OtherRecs
    BY <1>2, <2>1, FirstRec
  <2>3. clientRead' = clientRead \o h
    BY <1>2, <2>1, <2>2, AppendIsConcat
  <2>4. z \in Seq(OtherRecs)
    BY <1>3
  <2> HIDE DEF h, t, z
  <2>5. (clientRead \o h) \o (t \o z) = clientRead \o ((h \o t) \o z)
    <3>1. clientRead \in Seq(OtherRecs) /\ h \in Seq(OtherRecs) /\ t \in Seq(OtherRecs)
          /\ z \in Seq(OtherRecs)
      BY <1>2, <2>2, <2>4
    <3> QED
      BY <3>1, MovedRecs, SMTT(60)
  <2>6. clientRead' \o (toClient' \o z) = targetSent
    BY <1>1, <2>1, <2>2, <2>3, <2>5 DEF t, z
  <2>7. clientRead' \in Seq(OtherRecs) /\ toClient' \in Seq(OtherRecs)
    <3>1. clientRead \o h \in Seq(OtherRecs)
      BY <1>2, <2>2, JoinedRecs
    <3> QED
      BY <2>1, <2>2, <2>3, <3>1 DEF t
  <2>8. clientRead' \o (toClient' \o (InHands \o fakeConn')) = targetSent'
    BY <2>1, <2>6 DEF z
  <2> QED
    BY <1>1, <1>2, <2>1, <2>7, <2>8, PassingOtherwise
<1>8. ASSUME NEW n \in 1..Len(toClient), ShadowTls!ClientReads(n)
      PROVE  PassingInv'
  <2>1. /\ clientRead' = clientRead \o SubSeq(toClient, 1, n)
        /\ toClient' = SubSeq(toClient, n + 1, Len(toClient))
        /\ \/ ShadowTls!ClientWrites(ShadowTls!ClientFlight)
           \/ UNCHANGED <<clientSent, toServer>>
        /\ UNCHANGED <<mode, tls, who, extra, flight, copier, forwardedUp,
                       tunnel, targetSent, fakeConn, fakeOpen, hashW>>
    BY <1>8 DEF ShadowTls!ClientReads, ShadowTls!setting, ShadowTls!ofUp,
                ShadowTls!ofTarget, ShadowTls!ofDown
  <2> DEFINE h == SubSeq(toClient, 1, n)
             t == SubSeq(toClient, n + 1, Len(toClient))
             z == InHands \o fakeConn
  <2>2. h \in Seq(OtherRecs) /\ t \in Seq(OtherRecs) /\ h \o t = toClient
    BY <1>2, CutRecs
  <2>3. z \in Seq(OtherRecs)
    BY <1>3
  <2>4. clientRead' = clientRead \o h /\ toClient' = t
    BY <2>1
  <2> HIDE DEF h, t, z
  <2>5. (clientRead \o h) \o (t \o z) = clientRead \o ((h \o t) \o z)
    <3>1. clientRead \in Seq(OtherRecs) /\ h \in Seq(OtherRecs) /\ t \in Seq(OtherRecs)
          /\ z \in Seq(OtherRecs)
      BY <1>2, <2>2, <2>3
    <3> QED
      BY <3>1, MovedRecs, SMTT(60)
  <2>6. clientRead' \o (toClient' \o z) = targetSent
    BY <1>1, <2>2, <2>4, <2>5 DEF z
  <2>7. clientRead' \in Seq(OtherRecs) /\ toClient' \in Seq(OtherRecs)
    <3>1. clientRead \o h \in Seq(OtherRecs)
      BY <1>2, <2>2, JoinedRecs
    <3> QED
      BY <2>2, <2>4, <3>1
  <2>8. clientRead' \o (toClient' \o (InHands \o fakeConn')) = targetSent'
    BY <2>1, <2>6 DEF z
  <2>9. /\ clientSent' \in Seq(OtherRecs) /\ toServer' \in Seq(OtherRecs)
        /\ forwardedUp \o toServer' = clientSent'
    <3>1. CASE ShadowTls!ClientWrites(ShadowTls!ClientFlight)
      BY <3>1, ClientFlights, PassingClientWrites
    <3>2. CASE UNCHANGED <<clientSent, toServer>>
      BY <1>1, <1>2, <3>2
    <3> QED
      BY <2>1, <3>1, <3>2
  <2> QED
    BY <1>1, <1>2, <2>1, <2>7, <2>8, <2>9, PassingOtherwise
<1> QED
  BY <1>4, <1>5, <1>6, <1>7, <1>8

(* The target, which writes behind what it has written.                    *)
LEMMA PassingTarget ==
  ASSUME PassingInv,
         ShadowTls!TargetAnswers \/ ShadowTls!TargetTicket
  PROVE  PassingInv'
<1>1. PassingTypes /\ forwardedUp \o toServer = clientSent
  BY DEF PassingInv
<1>2. /\ clientSent \in Seq(OtherRecs) /\ toServer \in Seq(OtherRecs)
      /\ forwardedUp \in Seq(OtherRecs) /\ toClient \in Seq(OtherRecs)
      /\ clientRead \in Seq(OtherRecs) /\ flight \in {1, 5}
  BY <1>1 DEF PassingTypes
<1>3. \E recs \in Seq(OtherRecs) : ShadowTls!TargetWrites(recs)
  <2>1. /\ ShadowTls!TargetFlight \in Seq(OtherRecs) /\ ShadowTls!TargetFinish \in Seq(OtherRecs)
        /\ ShadowTls!AppData("response") \in Seq(OtherRecs)
        /\ ShadowTls!AppData("ticket") \in Seq(OtherRecs)
        /\ <<>> \in Seq(OtherRecs)
    <3>1. ShadowTls!TargetFlight \in Seq(OtherRecs) /\ ShadowTls!TargetFinish \in Seq(OtherRecs)
      BY <1>2, TargetFlights
    <3>2. "response" \in OtherNames /\ "ticket" \in OtherNames
      BY DEF OtherNames
    <3>3. /\ ShadowTls!AppData("response") \in Seq(OtherRecs)
          /\ ShadowTls!AppData("ticket") \in Seq(OtherRecs)
      BY <3>2, ClientFlights
    <3> QED
      BY <3>1, <3>3
  <2>2. CASE ShadowTls!TargetTicket
    BY <2>1, <2>2 DEF ShadowTls!TargetTicket
  <2>3. CASE ShadowTls!TargetAnswers
    <3> DEFINE what == forwardedUp[seen + 1].what
               recs == CASE what = "hello" -> ShadowTls!TargetFlight
                         [] what = "fin" -> ShadowTls!TargetFinish
                         [] what = "app" -> ShadowTls!AppData("response")
                         [] OTHER -> <<>>
    <3>1. ShadowTls!TargetWrites(recs)
      BY <2>3 DEF ShadowTls!TargetAnswers
    <3>2. recs \in {ShadowTls!TargetFlight, ShadowTls!TargetFinish,
                    ShadowTls!AppData("response"), <<>>}
      OBVIOUS
    <3> HIDE DEF recs
    <3> QED
      BY <2>1, <3>1, <3>2
  <2> QED
    BY <2>2, <2>3
<1>4. UNCHANGED <<mode, tls, who, extra, flight, clientRead, clientSent, toServer, copier,
                  forwardedUp, tunnel, fakeOpen, hashW, toClient>>
  BY DEF ShadowTls!TargetAnswers, ShadowTls!TargetTicket, ShadowTls!setting,
         ShadowTls!ofClient, ShadowTls!ofUp, ShadowTls!ofDown
<1>5. /\ targetSent' \in Seq(OtherRecs) /\ fakeConn' \in Seq(OtherRecs)
      /\ clientRead \o (toClient \o (InHands \o fakeConn')) = targetSent'
  BY <1>3, PassingTargetWrites
<1> QED
  BY <1>1, <1>2, <1>4, <1>5, PassingOtherwise

(* The two loops that copy.  The HashWriter hashes a record before it      *)
(* writes it.                                                              *)
LEMMA PassingDown ==
  ASSUME PassingInv,
         ShadowTls!CopyDown \/ ShadowTls!HashWrite
  PROVE  PassingInv'
<1>1. /\ PassingTypes /\ forwardedUp \o toServer = clientSent
      /\ clientRead \o (toClient \o (InHands \o fakeConn)) = targetSent
  BY DEF PassingInv
<1>2. /\ fakeConn \in Seq(OtherRecs) /\ toClient \in Seq(OtherRecs)
      /\ hashW \in [phase : {1, 2, 3}, rec : OtherRecs]
  BY <1>1 DEF PassingTypes
<1>3. UNCHANGED <<mode, tls, who, extra, flight, clientRead, clientSent, toServer, copier,
                  forwardedUp, tunnel, targetSent, fakeOpen>>
  BY DEF ShadowTls!CopyDown, ShadowTls!HashWrite, ShadowTls!setting,
         ShadowTls!ofClient, ShadowTls!ofUp, ShadowTls!ofTarget
<1>4. ASSUME /\ fakeConn' \in Seq(OtherRecs) /\ toClient' \in Seq(OtherRecs)
             /\ hashW' \in [phase : {1, 2, 3}, rec : OtherRecs],
             toClient' \o (InHands' \o fakeConn') = toClient \o (InHands \o fakeConn)
      PROVE  PassingInv'
  <2>1. PassingTypes'
    BY <1>1, <1>3, <1>4 DEF PassingTypes
  <2>2. clientRead' \o (toClient' \o (InHands' \o fakeConn')) = targetSent'
    BY <1>1, <1>3, <1>4
  <2>3. forwardedUp' \o toServer' = clientSent'
    BY <1>1, <1>3
  <2> QED
    BY <2>1, <2>2, <2>3 DEF PassingInv
<1>5. CASE ShadowTls!CopyDown
  <2>1. /\ hashW.phase = 1 /\ fakeConn # <<>> /\ fakeConn' = Tail(fakeConn)
        /\ hashW' = [phase |-> 2, rec |-> Head(fakeConn)] /\ toClient' = toClient
    BY <1>5 DEF ShadowTls!CopyDown
  <2>2. /\ Head(fakeConn) \in OtherRecs /\ Tail(fakeConn) \in Seq(OtherRecs)
        /\ <<Head(fakeConn)>> \o Tail(fakeConn) = fakeConn
    BY <1>2, <2>1, FirstRec
  <2>3. hashW' \in [phase : {1, 2, 3}, rec : OtherRecs] /\ hashW'.phase = 2
        /\ hashW'.rec = Head(fakeConn)
    BY <2>1, <2>2
  <2>4. InHands = <<>> /\ InHands' = <<Head(fakeConn)>>
    BY <2>1, <2>3 DEF InHands
  <2>5. <<>> \o fakeConn = fakeConn
    BY <1>2, ConcatEmptySeq
  <2>6. InHands' \o fakeConn' = InHands \o fakeConn
    BY <2>1, <2>2, <2>4, <2>5
  <2> QED
    BY <1>2, <1>4, <2>1, <2>2, <2>3, <2>6
<1>6. CASE ShadowTls!HashWrite
  <2>1. /\ hashW.phase > 1 /\ fakeConn' = fakeConn
        /\ hashW' = [hashW EXCEPT !.phase = (hashW.phase % 3) + 1]
        /\ IF ShadowTls!WriteOrder[hashW.phase - 1] = "hash" THEN toClient' = toClient
           ELSE toClient' = Append(toClient, hashW.rec)
    BY <1>6 DEF ShadowTls!HashWrite
  <2>2. /\ <<"hash", "write">>[1] = "hash" /\ <<"hash", "write">>[2] = "write"
        /\ 2 - 1 = 1 /\ 3 - 1 = 2 /\ (2 % 3) + 1 = 3 /\ (3 % 3) + 1 = 1
    OBVIOUS
  <2>3. CASE hashW.phase = 2
    <3>1. toClient' = toClient
      BY <2>1, <2>2, <2>3 DEF ShadowTls!WriteOrder
    <3>2. hashW' \in [phase : {1, 2, 3}, rec : OtherRecs] /\ hashW'.phase = 3
          /\ hashW'.rec = hashW.rec
      BY <1>2, <2>1, <2>2, <2>3
    <3>3. InHands' = InHands
      BY <2>3, <3>2 DEF InHands
    <3> QED
      BY <1>2, <1>4, <2>1, <3>1, <3>2, <3>3
  <2>4. CASE hashW.phase = 3
    <3>1. toClient' = Append(toClient, hashW.rec)
      BY <2>1, <2>2, <2>4 DEF ShadowTls!WriteOrder
    <3>2. hashW' \in [phase : {1, 2, 3}, rec : OtherRecs] /\ hashW'.phase = 1
          /\ hashW.rec \in OtherRecs
      BY <1>2, <2>1, <2>2, <2>4
    <3>3. InHands = <<hashW.rec>> /\ InHands' = <<>>
      BY <2>4, <3>2 DEF InHands
    <3> DEFINE h == <<hashW.rec>>
    <3>4. h \in Seq(OtherRecs)
      BY <3>2
    <3>5. toClient' = toClient \o h
      BY <1>2, <3>1, <3>2, AppendIsConcat
    <3>6. <<>> \o fakeConn = fakeConn
      BY <1>2, ConcatEmptySeq
    <3> HIDE DEF h
    <3>7. toClient \o h \in Seq(OtherRecs)
      BY <1>2, <3>4, JoinedRecs
    <3>8. (toClient \o h) \o fakeConn = toClient \o (h \o fakeConn)
      BY <1>2, <3>4, RegroupedRecs
    <3>9. InHands = h
      BY <3>3 DEF h
    <3>10. toClient' \o (InHands' \o fakeConn') = toClient \o (InHands \o fakeConn)
      BY <2>1, <3>3, <3>5, <3>6, <3>8, <3>9
    <3>11. toClient' \in Seq(OtherRecs)
      BY <3>5, <3>7
    <3> QED
      BY <1>2, <1>4, <2>1, <3>2, <3>10, <3>11
  <2> QED
    BY <1>2, <2>1, <2>3, <2>4
<1> QED
  BY <1>5, <1>6

LEMMA PassingUp ==
  ASSUME PassingInv,
         ShadowTls!CopyUp \/ ShadowTls!Fallback
  PROVE  PassingInv'
<1>1. /\ PassingTypes /\ forwardedUp \o toServer = clientSent
      /\ clientRead \o (toClient \o (InHands \o fakeConn)) = targetSent
  BY DEF PassingInv
<1>2. /\ forwardedUp \in Seq(OtherRecs) /\ toServer \in Seq(OtherRecs)
      /\ copier.up \in {"copy", "fallback", "failed"} /\ DOMAIN copier = {"up", "down"}
  BY <1>1 DEF PassingTypes
<1>3. UNCHANGED <<mode, tls, who, extra, flight, clientRead, clientSent, tunnel, targetSent,
                  fakeConn, fakeOpen, hashW, toClient>>
  BY DEF ShadowTls!CopyUp, ShadowTls!Fallback, ShadowTls!setting, ShadowTls!ofClient,
         ShadowTls!ofTarget, ShadowTls!ofDown
<1>4. toServer # <<>>
  BY DEF ShadowTls!CopyUp, ShadowTls!Fallback
<1>5. /\ Head(toServer) \in OtherRecs /\ Tail(toServer) \in Seq(OtherRecs)
      /\ <<Head(toServer)>> \in Seq(OtherRecs)
      /\ <<Head(toServer)>> \o Tail(toServer) = toServer
  BY <1>2, <1>4, FirstRec
<1>6. ASSUME /\ forwardedUp' \in Seq(OtherRecs) /\ toServer' \in Seq(OtherRecs)
             /\ copier'.up \in {"copy", "fallback", "failed"} /\ DOMAIN copier' = {"up", "down"},
             forwardedUp' \o toServer' = forwardedUp \o toServer
      PROVE  PassingInv'
  <2>1. PassingTypes'
    BY <1>1, <1>3, <1>6 DEF PassingTypes
  <2>2. forwardedUp' \o toServer' = clientSent'
    BY <1>1, <1>3, <1>6
  <2>3. InHands' = InHands
    BY <1>3 DEF InHands
  <2>4. clientRead' \o (toClient' \o (InHands' \o fakeConn')) = targetSent'
    BY <1>1, <1>3, <2>3
  <2> QED
    BY <2>1, <2>2, <2>4 DEF PassingInv
<1>7. CASE ShadowTls!CopyUp
  <2> DEFINE h == <<Head(toServer)>>
             t == Tail(toServer)
             to == IF (IF Head(toServer).type = 23 THEN apps + 1 ELSE apps) > 3 THEN "fallback"
                   ELSE IF step.up + 1 > 8 THEN "failed" ELSE copier.up
  <2>1. ~ShadowTls!Recognised(Head(toServer))
    <3>1. Head(toServer).what \in OtherNames
      BY <1>5 DEF OtherRecs
    <3>2. Head(toServer).what # "sum"
      BY <3>1 DEF OtherNames
    <3> QED
      BY <3>2 DEF ShadowTls!Recognised
  <2>2. /\ toServer' = t
        /\ forwardedUp' = Append(forwardedUp, Head(toServer))
        /\ copier' = [copier EXCEPT !.up = to]
    BY <1>7, <2>1 DEF ShadowTls!CopyUp
  <2>3. to \in {"copy", "fallback", "failed"}
    BY <1>2
  <2> HIDE DEF to
  <2>4. copier'.up \in {"copy", "fallback", "failed"} /\ DOMAIN copier' = {"up", "down"}
    BY <1>2, <2>2, <2>3
  <2>5. forwardedUp' = forwardedUp \o h
    BY <1>2, <1>5, <2>2, AppendIsConcat
  <2>6. h \in Seq(OtherRecs) /\ t \in Seq(OtherRecs) /\ h \o t = toServer
    BY <1>5
  <2> HIDE DEF h, t
  <2>7. (forwardedUp \o h) \o t = forwardedUp \o (h \o t)
    BY <1>2, <2>6, RegroupedRecs, ZenonT(60)
  <2>8. forwardedUp \o h \in Seq(OtherRecs)
    BY <1>2, <2>6, JoinedRecs
  <2> QED
    BY <1>6, <2>2, <2>4, <2>5, <2>6, <2>7, <2>8
<1>8. CASE ShadowTls!Fallback
  <2>1. forwardedUp' = forwardedUp \o toServer /\ toServer' = <<>> /\ copier' = copier
    BY <1>8 DEF ShadowTls!Fallback
  <2>2. forwardedUp \o toServer \in Seq(OtherRecs) /\ <<>> \in Seq(OtherRecs)
    BY <1>2, JoinedRecs
  <2> DEFINE w == forwardedUp \o toServer
  <2>3. w \in Seq(OtherRecs)
    BY <2>2
  <2> HIDE DEF w
  <2>4. w \o <<>> = w
    BY <2>3, ConcatEmptySeq
  <2>5. forwardedUp' \o toServer' = forwardedUp \o toServer
    BY <2>1, <2>4 DEF w
  <2> QED
    BY <1>2, <1>6, <2>1, <2>2, <2>5
<1> QED
  BY <1>7, <1>8

LEMMA PassingStep ==
  ASSUME PassingInv, ShadowTls!Next
  PROVE  PassingInv'
<1>1. /\ mode = 2 /\ copier.up \in {"copy", "fallback", "failed"} /\ who = "other"
  BY DEF PassingInv, PassingTypes
<1>2. ~ShadowTls!Taken
  BY <1>1 DEF ShadowTls!Taken
<1>3. /\ ~ShadowTls!CloseFake /\ ~ShadowTls!HandshakeUp /\ ~ShadowTls!HandshakeDown
      /\ ~ShadowTls!TunnelRead /\ ~ShadowTls!TunnelWrite
  BY <1>1, <1>2 DEF ShadowTls!CloseFake, ShadowTls!HandshakeUp, ShadowTls!HandshakeDown,
                    ShadowTls!TunnelRead, ShadowTls!TunnelWrite, ShadowTls!Passes
<1>4. \/ \/ ShadowTls!ClientHello \/ ShadowTls!ClientSum \/ ShadowTls!ClientData
         \/ ShadowTls!ClientReadData
         \/ \E n \in 1..Len(toClient) : ShadowTls!ClientReads(n)
      \/ ShadowTls!TargetAnswers \/ ShadowTls!TargetTicket
      \/ ShadowTls!CopyDown \/ ShadowTls!HashWrite \/ ShadowTls!CopyUp \/ ShadowTls!Fallback
  BY <1>3 DEF ShadowTls!Next
<1> QED
  BY <1>4, PassingClient, PassingTarget, PassingDown, PassingUp

LEMMA PassingKeeps ==
  ASSUME PassingInv
  PROVE  ShadowTls!Passing
<1> DEFINE a == clientRead
           b == toClient
           h == InHands \o fakeConn
           r == a \o b
<1>1. /\ a \in Seq(OtherRecs) /\ b \in Seq(OtherRecs) /\ fakeConn \in Seq(OtherRecs)
      /\ InHands \in Seq(OtherRecs) /\ tunnel = <<>> /\ forwardedUp \o toServer = clientSent
      /\ a \o (b \o h) = targetSent
  <2>1. PassingTypes
    BY DEF PassingInv
  <2>2. InHands \in Seq(OtherRecs)
    BY <2>1 DEF PassingTypes, InHands
  <2> QED
    BY <2>1, <2>2 DEF PassingInv, PassingTypes
<1>2. h \in Seq(OtherRecs)
  BY <1>1, JoinedRecs
<1> HIDE DEF a, b, h
<1>3. r \in Seq(OtherRecs)
  BY <1>1, JoinedRecs
<1>4. r \o h = targetSent
  BY <1>1, <1>2, RegroupedRecs, ZenonT(60)
<1> HIDE DEF r
<1>5. Len(targetSent) = Len(r) + Len(h) /\ targetSent \in Seq(OtherRecs)
      /\ \A i \in 1..Len(r) : targetSent[i] = r[i]
  <2>1. /\ r \o h \in Seq(OtherRecs) /\ Len(r \o h) = Len(r) + Len(h)
        /\ \A i \in 1..Len(r) + Len(h) : (r \o h)[i] = IF i <= Len(r) THEN r[i] ELSE h[i - Len(r)]
    BY <1>2, <1>3, ConcatProperties
  <2>2. Len(r) \in Nat /\ Len(h) \in Nat
    BY <1>2, <1>3, LenProperties
  <2>3. \A i \in 1..Len(r) : i \in 1..Len(r) + Len(h) /\ i <= Len(r)
    BY <2>2
  <2> QED
    BY <1>4, <2>1, <2>3
<1>6. Len(r) <= Len(targetSent) /\ SubSeq(targetSent, 1, Len(r)) = r
  <2>1. SubSeq(targetSent, 1, Len(r)) = r
    <3>1. SubSeq(r \o h, 1, Len(r)) = r
      BY <1>2, <1>3, SubSeqOfConcat1, SubSeqFull
    <3> QED
      BY <1>4, <3>1
  <2>2. Len(r) \in Nat /\ Len(h) \in Nat
    BY <1>2, <1>3, LenProperties
  <2>3. Len(r) <= Len(targetSent)
    BY <1>5, <2>2
  <2> QED
    BY <2>1, <2>3
<1> QED
  BY <1>1, <1>6 DEF ShadowTls!Passing, r, a, b

-----------------------------------------------------------------------------
(* In a behaviour of the whole, who the client is stays as it is.          *)
LEMMA SettingKept ==
  ASSUME ShadowTls!Next
  PROVE  who' = who
<1>1. UNCHANGED ShadowTls!setting
  BY DEF ShadowTls!Next, ShadowTls!ClientHello, ShadowTls!ClientSum, ShadowTls!ClientData,
         ShadowTls!ClientReadData, ShadowTls!ClientReads, ShadowTls!TargetAnswers,
         ShadowTls!TargetTicket, ShadowTls!CopyDown, ShadowTls!HashWrite, ShadowTls!CopyUp,
         ShadowTls!CloseFake, ShadowTls!Fallback, ShadowTls!HandshakeUp,
         ShadowTls!HandshakeDown, ShadowTls!TunnelRead, ShadowTls!TunnelWrite
<1> QED
  BY <1>1 DEF ShadowTls!setting

-----------------------------------------------------------------------------
(* ShadowTls with a client of ours, as long as the target sends no ticket  *)
(* of TLS 1.3.  What either side ever sends is settled: the client the     *)
(* UpLen records of its handshake, then its checksum (version 2) and data; *)
(* the target EndAt records in answer to the hello and DownLen in all; the *)
(* tunnel replies.  So every queue and every list is a stretch of one of   *)
(* two streams, and where it lies says all.                                *)
OwnNames ==
  {"hello", "ccs", "fin", "key", "hs", "end", "newticket", "sum", "app", "response", "ticket",
   "reply", ""}

OwnRecs == [type : Nat, what : OwnNames, covers : Nat]

UpLen == IF tls = "1.3" THEN 3 ELSE 4
EndAt == IF tls = "1.3" THEN 3 ELSE flight
DownLen == IF tls = "1.3" THEN 3 ELSE IF extra THEN flight + 3 ELSE flight + 2

UpRec(k) ==
  IF k > UpLen
  THEN IF mode = 2 /\ k = UpLen + 1 THEN [type |-> 23, what |-> "sum", covers |-> DownLen]
       ELSE ShadowTls!Rec(23, "app")
  ELSE IF k = 1 THEN ShadowTls!Rec(22, "hello")
  ELSE IF k = UpLen THEN ShadowTls!Rec(IF tls = "1.3" THEN 23 ELSE 22, "fin")
  ELSE IF k = UpLen - 1 THEN ShadowTls!Rec(20, "ccs")
  ELSE ShadowTls!Rec(22, "key")

DownRec(k) ==
  IF k > DownLen THEN ShadowTls!Rec(23, "reply")
  ELSE IF tls = "1.3"
  THEN IF k = 1 THEN ShadowTls!Rec(22, "hello")
       ELSE IF k = 2 THEN ShadowTls!Rec(20, "ccs")
       ELSE ShadowTls!Rec(23, "end")
  ELSE IF k <= flight THEN ShadowTls!Rec(22, IF k = flight THEN "end" ELSE "hs")
  ELSE IF k = DownLen THEN ShadowTls!Rec(22, "fin")
  ELSE IF k = DownLen - 1 THEN ShadowTls!Rec(20, "ccs")
  ELSE ShadowTls!Rec(22, "newticket")

UpStream == [k \in Nat |-> UpRec(k)]
DownStream == [k \in Nat |-> DownRec(k)]

(* The records s are those of the stream f behind the first o. *)
Stretch(s, f, o) == s \in Seq(OwnRecs) /\ \A i \in 1..Len(s) : s[i] = f[o + i]

(* How many records the client has sent, how many of them the server has   *)
(* taken, and how many of these it has passed on; how many the target has  *)
(* sent, how many of them the server has taken, how many have come to the  *)
(* client, and how many to this or on the way.                             *)
SentUp == Len(clientSent)
GoneUp == Len(clientSent) - Len(toServer)
PassedUp == Len(forwardedUp)
SentDown == Len(targetSent)
GoneDown == Len(targetSent) - Len(fakeConn)
ReadDown == Len(clientRead)
PutDown == Len(clientRead) + Len(toClient)

OwnSetting ==
  /\ who = "ours" /\ mode \in {1, 2} /\ tls \in {"1.2", "1.3"} /\ extra \in BOOLEAN
  /\ flight \in {1, 5} /\ (tls = "1.3" => flight = 1 /\ ~extra)
  /\ DOMAIN copier = {"up", "down"} /\ DOMAIN step = {"up", "down"}

OwnStreams ==
  /\ Stretch(clientSent, UpStream, 0) /\ Stretch(toServer, UpStream, GoneUp)
  /\ Stretch(forwardedUp, UpStream, 0)
  /\ Stretch(targetSent, DownStream, 0) /\ Stretch(fakeConn, DownStream, GoneDown)
  /\ Stretch(clientRead, DownStream, 0) /\ Stretch(toClient, DownStream, ReadDown)

OwnTunnel ==
  /\ tunnel \in Seq(OwnRecs) /\ \A i \in 1..Len(tunnel) : tunnel[i].what = "app"
  /\ data \in Seq(OwnRecs) /\ \A i \in 1..Len(data) : data[i].what = "reply"

(* Nothing but the handshake is passed on, and the target answers it.      *)
OwnTarget ==
  /\ GoneUp \in Nat /\ GoneDown \in Nat /\ seen \in Nat /\ seen <= PassedUp
  /\ (GoneUp <= UpLen => PassedUp = GoneUp) /\ (GoneUp > UpLen => PassedUp = UpLen)
  /\ seen = 0 => SentDown = 0
  /\ seen > 0 /\ seen < UpLen => SentDown = EndAt
  /\ seen = UpLen => SentDown = DownLen

(* How far the client is says what it has sent and read.                   *)
OwnClient ==
  /\ client \in {"start", "wait", "finish", "ready", "open"}
  /\ client = "start" => SentUp = 0 /\ ReadDown = 0
  /\ client = "wait" => SentUp = 1 /\ ReadDown < EndAt
  /\ client = "finish" => tls = "1.2" /\ SentUp = UpLen /\ EndAt <= ReadDown /\ ReadDown < DownLen
  /\ client = "ready" => ReadDown >= DownLen /\ SentUp >= UpLen /\ (mode = 2 => SentUp = UpLen)
  /\ client = "open" => mode = 2 /\ ReadDown >= DownLen /\ SentUp >= UpLen + 1

(* Version 2: the checksum has what was taken from the target, and as much *)
(* was passed to the client, or is about to be.                            *)
OwnSecond ==
  /\ hashW \in [phase : {1, 2, 3}, rec : OwnRecs]
  /\ GoneUp <= UpLen => copier.up = "copy"
  /\ GoneUp > UpLen => copier.up = "taken"
  /\ apps \in {0, 1} /\ (PassedUp < UpLen => apps = 0)
  /\ step.up = PassedUp
  /\ hashW.phase = 2 => hashed = GoneDown - 1
  /\ hashW.phase # 2 => hashed = GoneDown
  /\ hashW.phase = 1 => PutDown = GoneDown \/ (PutDown >= DownLen /\ GoneDown = DownLen)
  /\ hashW.phase # 1 => PutDown = GoneDown - 1 /\ hashW.rec = DownStream[GoneDown]
  /\ SentUp <= UpLen => PutDown <= GoneDown
  /\ fakeOpen \in BOOLEAN /\ (~fakeOpen => GoneUp > UpLen)

(* Version 1: each direction is where the count of its records says.  The  *)
(* handshake of TLS 1.3 ends for it with the first record of data.         *)
OwnFirst ==
  /\ hashW.phase = 1
  /\ GoneUp <= UpLen => step.up = GoneUp
  /\ step.down = GoneDown
  /\ GoneUp < UpLen - 1 => copier.up = "copy"
  /\ GoneUp = UpLen - 1 => copier.up = "last"
  /\ GoneUp >= UpLen => copier.up = "done"
  /\ tls = "1.2" =>
       /\ GoneDown < DownLen - 1 => copier.down = "copy"
       /\ GoneDown = DownLen - 1 /\ DownLen = 8 => copier.down = "failed"
       /\ GoneDown = DownLen - 1 /\ DownLen # 8 => copier.down = "last"
       /\ GoneDown = DownLen => copier.down = "done"
       /\ PutDown = GoneDown \/ (PutDown >= DownLen /\ GoneDown = DownLen)
  /\ tls = "1.3" =>
       /\ GoneDown < 2 => copier.down = "copy"
       /\ GoneDown = 2 => copier.down = "last"
       /\ GoneDown = 3 => copier.down = "failed"
       /\ PutDown <= 2 /\ (PutDown = GoneDown \/ GoneDown = 3)

OwnInv ==
  /\ OwnSetting /\ OwnStreams /\ OwnTunnel /\ OwnTarget /\ OwnClient
  /\ mode = 2 => OwnSecond
  /\ mode = 1 => OwnFirst

(* Stretches.                                                              *)
LEMMA StretchJoin ==
  ASSUME NEW f, NEW o \in Nat, NEW a, NEW b, Stretch(a, f, o), Stretch(b, f, o + Len(a))
  PROVE  Stretch(a \o b, f, o) /\ Len(a \o b) = Len(a) + Len(b)
<1>1. a \in Seq(OwnRecs) /\ b \in Seq(OwnRecs)
  BY DEF Stretch
<1>2. /\ a \o b \in Seq(OwnRecs) /\ Len(a \o b) = Len(a) + Len(b)
      /\ \A i \in 1..Len(a) + Len(b) :
           (a \o b)[i] = IF i <= Len(a) THEN a[i] ELSE b[i - Len(a)]
  BY <1>1, ConcatProperties
<1>3. Len(a) \in Nat /\ Len(b) \in Nat
  BY <1>1, LenProperties
<1>4. ASSUME NEW i \in 1..Len(a \o b) PROVE (a \o b)[i] = f[o + i]
  <2>1. i \in 1..Len(a) + Len(b)
    BY <1>2
  <2>2. CASE i <= Len(a)
    <3>1. i \in 1..Len(a)
      BY <1>3, <2>1, <2>2
    <3> QED
      BY <1>2, <2>1, <2>2, <3>1 DEF Stretch
  <2>3. CASE ~(i <= Len(a))
    <3>1. i - Len(a) \in 1..Len(b) /\ (o + Len(a)) + (i - Len(a)) = o + i
      BY <1>3, <2>1, <2>3
    <3>2. b[i - Len(a)] = f[(o + Len(a)) + (i - Len(a))]
      BY <3>1 DEF Stretch
    <3> QED
      BY <1>2, <2>1, <2>3, <3>1, <3>2
  <2> QED
    BY <2>2, <2>3
<1> QED
  BY <1>2, <1>4 DEF Stretch

LEMMA StretchAdd ==
  ASSUME NEW f, NEW o \in Nat, NEW a, NEW r \in OwnRecs, Stretch(a, f, o),
         r = f[o + Len(a) + 1]
  PROVE  Stretch(Append(a, r), f, o) /\ Len(Append(a, r)) = Len(a) + 1
<1> DEFINE b == <<r>>
<1>1. a \in Seq(OwnRecs) /\ Len(a) \in Nat
  BY LenProperties DEF Stretch
<1>2. b \in Seq(OwnRecs) /\ Len(b) = 1 /\ b[1] = r
  OBVIOUS
<1>3. Append(a, r) = a \o b
  BY <1>1, AppendIsConcat
<1>4. o + Len(a) + 1 = (o + Len(a)) + 1
  BY <1>1
<1> HIDE DEF b
<1>5. Stretch(b, f, o + Len(a))
  <2>1. \A i \in 1..Len(b) : i = 1
    BY <1>2
  <2> QED
    BY <1>2, <1>4, <2>1 DEF Stretch
<1> QED
  BY <1>2, <1>3, <1>5, StretchJoin

LEMMA StretchTail ==
  ASSUME NEW f, NEW o \in Nat, NEW a, Stretch(a, f, o), a # <<>>
  PROVE  /\ Head(a) = f[o + 1] /\ Head(a) \in OwnRecs /\ Len(a) \in Nat /\ Len(a) >= 1
         /\ Stretch(Tail(a), f, o + 1) /\ Len(Tail(a)) = Len(a) - 1
<1>1. a \in Seq(OwnRecs) /\ Len(a) \in Nat
  BY LenProperties DEF Stretch
<1>2. Len(a) >= 1
  BY <1>1, EmptySeq
<1>3. /\ Head(a) \in OwnRecs /\ Tail(a) \in Seq(OwnRecs) /\ Len(Tail(a)) = Len(a) - 1
      /\ \A i \in 1..Len(Tail(a)) : Tail(a)[i] = a[i + 1]
  BY <1>1, HeadTailProperties
<1>4. Head(a) = a[1] /\ 1 \in 1..Len(a)
  BY <1>1, <1>2
<1>5. ASSUME NEW i \in 1..Len(Tail(a)) PROVE Tail(a)[i] = f[(o + 1) + i]
  <2>1. i + 1 \in 1..Len(a) /\ o + (i + 1) = (o + 1) + i
    BY <1>1, <1>2, <1>3
  <2>2. a[i + 1] = f[o + (i + 1)]
    BY <2>1 DEF Stretch
  <2> QED
    BY <1>3, <2>1, <2>2
<1> QED
  BY <1>1, <1>2, <1>3, <1>4, <1>5 DEF Stretch

LEMMA StretchCut ==
  ASSUME NEW f, NEW o \in Nat, NEW a, NEW n \in 1..Len(a), Stretch(a, f, o)
  PROVE  /\ Stretch(SubSeq(a, 1, n), f, o) /\ Len(SubSeq(a, 1, n)) = n
         /\ Stretch(SubSeq(a, n + 1, Len(a)), f, o + n)
         /\ Len(SubSeq(a, n + 1, Len(a))) = Len(a) - n
<1>1. a \in Seq(OwnRecs) /\ Len(a) \in Nat /\ n \in Nat /\ n <= Len(a) /\ n >= 1
  BY LenProperties DEF Stretch
<1>2. \A i \in 1..Len(a) : a[i] \in OwnRecs /\ a[i] = f[o + i]
  BY <1>1, ElementOfSeq DEF Stretch
<1>3. /\ SubSeq(a, 1, n) \in Seq(OwnRecs) /\ Len(SubSeq(a, 1, n)) = n
      /\ \A i \in 1..n : SubSeq(a, 1, n)[i] = a[i]
  <2>1. \A i \in 1..n : a[i] \in OwnRecs
    BY <1>1, <1>2
  <2>2. 1 \in Int /\ n \in Int /\ 1 <= n + 1 /\ n - 1 + 1 = n
    BY <1>1
  <2>3. /\ SubSeq(a, 1, n) \in Seq(OwnRecs)
        /\ Len(SubSeq(a, 1, n)) = (IF 1 <= n THEN n - 1 + 1 ELSE 0)
        /\ \A i \in 1..n - 1 + 1 : SubSeq(a, 1, n)[i] = a[1 + i - 1]
    BY <2>1, <2>2, SubSeqProperties
  <2>4. \A i \in 1..n : i \in 1..n - 1 + 1 /\ 1 + i - 1 = i
    BY <1>1
  <2> QED
    BY <1>1, <2>2, <2>3, <2>4
<1> DEFINE z == Len(a)
<1>4. /\ SubSeq(a, n + 1, z) \in Seq(OwnRecs) /\ Len(SubSeq(a, n + 1, z)) = z - n
      /\ \A i \in 1..z - n : SubSeq(a, n + 1, z)[i] = a[n + i]
  <2>1. \A i \in n + 1..z : a[i] \in OwnRecs
    BY <1>1, <1>2
  <2>2. n + 1 \in Int /\ z \in Int /\ z - (n + 1) + 1 = z - n
    BY <1>1
  <2>3. /\ SubSeq(a, n + 1, z) \in Seq(OwnRecs)
        /\ Len(SubSeq(a, n + 1, z)) = (IF n + 1 <= z THEN z - (n + 1) + 1 ELSE 0)
        /\ \A i \in 1..z - (n + 1) + 1 : SubSeq(a, n + 1, z)[i] = a[(n + 1) + i - 1]
    BY <2>1, <2>2, SubSeqProperties
  <2>4. \A i \in 1..z - n : i \in 1..z - (n + 1) + 1 /\ (n + 1) + i - 1 = n + i
    BY <1>1
  <2>5. ~(n + 1 <= z) => z - n = 0
    BY <1>1
  <2> QED
    BY <2>2, <2>3, <2>4, <2>5
<1>5. \A i \in 1..n : i \in 1..Len(a)
  BY <1>1
<1>6. \A i \in 1..z - n : n + i \in 1..Len(a) /\ o + (n + i) = (o + n) + i
  BY <1>1
<1>7. \A i \in 1..z - n : SubSeq(a, n + 1, z)[i] = f[(o + n) + i]
  BY <1>2, <1>4, <1>6
<1> QED
  BY <1>2, <1>3, <1>4, <1>5, <1>7 DEF Stretch

LEMMA StretchNone ==
  ASSUME NEW f, NEW o
  PROVE  Stretch(<<>>, f, o) /\ Len(<<>>) = 0
BY DEF Stretch

-----------------------------------------------------------------------------
(* What the two streams hold.                                              *)
LEMMA OwnLengths ==
  ASSUME OwnSetting
  PROVE  /\ UpLen \in {3, 4} /\ EndAt \in {1, 3, 5} /\ DownLen \in {3, 4, 6, 7, 8}
         /\ tls = "1.3" => UpLen = 3 /\ EndAt = 3 /\ DownLen = 3
         /\ tls = "1.2" => /\ UpLen = 4 /\ EndAt = flight /\ EndAt \in {1, 5}
                           /\ DownLen \in {EndAt + 2, EndAt + 3}
                           /\ DownLen = (IF extra THEN flight + 3 ELSE flight + 2)
         /\ tls \in {"1.2", "1.3"}
         /\ DownLen = 8 => extra /\ flight = 5
<1>1. CASE tls = "1.3"
  BY <1>1 DEF OwnSetting, UpLen, EndAt, DownLen
<1>2. CASE tls = "1.2"
  <2>1. UpLen = 4 /\ EndAt = flight /\ DownLen = (IF extra THEN flight + 3 ELSE flight + 2)
    BY <1>2 DEF UpLen, EndAt, DownLen
  <2>2. flight \in {1, 5}
    BY DEF OwnSetting
  <2>3. CASE extra
    BY <1>2, <2>1, <2>2, <2>3
  <2>4. CASE ~extra
    BY <1>2, <2>1, <2>2, <2>4
  <2> QED
    BY <2>3, <2>4
<1> QED
  BY <1>1, <1>2 DEF OwnSetting

LEMMA OwnRecsAre ==
  ASSUME NEW type \in Nat, NEW what \in OwnNames
  PROVE  /\ ShadowTls!Rec(type, what) \in OwnRecs
         /\ ShadowTls!Rec(type, what).type = type /\ ShadowTls!Rec(type, what).what = what
BY DEF ShadowTls!Rec, OwnRecs

LEMMA UpRecIs ==
  ASSUME OwnSetting, NEW k \in Nat \ {0}
  PROVE  /\ UpStream[k] \in OwnRecs
         /\ k <= UpLen => UpStream[k].what \in {"hello", "ccs", "fin", "key"}
         /\ k <= UpLen => (UpStream[k].what = "hello" <=> k = 1)
         /\ k <= UpLen => (UpStream[k].what = "fin" <=> k = UpLen)
         /\ k < UpLen - 1 => UpStream[k].type = 22
         /\ k = UpLen - 1 => UpStream[k].type = 20
         /\ k = UpLen => UpStream[k].type = (IF tls = "1.3" THEN 23 ELSE 22)
         /\ mode = 2 /\ k = UpLen + 1 =>
              UpStream[k] = [type |-> 23, what |-> "sum", covers |-> DownLen]
         /\ k > UpLen /\ ~(mode = 2 /\ k = UpLen + 1) => UpStream[k] = ShadowTls!Rec(23, "app")
<1>1. UpLen \in {3, 4} /\ DownLen \in Nat
  BY OwnLengths
<1>2. UpStream[k] = UpRec(k)
  BY DEF UpStream
<1>3. "hello" \in OwnNames /\ "ccs" \in OwnNames /\ "fin" \in OwnNames /\ "key" \in OwnNames
      /\ "sum" \in OwnNames /\ "app" \in OwnNames
  BY DEF OwnNames
<1>4. CASE k > UpLen
  <2>1. k > UpLen => ~(k <= UpLen) /\ ~(k < UpLen - 1) /\ k # UpLen - 1 /\ k # UpLen
    BY <1>1
  <2>2. CASE mode = 2 /\ k = UpLen + 1
    <3>1. UpStream[k] = [type |-> 23, what |-> "sum", covers |-> DownLen]
      BY <1>2, <1>4, <2>2 DEF UpRec
    <3>2. [type |-> 23, what |-> "sum", covers |-> DownLen] \in OwnRecs
      BY <1>1, <1>3 DEF OwnRecs
    <3> QED
      BY <1>4, <2>1, <2>2, <3>1, <3>2
  <2>3. CASE ~(mode = 2 /\ k = UpLen + 1)
    <3>1. UpStream[k] = ShadowTls!Rec(23, "app")
      BY <1>2, <1>4, <2>3 DEF UpRec
    <3>2. ShadowTls!Rec(23, "app") \in OwnRecs
      BY <1>3, OwnRecsAre
    <3> QED
      BY <1>4, <2>1, <2>3, <3>1, <3>2
  <2> QED
    BY <2>2, <2>3
<1>5. CASE k <= UpLen
  <2>0. k <= UpLen => ~(k > UpLen) /\ k # UpLen + 1
    BY <1>1
  <2>1. CASE k = 1
    <3>1. UpStream[k] = ShadowTls!Rec(22, "hello")
      BY <1>2, <1>5, <2>0, <2>1 DEF UpRec
    <3>2. UpStream[k] \in OwnRecs /\ UpStream[k].type = 22 /\ UpStream[k].what = "hello"
      BY <1>3, <3>1, OwnRecsAre
    <3>3. k # UpLen /\ k # UpLen - 1
      BY <1>1, <2>1
    <3> QED
      BY <1>5, <2>0, <2>1, <3>2, <3>3
  <2>2. CASE k = UpLen
    <3>1. UpStream[k] = ShadowTls!Rec(IF tls = "1.3" THEN 23 ELSE 22, "fin")
      BY <1>1, <1>2, <1>5, <2>0, <2>2 DEF UpRec
    <3>2. UpStream[k] \in OwnRecs /\ UpStream[k].what = "fin"
          /\ UpStream[k].type = (IF tls = "1.3" THEN 23 ELSE 22)
      <4>1. (IF tls = "1.3" THEN 23 ELSE 22) \in Nat
        OBVIOUS
      <4> QED
        BY <1>3, <3>1, <4>1, OwnRecsAre
    <3>3. k # 1 /\ k # UpLen - 1 /\ ~(k < UpLen - 1)
      BY <1>1, <2>2
    <3> QED
      BY <1>5, <2>0, <2>2, <3>2, <3>3
  <2>3. CASE k # 1 /\ k # UpLen /\ k = UpLen - 1
    <3>1. UpStream[k] = ShadowTls!Rec(20, "ccs")
      BY <1>2, <1>5, <2>0, <2>3 DEF UpRec
    <3>2. UpStream[k] \in OwnRecs /\ UpStream[k].type = 20 /\ UpStream[k].what = "ccs"
      BY <1>3, <3>1, OwnRecsAre
    <3>3. ~(k < UpLen - 1)
      BY <1>1, <2>3
    <3> QED
      BY <1>5, <2>0, <2>3, <3>2, <3>3
  <2>4. CASE k # 1 /\ k # UpLen /\ k # UpLen - 1
    <3>1. UpStream[k] = ShadowTls!Rec(22, "key")
      BY <1>2, <1>5, <2>0, <2>4 DEF UpRec
    <3>2. UpStream[k] \in OwnRecs /\ UpStream[k].type = 22 /\ UpStream[k].what = "key"
      BY <1>3, <3>1, OwnRecsAre
    <3> QED
      BY <1>5, <2>0, <2>4, <3>2
  <2> QED
    BY <2>1, <2>2, <2>3, <2>4
<1> QED
  BY <1>1, <1>4, <1>5

LEMMA DownRecIs ==
  ASSUME OwnSetting, NEW k \in Nat \ {0}
  PROVE  /\ DownStream[k] \in OwnRecs
         /\ DownStream[k].what # "ticket"
         /\ k <= DownLen => (DownStream[k].what = "end" <=> k = EndAt)
         /\ tls = "1.2" /\ k <= DownLen => (DownStream[k].what = "fin" <=> k = DownLen)
         /\ k > DownLen => DownStream[k] = ShadowTls!Rec(23, "reply")
         /\ tls = "1.2" /\ k < DownLen - 1 => DownStream[k].type = 22
         /\ tls = "1.2" /\ k = DownLen - 1 => DownStream[k].type = 20
         /\ tls = "1.2" /\ k = DownLen => DownStream[k].type = 22
         /\ tls = "1.3" /\ k = 1 => DownStream[k].type = 22
         /\ tls = "1.3" /\ k = 2 => DownStream[k].type = 20
         /\ tls = "1.3" /\ k = 3 => DownStream[k].type = 23
<1>1. DownStream[k] = DownRec(k)
  BY DEF DownStream
<1>2. "hello" \in OwnNames /\ "ccs" \in OwnNames /\ "fin" \in OwnNames /\ "hs" \in OwnNames
      /\ "end" \in OwnNames /\ "reply" \in OwnNames /\ "newticket" \in OwnNames
  BY DEF OwnNames
<1>3. DownLen \in Nat
  BY OwnLengths
<1>4. CASE k > DownLen
  <2>1. DownStream[k] = ShadowTls!Rec(23, "reply")
    BY <1>1, <1>4 DEF DownRec
  <2>2. DownStream[k] \in OwnRecs /\ DownStream[k].what = "reply"
    BY <1>2, <2>1, OwnRecsAre
  <2>3. k > DownLen => ~(k <= DownLen) /\ ~(k < DownLen - 1) /\ k # DownLen - 1 /\ k # DownLen
    BY <1>3
  <2>4. tls = "1.3" => k # 1 /\ k # 2 /\ k # 3
    BY <1>4, OwnLengths
  <2> QED
    BY <1>4, <2>1, <2>2, <2>3, <2>4
<1>5. CASE k <= DownLen /\ tls = "1.3"
  <2>1. DownLen = 3 /\ EndAt = 3 /\ ~(k > DownLen) /\ k \in {1, 2, 3}
    BY <1>5, OwnLengths
  <2>2. CASE k = 1
    <3>1. DownStream[k] = ShadowTls!Rec(22, "hello")
      BY <1>1, <1>5, <2>1, <2>2 DEF DownRec
    <3>2. DownStream[k] \in OwnRecs /\ DownStream[k].type = 22 /\ DownStream[k].what = "hello"
      BY <1>2, <3>1, OwnRecsAre
    <3> QED
      BY <1>5, <2>1, <2>2, <3>2
  <2>3. CASE k = 2
    <3>1. DownStream[k] = ShadowTls!Rec(20, "ccs")
      BY <1>1, <1>5, <2>1, <2>3 DEF DownRec
    <3>2. DownStream[k] \in OwnRecs /\ DownStream[k].type = 20 /\ DownStream[k].what = "ccs"
      BY <1>2, <3>1, OwnRecsAre
    <3> QED
      BY <1>5, <2>1, <2>3, <3>2
  <2>4. CASE k = 3
    <3>1. DownStream[k] = ShadowTls!Rec(23, "end")
      BY <1>1, <1>5, <2>1, <2>4 DEF DownRec
    <3>2. DownStream[k] \in OwnRecs /\ DownStream[k].type = 23 /\ DownStream[k].what = "end"
      BY <1>2, <3>1, OwnRecsAre
    <3> QED
      BY <1>5, <2>1, <2>4, <3>2
  <2> QED
    BY <2>1, <2>2, <2>3, <2>4
<1>6. CASE k <= DownLen /\ tls = "1.2"
  <2>1. /\ flight \in {1, 5} /\ EndAt = flight /\ DownLen \in {flight + 2, flight + 3}
        /\ ~(k > DownLen) /\ tls # "1.3"
    BY <1>3, <1>6, OwnLengths
  <2>2. CASE k < flight
    <3>1. DownStream[k] = ShadowTls!Rec(22, "hs")
      BY <1>1, <2>1, <2>2 DEF DownRec
    <3>2. DownStream[k] \in OwnRecs /\ DownStream[k].type = 22 /\ DownStream[k].what = "hs"
      BY <1>2, <3>1, OwnRecsAre
    <3>3. k # EndAt /\ k # DownLen /\ k # DownLen - 1
      BY <2>1, <2>2
    <3> QED
      BY <1>6, <2>1, <3>2, <3>3
  <2>3. CASE k = flight
    <3>1. DownStream[k] = ShadowTls!Rec(22, "end")
      BY <1>1, <2>1, <2>3 DEF DownRec
    <3>2. DownStream[k] \in OwnRecs /\ DownStream[k].type = 22 /\ DownStream[k].what = "end"
      BY <1>2, <3>1, OwnRecsAre
    <3>3. k = EndAt /\ k # DownLen /\ k # DownLen - 1
      BY <2>1, <2>3
    <3> QED
      BY <1>6, <2>1, <3>2, <3>3
  <2>4. CASE k > flight /\ k = DownLen
    <3>1. DownStream[k] = ShadowTls!Rec(22, "fin")
      BY <1>1, <2>1, <2>4 DEF DownRec
    <3>2. DownStream[k] \in OwnRecs /\ DownStream[k].type = 22 /\ DownStream[k].what = "fin"
      BY <1>2, <3>1, OwnRecsAre
    <3>3. k # EndAt /\ k = DownLen /\ k # DownLen - 1
      BY <2>1, <2>4
    <3> QED
      BY <1>6, <2>1, <3>2, <3>3
  <2>5. CASE k > flight /\ k # DownLen /\ k = DownLen - 1
    <3>1. DownStream[k] = ShadowTls!Rec(20, "ccs")
      BY <1>1, <2>1, <2>5 DEF DownRec
    <3>2. DownStream[k] \in OwnRecs /\ DownStream[k].type = 20 /\ DownStream[k].what = "ccs"
      BY <1>2, <3>1, OwnRecsAre
    <3>3. k # EndAt /\ k # DownLen /\ ~(k < DownLen - 1)
      BY <2>1, <2>5
    <3> QED
      BY <1>6, <2>1, <2>5, <3>2, <3>3
  <2>6. CASE k > flight /\ k # DownLen /\ k # DownLen - 1
    <3>1. DownStream[k] = ShadowTls!Rec(22, "newticket")
      BY <1>1, <2>1, <2>6 DEF DownRec
    <3>2. /\ DownStream[k] \in OwnRecs /\ DownStream[k].type = 22
          /\ DownStream[k].what = "newticket"
      BY <1>2, <3>1, OwnRecsAre
    <3>3. k # EndAt
      BY <2>1, <2>6
    <3> QED
      BY <1>6, <2>1, <2>6, <3>2, <3>3
  <2> QED
    BY <2>1, <2>2, <2>3, <2>4, <2>5, <2>6
<1>7. k <= DownLen \/ k > DownLen
  BY <1>3
<1> QED
  BY <1>4, <1>5, <1>6, <1>7, OwnLengths

(* The hello, the rest of the client's handshake, and the two answers.     *)
LEMMA OwnFlightsUp ==
  ASSUME OwnSetting
  PROVE  /\ Stretch(ShadowTls!Hello, UpStream, 0) /\ Len(ShadowTls!Hello) = 1
         /\ Stretch(ShadowTls!ClientFlight, UpStream, 1)
         /\ Len(ShadowTls!ClientFlight) = UpLen - 1
<1> DEFINE r(type, what) == ShadowTls!Rec(type, what)
<1>1. /\ r(22, "hello") \in OwnRecs /\ r(20, "ccs") \in OwnRecs /\ r(23, "fin") \in OwnRecs
      /\ r(22, "key") \in OwnRecs /\ r(22, "fin") \in OwnRecs
  BY OwnRecsAre DEF OwnNames
<1>2. UpStream[1] = UpRec(1) /\ UpStream[2] = UpRec(2) /\ UpStream[3] = UpRec(3)
      /\ UpStream[4] = UpRec(4)
  BY DEF UpStream
<1>3. UpStream[1] = r(22, "hello")
  BY <1>2, OwnLengths DEF UpRec
<1>4. Stretch(ShadowTls!Hello, UpStream, 0) /\ Len(ShadowTls!Hello) = 1
  <2> HIDE DEF r
  <2> DEFINE h == <<r(22, "hello")>>
  <2>1. h \in Seq(OwnRecs) /\ Len(h) = 1 /\ h[1] = r(22, "hello")
    BY <1>1
  <2>2. ShadowTls!Hello = h
    BY DEF ShadowTls!Hello, r
  <2> HIDE DEF h
  <2>3. \A i \in 1..Len(h) : i = 1 /\ 0 + i = 1
    BY <2>1
  <2> QED
    BY <1>3, <2>1, <2>2, <2>3 DEF Stretch
<1>5. CASE tls = "1.3"
  <2>1. UpLen = 3
    BY <1>5, OwnLengths
  <2>2. UpStream[2] = r(20, "ccs") /\ UpStream[3] = r(23, "fin")
    BY <1>2, <1>5, <2>1 DEF UpRec
  <2>3. ShadowTls!ClientFlight = <<r(20, "ccs"), r(23, "fin")>>
    BY <1>5 DEF ShadowTls!ClientFlight
  <2> HIDE DEF r
  <2> DEFINE h == <<r(20, "ccs"), r(23, "fin")>>
  <2>4. h \in Seq(OwnRecs) /\ Len(h) = 2 /\ h[1] = r(20, "ccs") /\ h[2] = r(23, "fin")
    BY <1>1
  <2>5. ShadowTls!ClientFlight = h
    BY <2>3
  <2> HIDE DEF h
  <2>6. \A i \in 1..Len(h) : (i = 1 /\ 1 + i = 2) \/ (i = 2 /\ 1 + i = 3)
    BY <2>4
  <2>7. \A i \in 1..Len(h) : h[i] = UpStream[1 + i]
    BY <2>2, <2>4, <2>6
  <2>8. Stretch(h, UpStream, 1) /\ 2 = UpLen - 1
    BY <2>1, <2>4, <2>7 DEF Stretch
  <2> QED
    BY <1>4, <2>4, <2>5, <2>8
<1>6. CASE tls = "1.2"
  <2>1. UpLen = 4
    BY <1>6, OwnLengths
  <2>2. UpStream[2] = r(22, "key") /\ UpStream[3] = r(20, "ccs") /\ UpStream[4] = r(22, "fin")
    BY <1>2, <1>6, <2>1 DEF UpRec
  <2>3. ShadowTls!ClientFlight = <<>> \o <<r(22, "key"), r(20, "ccs"), r(22, "fin")>>
    BY <1>6 DEF ShadowTls!ClientFlight, OwnSetting
  <2> HIDE DEF r
  <2> DEFINE h == <<r(22, "key"), r(20, "ccs"), r(22, "fin")>>
  <2>4. /\ h \in Seq(OwnRecs) /\ Len(h) = 3 /\ h[1] = r(22, "key") /\ h[2] = r(20, "ccs")
        /\ h[3] = r(22, "fin")
    BY <1>1
  <2>5. ShadowTls!ClientFlight = <<>> \o h
    BY <2>3
  <2> HIDE DEF h
  <2>6. ShadowTls!ClientFlight = h
    BY <2>4, <2>5, ConcatEmptySeq
  <2>7. \A i \in 1..Len(h) :
          (i = 1 /\ 1 + i = 2) \/ (i = 2 /\ 1 + i = 3) \/ (i = 3 /\ 1 + i = 4)
    BY <2>4
  <2>8. \A i \in 1..Len(h) : h[i] = UpStream[1 + i]
    BY <2>2, <2>4, <2>7
  <2>9. Stretch(h, UpStream, 1) /\ 3 = UpLen - 1
    BY <2>1, <2>4, <2>8 DEF Stretch
  <2> QED
    BY <1>4, <2>4, <2>6, <2>9
<1> QED
  BY <1>5, <1>6, OwnLengths

LEMMA OwnFlightsDown ==
  ASSUME OwnSetting
  PROVE  /\ Stretch(ShadowTls!TargetFlight, DownStream, 0)
         /\ Len(ShadowTls!TargetFlight) = EndAt
         /\ Stretch(ShadowTls!TargetFinish, DownStream, EndAt)
         /\ Len(ShadowTls!TargetFinish) = DownLen - EndAt
<1> DEFINE r(type, what) == ShadowTls!Rec(type, what)
<1>1. /\ r(22, "hello") \in OwnRecs /\ r(20, "ccs") \in OwnRecs /\ r(23, "end") \in OwnRecs
      /\ r(22, "end") \in OwnRecs /\ r(22, "hs") \in OwnRecs
      /\ r(22, "newticket") \in OwnRecs /\ r(22, "fin") \in OwnRecs
  BY OwnRecsAre DEF OwnNames
<1>2. \A k \in Nat : DownStream[k] = DownRec(k)
  BY DEF DownStream
<1>3. CASE tls = "1.3"
  <2>1. DownLen = 3 /\ EndAt = 3
    BY <1>3, OwnLengths
  <2>2. /\ DownRec(1) = r(22, "hello") /\ DownRec(2) = r(20, "ccs")
        /\ DownRec(3) = r(23, "end")
    BY <1>3, <2>1 DEF DownRec
  <2>3. /\ ShadowTls!TargetFlight = <<r(22, "hello"), r(20, "ccs"), r(23, "end")>>
        /\ ShadowTls!TargetFinish = <<>>
    BY <1>3 DEF ShadowTls!TargetFlight, ShadowTls!TargetFinish
  <2> HIDE DEF r
  <2> DEFINE h == <<r(22, "hello"), r(20, "ccs"), r(23, "end")>>
  <2>4. /\ h \in Seq(OwnRecs) /\ Len(h) = 3 /\ h[1] = r(22, "hello") /\ h[2] = r(20, "ccs")
        /\ h[3] = r(23, "end")
    BY <1>1
  <2>5. ShadowTls!TargetFlight = h
    BY <2>3
  <2> HIDE DEF h
  <2>6. \A i \in 1..Len(h) : 0 + i = i /\ i \in Nat /\ i \in {1, 2, 3}
    BY <2>4
  <2>7. \A i \in 1..Len(h) : h[i] = DownStream[0 + i]
    BY <1>2, <2>2, <2>4, <2>6
  <2>8. Stretch(h, DownStream, 0) /\ Len(h) = EndAt
    BY <2>1, <2>4, <2>7 DEF Stretch
  <2>9. Stretch(<<>>, DownStream, EndAt) /\ Len(<<>>) = 0
    BY StretchNone
  <2>10. DownLen - EndAt = 0
    BY <2>1
  <2> QED
    BY <2>3, <2>5, <2>8, <2>9, <2>10
<1>4. CASE tls = "1.2"
  <2>1. /\ flight \in {1, 5} /\ flight \in Nat /\ EndAt = flight /\ tls # "1.3"
        /\ DownLen = (IF extra THEN flight + 3 ELSE flight + 2)
    BY <1>4, OwnLengths
  <2> DEFINE t == [i \in 1..flight |-> r(22, IF i = flight THEN "end" ELSE "hs")]
  <2>2. ShadowTls!TargetFlight = t
    BY <2>1 DEF ShadowTls!TargetFlight
  <2>3. Stretch(t, DownStream, 0) /\ Len(t) = flight
    <3>1. ASSUME NEW i \in 1..flight
          PROVE  r(22, IF i = flight THEN "end" ELSE "hs") \in OwnRecs
      <4>1. CASE i = flight
        BY <1>1, <4>1
      <4>2. CASE i # flight
        BY <1>1, <4>2
      <4> QED
        BY <4>1, <4>2
    <3>2. t \in Seq(OwnRecs) /\ Len(t) = flight
      <4> HIDE DEF r
      <4> QED
        BY <2>1, <3>1, IsASeq
    <3>3. ASSUME NEW i \in 1..flight PROVE t[i] = DownStream[0 + i]
      <4>1. 0 + i = i /\ i \in Nat /\ i <= flight /\ ~(i > DownLen)
        BY <2>1, OwnLengths
      <4>2. DownRec(i) = r(22, IF i = flight THEN "end" ELSE "hs")
        BY <2>1, <4>1 DEF DownRec
      <4>3. t[i] = r(22, IF i = flight THEN "end" ELSE "hs")
        OBVIOUS
      <4> QED
        BY <1>2, <4>1, <4>2, <4>3
    <3> HIDE DEF t
    <3> QED
      BY <3>2, <3>3 DEF Stretch
  <2> DEFINE z == <<r(20, "ccs"), r(22, "fin")>>
             n == <<r(22, "newticket")>>
  <2>4. /\ z \in Seq(OwnRecs) /\ Len(z) = 2 /\ z[1] = r(20, "ccs") /\ z[2] = r(22, "fin")
        /\ n \in Seq(OwnRecs) /\ Len(n) = 1 /\ n[1] = r(22, "newticket")
    <3> HIDE DEF r
    <3> QED
      BY <1>1
  <2>5. DownRec(DownLen - 1) = r(20, "ccs") /\ DownRec(DownLen) = r(22, "fin")
    <3>1. /\ ~(DownLen - 1 > DownLen) /\ ~(DownLen > DownLen) /\ ~(DownLen - 1 <= flight)
          /\ ~(DownLen <= flight) /\ DownLen - 1 # DownLen
      BY <2>1, OwnLengths
    <3> QED
      BY <2>1, <3>1 DEF DownRec
  <2>6. Stretch(z, DownStream, DownLen - 2)
    <3>1. \A i \in 1..Len(z) : \/ i = 1 /\ (DownLen - 2) + i = DownLen - 1
                               \/ i = 2 /\ (DownLen - 2) + i = DownLen
      BY <2>4, OwnLengths
    <3>2. DownLen - 1 \in Nat /\ DownLen \in Nat
      BY OwnLengths
    <3> HIDE DEF z, r
    <3> QED
      BY <1>2, <2>4, <2>5, <3>1, <3>2 DEF Stretch
  <2>7. CASE ~extra
    <3>1. ShadowTls!TargetFinish = <<>> \o z
      BY <2>1, <2>7 DEF ShadowTls!TargetFinish
    <3> HIDE DEF z, t
    <3>2. ShadowTls!TargetFinish = z
      BY <2>4, <3>1, ConcatEmptySeq
    <3>3. DownLen - 2 = EndAt /\ DownLen - EndAt = 2
      BY <2>1, <2>7
    <3> QED
      BY <2>1, <2>2, <2>3, <2>4, <2>6, <3>2, <3>3
  <2>8. CASE extra
    <3>1. ShadowTls!TargetFinish = n \o z
      BY <2>1, <2>8 DEF ShadowTls!TargetFinish
    <3>2. DownLen - 2 = EndAt + 1 /\ DownLen - EndAt = 3 /\ EndAt \in Nat /\ 1 + 2 = 3
      BY <2>1, <2>8
    <3>3. Stretch(n, DownStream, EndAt)
      <4>1. DownRec(EndAt + 1) = r(22, "newticket")
        <5>1. /\ ~(EndAt + 1 > DownLen) /\ ~(EndAt + 1 <= flight) /\ EndAt + 1 # DownLen
              /\ EndAt + 1 # DownLen - 1
          BY <2>1, <3>2
        <5> QED
          BY <2>1, <5>1 DEF DownRec
      <4>2. \A i \in 1..Len(n) : i = 1
        BY <2>4
      <4>3. EndAt + 1 \in Nat
        BY <3>2
      <4> HIDE DEF n, r
      <4> QED
        BY <1>2, <2>4, <4>1, <4>2, <4>3 DEF Stretch
    <3> HIDE DEF n, z, t
    <3>4. Stretch(n \o z, DownStream, EndAt) /\ Len(n \o z) = 1 + 2
      <4>1. EndAt + Len(n) = DownLen - 2
        BY <2>4, <3>2
      <4>2. Stretch(z, DownStream, EndAt + Len(n))
        BY <2>6, <4>1
      <4>3. EndAt \in Nat
        BY <3>2
      <4>4. Stretch(n \o z, DownStream, EndAt) /\ Len(n \o z) = Len(n) + Len(z)
        BY ONLY <3>3, <4>2, <4>3, StretchJoin
      <4> QED
        BY <2>4, <4>4
    <3> QED
      BY <2>1, <2>2, <2>3, <3>1, <3>2, <3>4
  <2> QED
    BY <2>7, <2>8
<1> QED
  BY <1>3, <1>4, OwnLengths

(* What a reader of the target's records finds in them.                    *)
LEMMA OwnHas ==
  ASSUME OwnSetting, NEW s, Stretch(s, DownStream, 0)
  PROVE  /\ ~ShadowTls!Has(s, "ticket")
         /\ Len(s) <= DownLen => (ShadowTls!Has(s, "end") <=> Len(s) >= EndAt)
         /\ tls = "1.2" => (ShadowTls!Has(s, "fin") <=> Len(s) >= DownLen)
<1>1. s \in Seq(OwnRecs) /\ Len(s) \in Nat /\ \A i \in 1..Len(s) : s[i] = DownStream[0 + i]
  BY LenProperties DEF Stretch
<1>2. \A i \in 1..Len(s) : i \in Nat \ {0} /\ 0 + i = i
  BY <1>1
<1>3. \A i \in 1..Len(s) : s[i] = DownStream[i] /\ i \in Nat \ {0}
  BY <1>1, <1>2
<1>4. DownLen \in Nat /\ EndAt \in Nat /\ EndAt >= 1 /\ EndAt <= DownLen /\ DownLen >= 1
  BY OwnLengths
<1>5. ~ShadowTls!Has(s, "ticket")
  BY <1>3, DownRecIs DEF ShadowTls!Has
<1>6. ASSUME Len(s) <= DownLen
      PROVE  ShadowTls!Has(s, "end") <=> Len(s) >= EndAt
  <2>1. \A i \in 1..Len(s) : i <= DownLen
    BY <1>1, <1>4, <1>6
  <2>2. \A i \in 1..Len(s) : s[i].what = "end" <=> i = EndAt
    BY <1>3, <2>1, DownRecIs
  <2>3. EndAt \in 1..Len(s) <=> Len(s) >= EndAt
    BY <1>1, <1>4
  <2> QED
    BY <2>2, <2>3 DEF ShadowTls!Has
<1>7. ASSUME tls = "1.2"
      PROVE  ShadowTls!Has(s, "fin") <=> Len(s) >= DownLen
  <2>1. ASSUME NEW i \in 1..Len(s) PROVE s[i].what = "fin" <=> i = DownLen
    <3>1. CASE i <= DownLen
      BY <1>3, <1>7, <3>1, DownRecIs
    <3>2. CASE ~(i <= DownLen)
      <4>1. i > DownLen /\ i # DownLen
        BY <1>3, <1>4, <3>2
      <4>2. s[i] = ShadowTls!Rec(23, "reply")
        BY <1>3, <4>1, DownRecIs
      <4>3. s[i].what = "reply"
        BY <4>2 DEF ShadowTls!Rec
      <4> QED
        BY <4>1, <4>3
    <3> QED
      BY <3>1, <3>2
  <2>2. DownLen \in 1..Len(s) <=> Len(s) >= DownLen
    BY <1>1, <1>4
  <2> QED
    BY <2>1, <2>2 DEF ShadowTls!Has
<1> QED
  BY <1>5, <1>6, <1>7

-----------------------------------------------------------------------------
LEMMA OwnRange ==
  ASSUME OwnInv
  PROVE  /\ SentUp \in Nat /\ GoneUp \in Nat /\ PassedUp \in Nat /\ SentDown \in Nat
         /\ GoneDown \in Nat /\ ReadDown \in Nat /\ PutDown \in Nat /\ seen \in Nat
         /\ Len(toServer) \in Nat /\ Len(fakeConn) \in Nat /\ Len(toClient) \in Nat
         /\ SentUp = GoneUp + Len(toServer) /\ SentDown = GoneDown + Len(fakeConn)
         /\ PutDown = ReadDown + Len(toClient)
         /\ SentDown <= DownLen /\ PassedUp <= UpLen /\ PassedUp <= GoneUp
<1>1. /\ SentUp \in Nat /\ PassedUp \in Nat /\ SentDown \in Nat /\ ReadDown \in Nat
      /\ Len(toServer) \in Nat /\ Len(fakeConn) \in Nat /\ Len(toClient) \in Nat
  BY LenProperties DEF OwnInv, OwnStreams, Stretch, SentUp, PassedUp, SentDown, ReadDown
<1>2. /\ GoneUp = SentUp - Len(toServer) /\ GoneDown = SentDown - Len(fakeConn)
      /\ PutDown = ReadDown + Len(toClient)
  BY DEF GoneUp, GoneDown, PutDown, SentUp, SentDown, ReadDown
<1>3. /\ GoneUp \in Nat /\ GoneDown \in Nat /\ seen \in Nat /\ seen <= PassedUp
      /\ (GoneUp <= UpLen => PassedUp = GoneUp) /\ (GoneUp > UpLen => PassedUp = UpLen)
      /\ (seen = 0 => SentDown = 0) /\ (seen > 0 /\ seen < UpLen => SentDown = EndAt)
      /\ (seen = UpLen => SentDown = DownLen)
  BY DEF OwnInv, OwnTarget
<1>4. UpLen \in Nat /\ EndAt \in Nat /\ DownLen \in Nat /\ EndAt <= DownLen
  BY OwnLengths DEF OwnInv
<1>5. PassedUp <= UpLen /\ PassedUp <= GoneUp
  BY ONLY <1>1, <1>3, <1>4
<1>6. SentDown <= DownLen
  BY ONLY <1>1, <1>3, <1>4, <1>5
<1> QED
  BY <1>1, <1>2, <1>3, <1>5, <1>6

LEMMA OwnFixed ==
  ASSUME UNCHANGED <<mode, tls, extra, flight>>
  PROVE  /\ UpLen' = UpLen /\ EndAt' = EndAt /\ DownLen' = DownLen
         /\ UpStream' = UpStream /\ DownStream' = DownStream
<1>1. UpLen' = UpLen /\ EndAt' = EndAt /\ DownLen' = DownLen
  BY DEF UpLen, EndAt, DownLen
<1>2. \A k \in Nat : UpRec(k)' = UpRec(k) /\ DownRec(k)' = DownRec(k)
  BY <1>1 DEF UpRec, DownRec
<1> QED
  BY <1>1, <1>2 DEF UpStream, DownStream

LEMMA OwnAgain ==
  ASSUME OwnInv, UNCHANGED <<mode, tls, who, extra, flight>>,
         DOMAIN copier' = {"up", "down"}, DOMAIN step' = {"up", "down"},
         Stretch(clientSent', UpStream, 0), Stretch(toServer', UpStream, GoneUp'),
         Stretch(forwardedUp', UpStream, 0), Stretch(targetSent', DownStream, 0),
         Stretch(fakeConn', DownStream, GoneDown'), Stretch(clientRead', DownStream, 0),
         Stretch(toClient', DownStream, ReadDown'),
         OwnTunnel', OwnTarget', OwnClient', mode = 2 => OwnSecond', mode = 1 => OwnFirst'
  PROVE  OwnInv'
<1>1. UpStream' = UpStream /\ DownStream' = DownStream
  BY OwnFixed
<1>2. OwnStreams'
  BY <1>1 DEF OwnStreams, Stretch
<1>3. OwnSetting'
  BY DEF OwnInv, OwnSetting
<1> QED
  BY <1>2, <1>3 DEF OwnInv

(* The client writes what is next in its stream.                           *)
LEMMA OwnWrites ==
  ASSUME OwnInv, NEW recs, Stretch(recs, UpStream, SentUp), ShadowTls!ClientWrites(recs)
  PROVE  /\ Stretch(clientSent', UpStream, 0) /\ Stretch(toServer', UpStream, GoneUp)
         /\ GoneUp' = GoneUp /\ SentUp' = SentUp + Len(recs) /\ Len(recs) \in Nat
<1>1. clientSent' = clientSent \o recs /\ toServer' = toServer \o recs
  BY DEF ShadowTls!ClientWrites
<1>2. Stretch(clientSent, UpStream, 0) /\ Stretch(toServer, UpStream, GoneUp)
  BY DEF OwnInv, OwnStreams
<1>3. /\ SentUp \in Nat /\ GoneUp \in Nat /\ Len(toServer) \in Nat
      /\ SentUp = GoneUp + Len(toServer)
  BY OwnRange
<1>4. Len(recs) \in Nat
  BY LenProperties DEF Stretch
<1>5. 0 + Len(clientSent) = SentUp
  BY <1>3 DEF SentUp
<1>6. Stretch(clientSent', UpStream, 0) /\ Len(clientSent') = Len(clientSent) + Len(recs)
  BY <1>1, <1>2, <1>5, StretchJoin
<1>7. Stretch(toServer', UpStream, GoneUp) /\ Len(toServer') = Len(toServer) + Len(recs)
  BY <1>1, <1>2, <1>3, StretchJoin
<1>8. SentUp' = SentUp + Len(recs)
  BY <1>6 DEF SentUp
<1>9. GoneUp' = SentUp' - Len(toServer')
  BY DEF GoneUp, SentUp
<1>10. GoneUp' = GoneUp
  BY ONLY <1>3, <1>4, <1>7, <1>8, <1>9
<1> QED
  BY <1>4, <1>6, <1>7, <1>8, <1>10

(* What the client does leaves the rest as it is.                          *)
LEMMA OwnClientActs ==
  ASSUME OwnInv,
         UNCHANGED <<mode, tls, who, extra, flight, copier, step, apps, forwardedUp, tunnel,
                     seen, targetSent, fakeConn, fakeOpen, hashW, hashed>>,
         Stretch(clientSent', UpStream, 0), Stretch(toServer', UpStream, GoneUp),
         GoneUp' = GoneUp, SentUp' \in Nat, SentUp <= SentUp',
         Stretch(clientRead', DownStream, 0), Stretch(toClient', DownStream, ReadDown'),
         \/ PutDown' = PutDown
         \/ PutDown' = PutDown - 1 /\ PutDown' >= DownLen,
         OwnTunnel', OwnClient'
  PROVE  OwnInv'
<1>1. UpLen' = UpLen /\ EndAt' = EndAt /\ DownLen' = DownLen /\ DownStream' = DownStream
  BY OwnFixed
<1>2. PassedUp' = PassedUp /\ SentDown' = SentDown /\ GoneDown' = GoneDown
  BY DEF PassedUp, SentDown, GoneDown
<1>3. /\ SentUp \in Nat /\ GoneUp \in Nat /\ GoneDown \in Nat /\ PutDown \in Nat
      /\ GoneDown <= DownLen /\ DownLen \in Nat /\ UpLen \in Nat
  <2>1. /\ SentUp \in Nat /\ GoneUp \in Nat /\ GoneDown \in Nat /\ PutDown \in Nat
        /\ Len(fakeConn) \in Nat /\ SentDown = GoneDown + Len(fakeConn) /\ SentDown <= DownLen
    BY OwnRange
  <2>2. DownLen \in Nat /\ UpLen \in Nat
    BY OwnLengths DEF OwnInv
  <2> QED
    BY ONLY <2>1, <2>2
<1>4. OwnTarget'
  <2>1. OwnTarget
    BY DEF OwnInv
  <2> QED
    BY <1>1, <1>2, <2>1 DEF OwnTarget
<1>5. ASSUME mode = 2 PROVE OwnSecond'
  <2>1. OwnSecond
    BY <1>5 DEF OwnInv
  <2>2. /\ hashW.phase = 1 => PutDown = GoneDown \/ (PutDown >= DownLen /\ GoneDown = DownLen)
        /\ hashW.phase # 1 => PutDown = GoneDown - 1
        /\ SentUp <= UpLen => PutDown <= GoneDown
    BY <2>1 DEF OwnSecond
  <2>3. /\ hashW.phase = 1 => PutDown' = GoneDown \/ (PutDown' >= DownLen /\ GoneDown = DownLen)
        /\ hashW.phase # 1 => PutDown' = GoneDown - 1
        /\ SentUp' <= UpLen => PutDown' <= GoneDown
    <3>1. CASE PutDown' = PutDown
      BY <1>3, <2>2, <3>1
    <3>2. CASE PutDown' = PutDown - 1 /\ PutDown' >= DownLen
      <4>1. PutDown > DownLen
        BY <1>3, <3>2
      <4> QED
        BY <1>3, <2>2, <3>2, <4>1
    <3> QED
      BY <3>1, <3>2
  <2> QED
    BY <1>1, <1>2, <2>1, <2>3 DEF OwnSecond
<1>6. ASSUME mode = 1 PROVE OwnFirst'
  <2>1. OwnFirst
    BY <1>6 DEF OwnInv
  <2>2. CASE PutDown' = PutDown
    BY <1>1, <1>2, <2>1, <2>2 DEF OwnFirst
  <2>3. CASE PutDown' = PutDown - 1 /\ PutDown' >= DownLen
    <3>1. tls = "1.2" => GoneDown = DownLen
      BY <1>3, <2>1, <2>3 DEF OwnFirst
    <3>2. tls # "1.3"
      <4>1. tls = "1.3" => PutDown <= 2 /\ DownLen = 3
        BY <2>1, OwnLengths DEF OwnFirst, OwnInv
      <4> QED
        BY <1>3, <2>3, <4>1
    <3> QED
      BY <1>1, <1>2, <2>1, <2>3, <3>1, <3>2 DEF OwnFirst
  <2> QED
    BY <2>2, <2>3
<1>7. /\ Stretch(forwardedUp', UpStream, 0) /\ Stretch(targetSent', DownStream, 0)
      /\ Stretch(fakeConn', DownStream, GoneDown')
  BY <1>2 DEF OwnInv, OwnStreams
<1>8. Stretch(toServer', UpStream, GoneUp')
  OBVIOUS
<1>9. DOMAIN copier' = {"up", "down"} /\ DOMAIN step' = {"up", "down"}
  BY DEF OwnInv, OwnSetting
<1> QED
  BY <1>4, <1>5, <1>6, <1>7, <1>8, <1>9, OwnAgain

LEMMA OwnHello ==
  ASSUME OwnInv, ShadowTls!ClientHello
  PROVE  OwnInv'
<1>1. /\ client = "start" /\ client' = "wait" /\ ShadowTls!ClientWrites(ShadowTls!Hello)
      /\ UNCHANGED <<mode, tls, who, extra, flight, clientRead, data, copier, step, apps,
                     forwardedUp, tunnel, seen, targetSent, fakeConn, fakeOpen, hashW, hashed,
                     toClient>>
  BY DEF ShadowTls!ClientHello, ShadowTls!setting, ShadowTls!ofUp, ShadowTls!ofTarget,
         ShadowTls!ofDown
<1>2. SentUp = 0 /\ ReadDown = 0 /\ OwnSetting
  BY <1>1 DEF OwnInv, OwnClient
<1>3. Stretch(ShadowTls!Hello, UpStream, SentUp) /\ Len(ShadowTls!Hello) = 1
  BY <1>2, OwnFlightsUp
<1>4. /\ Stretch(clientSent', UpStream, 0) /\ Stretch(toServer', UpStream, GoneUp)
      /\ GoneUp' = GoneUp /\ SentUp' = SentUp + 1
  BY <1>1, <1>3, OwnWrites
<1>5. SentUp' = 1 /\ SentUp' \in Nat /\ SentUp <= SentUp'
  BY <1>2, <1>4
<1>6. ReadDown' = ReadDown /\ PutDown' = PutDown
  BY <1>1 DEF ReadDown, PutDown
<1>7. OwnTunnel'
  BY <1>1 DEF OwnInv, OwnTunnel
<1>8. OwnClient'
  <2>1. EndAt' = EndAt /\ 0 < EndAt
    BY <1>1, <1>2, OwnFixed, OwnLengths
  <2>2. ReadDown' < EndAt'
    BY <1>2, <1>6, <2>1
  <2> QED
    BY <1>1, <1>5, <2>2 DEF OwnClient
<1>9. Stretch(clientRead', DownStream, 0) /\ Stretch(toClient', DownStream, ReadDown')
  BY <1>1, <1>6 DEF OwnInv, OwnStreams
<1> QED
  BY <1>1, <1>4, <1>5, <1>6, <1>7, <1>8, <1>9, OwnClientActs

LEMMA OwnSum ==
  ASSUME OwnInv, ShadowTls!ClientSum
  PROVE  OwnInv'
<1> DEFINE recs == <<[type |-> 23, what |-> "sum", covers |-> Len(clientRead)]>>
<1>1. /\ client = "ready" /\ mode = 2 /\ client' = "open" /\ ShadowTls!ClientWrites(recs)
      /\ UNCHANGED <<mode, tls, who, extra, flight, clientRead, data, copier, step, apps,
                     forwardedUp, tunnel, seen, targetSent, fakeConn, fakeOpen, hashW, hashed,
                     toClient>>
  BY DEF ShadowTls!ClientSum, ShadowTls!setting, ShadowTls!ofUp, ShadowTls!ofTarget,
         ShadowTls!ofDown
<1>2. SentUp = UpLen /\ ReadDown >= DownLen /\ OwnSetting /\ OwnSecond
  BY <1>1 DEF OwnInv, OwnClient
<1>3. UpLen \in Nat /\ DownLen \in Nat
  BY <1>2, OwnLengths
<1>4. ReadDown = DownLen
  <2>1. /\ PutDown \in Nat /\ ReadDown \in Nat /\ GoneDown \in Nat /\ SentDown \in Nat
        /\ Len(toClient) \in Nat /\ Len(fakeConn) \in Nat
        /\ PutDown = ReadDown + Len(toClient) /\ SentDown = GoneDown + Len(fakeConn)
        /\ SentDown <= DownLen
    BY OwnRange
  <2>2. SentUp <= UpLen => PutDown <= GoneDown
    BY <1>2 DEF OwnSecond
  <2>3. SentUp = UpLen /\ ReadDown >= DownLen
    BY <1>2
  <2> QED
    BY ONLY <1>3, <2>1, <2>2, <2>3
<1>5. Stretch(recs, UpStream, SentUp) /\ Len(recs) = 1
  <2>1. UpStream[UpLen + 1] = [type |-> 23, what |-> "sum", covers |-> DownLen]
        /\ UpStream[UpLen + 1] \in OwnRecs
    <3>1. UpLen + 1 \in Nat \ {0}
      BY <1>3
    <3> QED
      BY <1>1, <1>2, <3>1, UpRecIs
  <2>2. recs = <<UpStream[UpLen + 1]>>
    BY <1>4, <2>1 DEF ReadDown
  <2> HIDE DEF recs
  <2>3. recs \in Seq(OwnRecs) /\ Len(recs) = 1 /\ recs[1] = UpStream[UpLen + 1]
    BY <2>1, <2>2
  <2>4. \A i \in 1..Len(recs) : i = 1
    BY <2>3
  <2> QED
    BY <1>2, <2>3, <2>4 DEF Stretch
<1> HIDE DEF recs
<1>6. /\ Stretch(clientSent', UpStream, 0) /\ Stretch(toServer', UpStream, GoneUp)
      /\ GoneUp' = GoneUp /\ SentUp' = SentUp + 1
  BY <1>1, <1>5, OwnWrites
<1>7. SentUp' = UpLen + 1 /\ SentUp' \in Nat /\ SentUp <= SentUp' /\ SentUp' >= UpLen + 1
  BY ONLY <1>2, <1>3, <1>6
<1>8. ReadDown' = ReadDown /\ PutDown' = PutDown
  BY <1>1 DEF ReadDown, PutDown
<1>9. OwnTunnel'
  BY <1>1 DEF OwnInv, OwnTunnel
<1>10. OwnClient'
  <2>1. UpLen' = UpLen /\ DownLen' = DownLen
    BY <1>1, OwnFixed
  <2> QED
    BY <1>1, <1>2, <1>7, <1>8, <2>1 DEF OwnClient
<1>11. Stretch(clientRead', DownStream, 0) /\ Stretch(toClient', DownStream, ReadDown')
  BY <1>1, <1>8 DEF OwnInv, OwnStreams
<1> QED
  BY <1>1, <1>6, <1>7, <1>8, <1>9, <1>10, <1>11, OwnClientActs

LEMMA OwnData ==
  ASSUME OwnInv, ShadowTls!ClientData
  PROVE  OwnInv'
<1> DEFINE recs == ShadowTls!AppData("app")
<1>1. /\ client = (IF mode = 1 \/ who = "other" THEN "ready" ELSE "open")
      /\ ShadowTls!ClientWrites(recs)
      /\ UNCHANGED <<mode, tls, who, extra, flight, client, clientRead, data, copier, step, apps,
                     forwardedUp, tunnel, seen, targetSent, fakeConn, fakeOpen, hashW, hashed,
                     toClient>>
  BY DEF ShadowTls!ClientData, ShadowTls!setting, ShadowTls!ofUp, ShadowTls!ofTarget,
         ShadowTls!ofDown
<1>2. OwnSetting /\ mode \in {1, 2} /\ who = "ours" /\ OwnClient
  BY DEF OwnInv, OwnSetting
<1>3. \/ mode = 1 /\ client = "ready" /\ SentUp >= UpLen
      \/ mode = 2 /\ client = "open" /\ SentUp >= UpLen + 1
  BY <1>1, <1>2 DEF OwnClient
<1>4. UpLen \in Nat /\ DownLen \in Nat /\ SentUp \in Nat
  <2>1. UpLen \in Nat /\ DownLen \in Nat
    BY <1>2, OwnLengths
  <2> QED
    BY <2>1, OwnRange
<1>5. SentUp + 1 \in Nat \ {0} /\ SentUp + 1 > UpLen /\ ~(mode = 2 /\ SentUp + 1 = UpLen + 1)
  BY ONLY <1>3, <1>4
<1>6. Stretch(recs, UpStream, SentUp) /\ Len(recs) = 1
  <2>1. UpStream[SentUp + 1] = ShadowTls!Rec(23, "app") /\ UpStream[SentUp + 1] \in OwnRecs
    BY <1>2, <1>5, UpRecIs
  <2>2. recs = <<UpStream[SentUp + 1]>>
    BY <2>1 DEF ShadowTls!AppData
  <2> HIDE DEF recs
  <2>3. recs \in Seq(OwnRecs) /\ Len(recs) = 1 /\ recs[1] = UpStream[SentUp + 1]
    BY <2>1, <2>2
  <2>4. \A i \in 1..Len(recs) : i = 1
    BY <2>3
  <2> QED
    BY <2>3, <2>4 DEF Stretch
<1> HIDE DEF recs
<1>7. /\ Stretch(clientSent', UpStream, 0) /\ Stretch(toServer', UpStream, GoneUp)
      /\ GoneUp' = GoneUp /\ SentUp' = SentUp + 1
  BY <1>1, <1>6, OwnWrites
<1>8. SentUp' \in Nat /\ SentUp <= SentUp'
  BY ONLY <1>4, <1>7
<1>9. ReadDown' = ReadDown /\ PutDown' = PutDown
  BY <1>1 DEF ReadDown, PutDown
<1>10. OwnTunnel'
  BY <1>1 DEF OwnInv, OwnTunnel
<1>11. OwnClient'
  <2>1. UpLen' = UpLen /\ DownLen' = DownLen
    BY <1>1, OwnFixed
  <2>2. ReadDown >= DownLen
    BY <1>2, <1>3 DEF OwnClient
  <2>3. CASE mode = 1
    <3>1. client' = "ready" /\ mode' # 2 /\ SentUp' >= UpLen
      <4>1. SentUp' >= UpLen
        BY ONLY <1>3, <1>4, <1>7
      <4> QED
        BY <1>1, <1>3, <2>3, <4>1
    <3> QED
      BY <1>9, <2>1, <2>2, <3>1 DEF OwnClient
  <2>4. CASE mode = 2
    <3>1. client' = "open" /\ mode' = 2 /\ SentUp' >= UpLen + 1
      <4>1. SentUp >= UpLen + 1
        BY <1>3, <2>4
      <4>2. SentUp' >= UpLen + 1
        BY ONLY <1>4, <1>7, <4>1
      <4> QED
        BY <1>1, <1>3, <2>4, <4>2
    <3> QED
      BY <1>9, <2>1, <2>2, <3>1 DEF OwnClient
  <2> QED
    BY <1>2, <2>3, <2>4
<1>12. Stretch(clientRead', DownStream, 0) /\ Stretch(toClient', DownStream, ReadDown')
  BY <1>1, <1>9 DEF OwnInv, OwnStreams
<1> QED
  BY <1>1, <1>7, <1>8, <1>9, <1>10, <1>11, <1>12, OwnClientActs

(* It reads what is there, and answers when its part of it is.             *)
LEMMA OwnReads ==
  ASSUME OwnInv, NEW n \in 1..Len(toClient), ShadowTls!ClientReads(n)
  PROVE  OwnInv'
<1> DEFINE had == clientRead \o SubSeq(toClient, 1, n)
           awaited == IF client = "wait" THEN "end" ELSE "fin"
           done == ShadowTls!Has(had, awaited)
<1>1. /\ client \in {"wait", "finish"}
      /\ clientRead' = had /\ toClient' = SubSeq(toClient, n + 1, Len(toClient))
      /\ client' = (IF ~done THEN client
                    ELSE IF client = "wait" /\ tls = "1.2" THEN "finish" ELSE "ready")
      /\ (done /\ client = "wait" => ShadowTls!ClientWrites(ShadowTls!ClientFlight))
      /\ (~(done /\ client = "wait") => UNCHANGED <<clientSent, toServer>>)
      /\ UNCHANGED <<mode, tls, who, extra, flight, data, copier, step, apps,
                     forwardedUp, tunnel, seen, targetSent, fakeConn, fakeOpen, hashW, hashed>>
  BY DEF ShadowTls!ClientReads, ShadowTls!setting, ShadowTls!ofUp, ShadowTls!ofTarget,
         ShadowTls!ofDown
<1>2. OwnSetting /\ OwnClient /\ OwnTarget
  BY DEF OwnInv
<1>3. /\ SentUp \in Nat /\ GoneUp \in Nat /\ PassedUp \in Nat /\ SentDown \in Nat
      /\ GoneDown \in Nat /\ ReadDown \in Nat /\ PutDown \in Nat /\ seen \in Nat
      /\ Len(toServer) \in Nat /\ Len(fakeConn) \in Nat /\ Len(toClient) \in Nat
      /\ SentUp = GoneUp + Len(toServer) /\ SentDown = GoneDown + Len(fakeConn)
      /\ PutDown = ReadDown + Len(toClient)
      /\ SentDown <= DownLen /\ PassedUp <= UpLen /\ PassedUp <= GoneUp
  BY OwnRange
<1>4. /\ UpLen \in {3, 4} /\ EndAt \in Nat /\ DownLen \in Nat /\ EndAt <= DownLen /\ EndAt >= 1
      /\ (tls = "1.3" => EndAt = DownLen) /\ tls \in {"1.2", "1.3"}
  BY <1>2, OwnLengths
<1>5. Stretch(clientRead, DownStream, 0) /\ Stretch(toClient, DownStream, ReadDown)
  BY DEF OwnInv, OwnStreams
<1>6. /\ Stretch(SubSeq(toClient, 1, n), DownStream, ReadDown) /\ Len(SubSeq(toClient, 1, n)) = n
      /\ Stretch(toClient', DownStream, ReadDown + n) /\ Len(toClient') = Len(toClient) - n
  BY <1>1, <1>3, <1>5, StretchCut
<1>7. Stretch(had, DownStream, 0) /\ Len(had) = ReadDown + n
  <2>1. 0 + Len(clientRead) = ReadDown
    BY <1>3 DEF ReadDown
  <2>2. Len(clientRead) = ReadDown
    BY DEF ReadDown
  <2> QED
    BY <1>5, <1>6, <2>1, <2>2, StretchJoin
<1>8. n \in Nat /\ n >= 1 /\ n <= Len(toClient)
  BY <1>3
<1> HIDE DEF had
<1>9. ReadDown' = ReadDown + n /\ PutDown' = PutDown /\ ReadDown' \in Nat
  <2>1. ReadDown' = ReadDown + n
    BY <1>1, <1>7 DEF ReadDown
  <2>2. PutDown' = ReadDown' + Len(toClient')
    BY DEF PutDown, ReadDown
  <2> QED
    BY ONLY <1>3, <1>6, <1>8, <2>1, <2>2
<1>10. ReadDown' <= PutDown
  BY ONLY <1>3, <1>8, <1>9
(* Before the client has answered there is no more than the first flight.  *)
<1>11. client = "wait" => PutDown <= EndAt
  <2>1. SUFFICES ASSUME client = "wait" PROVE PutDown <= EndAt
    OBVIOUS
  <2>2. SentUp = 1
    BY <1>2, <2>1 DEF OwnClient
  <2>3. seen <= 1
    <3>1. seen <= PassedUp
      BY <1>2 DEF OwnTarget
    <3> QED
      BY ONLY <1>3, <2>2, <3>1
  <2>4. (seen = 0 => SentDown = 0) /\ (seen > 0 /\ seen < UpLen => SentDown = EndAt)
    BY <1>2 DEF OwnTarget
  <2>5. SentDown <= EndAt
    BY ONLY <1>3, <1>4, <2>3, <2>4
  <2>6. CASE mode = 2
    <3>1. SentUp <= UpLen => PutDown <= GoneDown
      BY <2>6 DEF OwnInv, OwnSecond
    <3> QED
      BY ONLY <1>3, <1>4, <2>2, <2>5, <3>1
  <2>7. CASE mode = 1 /\ tls = "1.2"
    <3>1. PutDown = GoneDown \/ (PutDown >= DownLen /\ GoneDown = DownLen)
      BY <2>7 DEF OwnInv, OwnFirst
    <3>2. EndAt < DownLen
      BY <1>2, <2>7, OwnLengths
    <3> QED
      BY ONLY <1>3, <1>4, <2>5, <3>1, <3>2
  <2>8. CASE mode = 1 /\ tls = "1.3"
    <3>1. PutDown <= 2 /\ EndAt = 3
      BY <1>2, <2>8, OwnLengths DEF OwnInv, OwnFirst
    <3> QED
      BY ONLY <1>3, <3>1
  <2> QED
    BY <1>2, <2>6, <2>7, <2>8 DEF OwnSetting
<1>12. UpLen' = UpLen /\ EndAt' = EndAt /\ DownLen' = DownLen
  BY <1>1, OwnFixed
<1>13. OwnTunnel'
  BY <1>1 DEF OwnInv, OwnTunnel
<1>14. /\ ~ShadowTls!Has(had, "ticket")
       /\ Len(had) <= DownLen => (ShadowTls!Has(had, "end") <=> Len(had) >= EndAt)
       /\ tls = "1.2" => (ShadowTls!Has(had, "fin") <=> Len(had) >= DownLen)
  BY <1>2, <1>7, OwnHas
<1>15. Stretch(clientRead', DownStream, 0) /\ Stretch(toClient', DownStream, ReadDown')
  BY <1>1, <1>6, <1>7, <1>9
<1>16. ASSUME UNCHANGED <<clientSent, toServer>>, OwnClient' PROVE OwnInv'
  <2>1. SentUp' = SentUp /\ GoneUp' = GoneUp
    BY <1>16 DEF SentUp, GoneUp
  <2>2. Stretch(clientSent', UpStream, 0) /\ Stretch(toServer', UpStream, GoneUp)
    BY <1>16 DEF OwnInv, OwnStreams
  <2>3. SentUp' \in Nat /\ SentUp <= SentUp'
    BY <1>3, <2>1
  <2> QED
    BY <1>1, <1>9, <1>13, <1>15, <1>16, <2>1, <2>2, <2>3, OwnClientActs
<1>17. CASE client = "wait"
  <2>1. SentUp = 1 /\ ReadDown < EndAt
    BY <1>2, <1>17 DEF OwnClient
  <2>2. Len(had) <= EndAt /\ Len(had) <= DownLen
    BY ONLY <1>3, <1>4, <1>7, <1>9, <1>10, <1>11, <1>17
  <2>3. done <=> Len(had) >= EndAt
    BY <1>14, <1>17, <2>2
  <2>4. CASE ~done
    <3>1. client' = "wait" /\ UNCHANGED <<clientSent, toServer>>
      BY <1>1, <1>17, <2>4
    <3>2. ReadDown' < EndAt'
      BY <1>3, <1>4, <1>7, <1>8, <1>9, <1>12, <2>3, <2>4
    <3>3. SentUp' = 1
      BY <2>1, <3>1 DEF SentUp
    <3>4. OwnClient'
      BY <3>1, <3>2, <3>3 DEF OwnClient
    <3> QED
      BY <1>16, <3>1, <3>4
  <2>5. CASE done
    <3>1. ShadowTls!ClientWrites(ShadowTls!ClientFlight)
          /\ client' = (IF tls = "1.2" THEN "finish" ELSE "ready")
      BY <1>1, <1>17, <2>5
    <3>2. /\ Stretch(ShadowTls!ClientFlight, UpStream, SentUp)
          /\ Len(ShadowTls!ClientFlight) = UpLen - 1
      BY <1>2, <2>1, OwnFlightsUp
    <3>3. /\ Stretch(clientSent', UpStream, 0) /\ Stretch(toServer', UpStream, GoneUp)
          /\ GoneUp' = GoneUp /\ SentUp' = SentUp + (UpLen - 1)
      BY <3>1, <3>2, OwnWrites
    <3>4. SentUp' = UpLen /\ SentUp' \in Nat /\ SentUp <= SentUp'
      BY ONLY <1>4, <2>1, <3>3
    <3>5. ReadDown' = EndAt
      BY <1>3, <1>4, <1>7, <1>9, <2>2, <2>3, <2>5
    <3>6. OwnClient'
      <4>1. CASE tls = "1.2"
        <5>1. EndAt < DownLen
          BY <1>2, <4>1, OwnLengths
        <5>2. client' = "finish" /\ tls' = "1.2"
          BY <1>1, <3>1, <4>1
        <5> QED
          BY <1>4, <1>12, <3>4, <3>5, <5>1, <5>2 DEF OwnClient
      <4>2. CASE tls = "1.3"
        <5>1. client' = "ready"
          BY <3>1, <4>2
        <5>2. ReadDown' >= DownLen' /\ SentUp' >= UpLen' /\ SentUp' = UpLen'
          BY <1>4, <1>12, <3>4, <3>5, <4>2
        <5> QED
          BY <5>1, <5>2 DEF OwnClient
      <4> QED
        BY <1>4, <4>1, <4>2
    <3> QED
      BY <1>1, <1>9, <1>13, <1>15, <3>3, <3>4, <3>6, OwnClientActs
  <2> QED
    BY <2>4, <2>5
<1>18. CASE client = "finish"
  <2>1. tls = "1.2" /\ SentUp = UpLen /\ EndAt <= ReadDown /\ ReadDown < DownLen
    BY <1>2, <1>18 DEF OwnClient
  <2>2. UNCHANGED <<clientSent, toServer>> /\ (done <=> Len(had) >= DownLen)
    BY <1>1, <1>14, <1>18, <2>1
  <2>3. SentUp' = UpLen'
    BY <1>12, <2>1, <2>2 DEF SentUp
  <2>4. SentUp' >= UpLen'
    BY <1>4, <1>12, <2>3
  <2>5. OwnClient'
    <3>1. CASE done
      <4>1. client' = "ready"
        BY <1>1, <1>18, <3>1
      <4>2. ReadDown' >= DownLen'
        BY <1>7, <1>9, <1>12, <2>2, <3>1
      <4> QED
        BY <2>3, <2>4, <4>1, <4>2 DEF OwnClient
    <3>2. CASE ~done
      <4>1. client' = "finish" /\ tls' = "1.2"
        BY <1>1, <1>18, <2>1, <3>2
      <4>2. EndAt' <= ReadDown' /\ ReadDown' < DownLen'
        BY <1>3, <1>4, <1>7, <1>8, <1>9, <1>12, <2>1, <2>2, <3>2
      <4> QED
        BY <2>3, <4>1, <4>2 DEF OwnClient
    <3> QED
      BY <3>1, <3>2
  <2> QED
    BY <1>16, <2>2, <2>5
<1> QED
  BY <1>1, <1>17, <1>18

LEMMA OwnReadsData ==
  ASSUME OwnInv, ShadowTls!ClientReadData
  PROVE  OwnInv'
<1>1. OwnSetting /\ OwnClient /\ who = "ours"
  BY DEF OwnInv, OwnSetting
<1>2. /\ client \in {"ready", "open"} /\ toClient # <<>> /\ toClient' = Tail(toClient)
      /\ data' = Append(data, Head(toClient))
      /\ UNCHANGED <<mode, tls, who, extra, flight, client, clientRead, clientSent, toServer,
                     copier, step, apps, forwardedUp, tunnel, seen, targetSent, fakeConn,
                     fakeOpen, hashW, hashed>>
  BY <1>1 DEF ShadowTls!ClientReadData, ShadowTls!setting, ShadowTls!ofUp, ShadowTls!ofTarget,
              ShadowTls!ofDown
<1>3. /\ SentUp \in Nat /\ ReadDown \in Nat /\ PutDown \in Nat /\ Len(toClient) \in Nat
      /\ PutDown = ReadDown + Len(toClient)
  BY OwnRange
<1>4. ReadDown >= DownLen /\ DownLen \in Nat
  BY <1>1, <1>2, OwnLengths DEF OwnClient
<1>5. Stretch(toClient, DownStream, ReadDown)
  BY DEF OwnInv, OwnStreams
<1>6. /\ Head(toClient) = DownStream[ReadDown + 1] /\ Head(toClient) \in OwnRecs
      /\ Len(toClient) >= 1
      /\ Stretch(Tail(toClient), DownStream, ReadDown + 1)
      /\ Len(Tail(toClient)) = Len(toClient) - 1
  BY <1>2, <1>3, <1>5, StretchTail
<1>7. \A k \in Nat : k > ReadDown => DownStream[k] = ShadowTls!Rec(23, "reply")
  <2>1. ASSUME NEW k \in Nat, k > ReadDown PROVE DownStream[k] = ShadowTls!Rec(23, "reply")
    <3>1. k \in Nat \ {0} /\ k > DownLen
      BY <1>3, <1>4, <2>1
    <3> QED
      BY <1>1, <3>1, DownRecIs
  <2> QED
    BY <2>1
<1>8. Stretch(toClient', DownStream, ReadDown)
  <2>1. Tail(toClient) \in Seq(OwnRecs) /\ Len(Tail(toClient)) \in Nat
    BY <1>6, LenProperties DEF Stretch
  <2>2. ASSUME NEW i \in 1..Len(Tail(toClient))
        PROVE  Tail(toClient)[i] = DownStream[ReadDown + i]
    <3>1. /\ ReadDown + i \in Nat /\ ReadDown + i > ReadDown
          /\ (ReadDown + 1) + i \in Nat /\ (ReadDown + 1) + i > ReadDown
      BY <1>3, <2>1
    <3>2. Tail(toClient)[i] = DownStream[(ReadDown + 1) + i]
      BY <1>6 DEF Stretch
    <3> QED
      BY <1>7, <3>1, <3>2
  <2> QED
    BY <1>2, <2>1, <2>2 DEF Stretch
<1>9. OwnTunnel'
  <2>1. Head(toClient).what = "reply"
    <3>1. ReadDown + 1 \in Nat /\ ReadDown + 1 > ReadDown
      BY <1>3
    <3>2. Head(toClient) = ShadowTls!Rec(23, "reply")
      BY <1>6, <1>7, <3>1
    <3> QED
      BY <3>2 DEF ShadowTls!Rec
  <2>2. data \in Seq(OwnRecs) /\ \A i \in 1..Len(data) : data[i].what = "reply"
    BY DEF OwnInv, OwnTunnel
  <2>3. /\ data' \in Seq(OwnRecs) /\ Len(data') = Len(data) + 1
        /\ \A i \in 1..Len(data) : data'[i] = data[i]
        /\ data'[Len(data) + 1] = Head(toClient)
    BY <1>2, <1>6, <2>2, AppendProperties
  <2>4. \A i \in 1..Len(data') : i \in 1..Len(data) \/ i = Len(data) + 1
    BY <2>2, <2>3, LenProperties
  <2> QED
    BY <1>2, <2>1, <2>2, <2>3, <2>4 DEF OwnInv, OwnTunnel
<1>10. /\ SentUp' = SentUp /\ GoneUp' = GoneUp /\ ReadDown' = ReadDown
       /\ SentUp' \in Nat /\ SentUp <= SentUp'
  BY <1>2, <1>3 DEF SentUp, GoneUp, ReadDown
<1>11. PutDown' = PutDown - 1 /\ PutDown' >= DownLen
  <2>1. PutDown' = ReadDown + (Len(toClient) - 1)
    BY <1>2, <1>6 DEF PutDown, ReadDown
  <2> QED
    BY ONLY <1>3, <1>4, <1>6, <2>1
<1>12. OwnClient'
  BY <1>1, <1>2, <1>10, OwnFixed DEF OwnClient
<1>13. /\ Stretch(clientSent', UpStream, 0) /\ Stretch(toServer', UpStream, GoneUp)
       /\ Stretch(clientRead', DownStream, 0)
  BY <1>2 DEF OwnInv, OwnStreams
<1> QED
  BY <1>2, <1>8, <1>9, <1>10, <1>11, <1>12, <1>13, OwnClientActs

(* The client stands still.                                                *)
LEMMA OwnClientRests ==
  ASSUME OwnInv, UNCHANGED <<mode, tls, who, extra, flight, client, clientRead, clientSent>>
  PROVE  /\ OwnClient' /\ SentUp' = SentUp /\ ReadDown' = ReadDown
         /\ Stretch(clientSent', UpStream, 0) /\ Stretch(clientRead', DownStream, 0)
         /\ UpLen' = UpLen /\ EndAt' = EndAt /\ DownLen' = DownLen /\ DownStream' = DownStream
<1>1. UpLen' = UpLen /\ EndAt' = EndAt /\ DownLen' = DownLen /\ DownStream' = DownStream
  BY OwnFixed
<1>2. SentUp' = SentUp /\ ReadDown' = ReadDown
  BY DEF SentUp, ReadDown
<1>3. OwnClient'
  BY <1>1, <1>2 DEF OwnInv, OwnClient
<1> QED
  BY <1>1, <1>2, <1>3 DEF OwnInv, OwnStreams

(* The target writes what is next in its stream.                           *)
LEMMA OwnTargetWrites ==
  ASSUME OwnInv, NEW recs, Stretch(recs, DownStream, SentDown), ShadowTls!TargetWrites(recs)
  PROVE  /\ Stretch(targetSent', DownStream, 0) /\ Stretch(fakeConn', DownStream, GoneDown)
         /\ GoneDown' = GoneDown /\ SentDown' = SentDown + Len(recs) /\ Len(recs) \in Nat
<1>1. targetSent' = targetSent \o recs /\ fakeConn' = fakeConn \o recs
  BY DEF ShadowTls!TargetWrites
<1>2. Stretch(targetSent, DownStream, 0) /\ Stretch(fakeConn, DownStream, GoneDown)
  BY DEF OwnInv, OwnStreams
<1>3. /\ SentDown \in Nat /\ GoneDown \in Nat /\ Len(fakeConn) \in Nat
      /\ SentDown = GoneDown + Len(fakeConn)
  BY OwnRange
<1>4. Len(recs) \in Nat
  BY LenProperties DEF Stretch
<1>5. 0 + Len(targetSent) = SentDown
  BY <1>3 DEF SentDown
<1>6. Stretch(targetSent', DownStream, 0) /\ Len(targetSent') = Len(targetSent) + Len(recs)
  BY <1>1, <1>2, <1>5, StretchJoin
<1>7. Stretch(fakeConn', DownStream, GoneDown) /\ Len(fakeConn') = Len(fakeConn) + Len(recs)
  BY <1>1, <1>2, <1>3, StretchJoin
<1>8. SentDown' = SentDown + Len(recs)
  BY <1>6 DEF SentDown
<1>9. GoneDown' = SentDown' - Len(fakeConn')
  BY DEF GoneDown, SentDown
<1>10. GoneDown' = GoneDown
  BY ONLY <1>3, <1>4, <1>7, <1>8, <1>9
<1> QED
  BY <1>4, <1>6, <1>7, <1>8, <1>10

LEMMA OwnAnswers ==
  ASSUME OwnInv, ShadowTls!TargetAnswers
  PROVE  OwnInv'
<1> DEFINE what == forwardedUp[seen + 1].what
           recs == CASE what = "hello" -> ShadowTls!TargetFlight
                     [] what = "fin" -> ShadowTls!TargetFinish
                     [] what = "app" -> ShadowTls!AppData("response")
                     [] OTHER -> <<>>
<1>1. /\ seen < Len(forwardedUp) /\ seen' = seen + 1 /\ ShadowTls!TargetWrites(recs)
      /\ UNCHANGED <<mode, tls, who, extra, flight, client, clientRead, clientSent, data,
                     toServer, copier, step, apps, forwardedUp, tunnel, fakeOpen, hashW, hashed,
                     toClient>>
  BY DEF ShadowTls!TargetAnswers, ShadowTls!setting, ShadowTls!ofClient, ShadowTls!ofUp,
         ShadowTls!ofDown
<1>2. OwnSetting /\ OwnTarget /\ Stretch(forwardedUp, UpStream, 0)
  BY DEF OwnInv, OwnStreams
<1>3. PassedUp \in Nat /\ PassedUp <= UpLen /\ seen \in Nat /\ SentDown \in Nat
  BY OwnRange
<1>4. UpLen \in {3, 4} /\ EndAt \in Nat /\ DownLen \in Nat /\ EndAt <= DownLen
  BY <1>2, OwnLengths
<1>5. seen < PassedUp
  BY <1>1 DEF PassedUp
<1>6. seen + 1 \in Nat \ {0} /\ seen + 1 <= UpLen /\ seen + 1 <= PassedUp
  BY ONLY <1>3, <1>4, <1>5
<1>7. /\ what \in {"hello", "ccs", "fin", "key"}
      /\ what = "hello" <=> seen + 1 = 1
      /\ what = "fin" <=> seen + 1 = UpLen
  <2>1. 0 + (seen + 1) = seen + 1 /\ seen + 1 \in 1..PassedUp
    BY ONLY <1>3, <1>6
  <2>2. forwardedUp[seen + 1] = UpStream[seen + 1]
    <3>1. \A i \in 1..Len(forwardedUp) : forwardedUp[i] = UpStream[0 + i]
      BY <1>2 DEF Stretch
    <3>2. seen + 1 \in 1..Len(forwardedUp)
      BY <2>1 DEF PassedUp
    <3>3. forwardedUp[seen + 1] = UpStream[0 + (seen + 1)]
      BY <3>1, <3>2
    <3> QED
      BY <2>1, <3>3
  <2> QED
    BY <1>2, <1>6, <2>2, UpRecIs
<1>8. /\ Stretch(ShadowTls!TargetFlight, DownStream, 0)
      /\ Len(ShadowTls!TargetFlight) = EndAt
      /\ Stretch(ShadowTls!TargetFinish, DownStream, EndAt)
      /\ Len(ShadowTls!TargetFinish) = DownLen - EndAt
  BY <1>2, OwnFlightsDown
<1>9. /\ Stretch(recs, DownStream, SentDown)
      /\ seen + 1 < UpLen => SentDown + Len(recs) = EndAt
      /\ seen + 1 = UpLen => SentDown + Len(recs) = DownLen
  <2>1. /\ seen = 0 => SentDown = 0
        /\ seen > 0 /\ seen < UpLen => SentDown = EndAt
    BY <1>2 DEF OwnTarget
  <2>2. CASE what = "hello"
    <3>1. recs = ShadowTls!TargetFlight /\ seen = 0
      BY <1>3, <1>7, <2>2
    <3>2. SentDown = 0 /\ seen + 1 # UpLen /\ SentDown + EndAt = EndAt
      BY ONLY <1>3, <1>4, <2>1, <3>1
    <3> QED
      BY <1>8, <3>1, <3>2
  <2>3. CASE what = "fin"
    <3>1. recs = ShadowTls!TargetFinish /\ seen + 1 = UpLen
      BY <1>7, <2>3
    <3>2. SentDown = EndAt /\ ~(seen + 1 < UpLen) /\ SentDown + (DownLen - EndAt) = DownLen
      BY ONLY <1>3, <1>4, <2>1, <3>1
    <3> QED
      BY <1>8, <3>1, <3>2
  <2>4. CASE what # "hello" /\ what # "fin"
    <3>1. recs = <<>> /\ seen + 1 # 1 /\ seen + 1 # UpLen
      BY <1>7, <2>4
    <3>2. Stretch(recs, DownStream, SentDown) /\ Len(recs) = 0
      BY <3>1, StretchNone
    <3>3. SentDown = EndAt /\ SentDown + 0 = EndAt
      BY ONLY <1>3, <1>4, <1>6, <2>1, <3>1
    <3> QED
      BY <3>1, <3>2, <3>3
  <2> QED
    BY <2>2, <2>3, <2>4
<1> HIDE DEF recs, what
<1>10. /\ Stretch(targetSent', DownStream, 0) /\ Stretch(fakeConn', DownStream, GoneDown)
       /\ GoneDown' = GoneDown /\ SentDown' = SentDown + Len(recs)
  BY <1>1, <1>9, OwnTargetWrites
<1>11. /\ OwnClient' /\ SentUp' = SentUp /\ ReadDown' = ReadDown
       /\ Stretch(clientSent', UpStream, 0) /\ Stretch(clientRead', DownStream, 0)
       /\ UpLen' = UpLen /\ EndAt' = EndAt /\ DownLen' = DownLen /\ DownStream' = DownStream
  BY <1>1, OwnClientRests
<1>12. GoneUp' = GoneUp /\ PassedUp' = PassedUp /\ PutDown' = PutDown
  BY <1>1 DEF GoneUp, PassedUp, PutDown
<1>13. OwnTarget'
  <2>1. seen' \in Nat /\ seen' <= PassedUp /\ seen' # 0 /\ ~(seen' > UpLen)
    BY ONLY <1>1, <1>3, <1>4, <1>6
  <2>2. /\ seen' > 0 /\ seen' < UpLen => SentDown' = EndAt
        /\ seen' = UpLen => SentDown' = DownLen
    BY <1>1, <1>9, <1>10
  <2> QED
    BY <1>2, <1>10, <1>11, <1>12, <2>1, <2>2 DEF OwnTarget
<1>14. mode = 2 => OwnSecond'
  BY <1>1, <1>10, <1>11, <1>12 DEF OwnInv, OwnSecond
<1>15. mode = 1 => OwnFirst'
  BY <1>1, <1>10, <1>11, <1>12 DEF OwnInv, OwnFirst
<1>16. OwnTunnel' /\ DOMAIN copier' = {"up", "down"} /\ DOMAIN step' = {"up", "down"}
  BY <1>1 DEF OwnInv, OwnTunnel, OwnSetting
<1>17. /\ Stretch(toServer', UpStream, GoneUp') /\ Stretch(forwardedUp', UpStream, 0)
       /\ Stretch(fakeConn', DownStream, GoneDown') /\ Stretch(toClient', DownStream, ReadDown')
  BY <1>1, <1>10, <1>11, <1>12 DEF OwnInv, OwnStreams
<1> QED
  BY <1>1, <1>10, <1>11, <1>13, <1>14, <1>15, <1>16, <1>17, OwnAgain

(* A ticket of TLS 1.3 ends what is said.                                  *)
LEMMA OwnTicket ==
  ASSUME OwnInv, ShadowTls!TargetTicket
  PROVE  ShadowTls!Has(targetSent', "ticket")
<1>1. targetSent' = targetSent \o <<ShadowTls!Rec(23, "ticket")>>
  BY DEF ShadowTls!TargetTicket, ShadowTls!TargetWrites, ShadowTls!AppData
<1>2. targetSent \in Seq(OwnRecs)
  BY DEF OwnInv, OwnStreams, Stretch
<1>3. ShadowTls!Rec(23, "ticket") \in OwnRecs /\ ShadowTls!Rec(23, "ticket").what = "ticket"
  BY OwnRecsAre DEF OwnNames
<1>4. targetSent' = Append(targetSent, ShadowTls!Rec(23, "ticket"))
  BY <1>1, <1>2, <1>3, AppendIsConcat
<1>5. /\ Len(targetSent') = Len(targetSent) + 1
      /\ targetSent'[Len(targetSent) + 1] = ShadowTls!Rec(23, "ticket")
  BY <1>2, <1>3, <1>4, AppendProperties
<1>6. Len(targetSent) + 1 \in 1..Len(targetSent')
  BY <1>2, <1>5, LenProperties
<1> QED
  BY <1>3, <1>5, <1>6 DEF ShadowTls!Has

-----------------------------------------------------------------------------
(* The server takes the next record of either side, and passes on the next. *)
LEMMA OwnTakesUp ==
  ASSUME OwnInv, toServer # <<>>, toServer' = Tail(toServer), clientSent' = clientSent
  PROVE  /\ Head(toServer) = UpStream[GoneUp + 1] /\ Head(toServer) \in OwnRecs
         /\ GoneUp' = GoneUp + 1 /\ Stretch(toServer', UpStream, GoneUp')
         /\ GoneUp + 1 <= SentUp
<1>1. Stretch(toServer, UpStream, GoneUp)
  BY DEF OwnInv, OwnStreams
<1>2. /\ SentUp \in Nat /\ GoneUp \in Nat /\ Len(toServer) \in Nat
      /\ SentUp = GoneUp + Len(toServer)
  BY OwnRange
<1>3. /\ Head(toServer) = UpStream[GoneUp + 1] /\ Head(toServer) \in OwnRecs
      /\ Len(toServer) >= 1
      /\ Stretch(Tail(toServer), UpStream, GoneUp + 1)
      /\ Len(Tail(toServer)) = Len(toServer) - 1
  BY <1>1, <1>2, StretchTail
<1>4. GoneUp' = SentUp - (Len(toServer) - 1)
  BY <1>3 DEF GoneUp, SentUp
<1>5. GoneUp' = GoneUp + 1 /\ GoneUp + 1 <= SentUp
  BY ONLY <1>2, <1>3, <1>4
<1> QED
  BY <1>3, <1>5

LEMMA OwnTakesDown ==
  ASSUME OwnInv, fakeConn # <<>>, fakeConn' = Tail(fakeConn), targetSent' = targetSent
  PROVE  /\ Head(fakeConn) = DownStream[GoneDown + 1] /\ Head(fakeConn) \in OwnRecs
         /\ GoneDown' = GoneDown + 1 /\ Stretch(fakeConn', DownStream, GoneDown')
         /\ GoneDown + 1 <= DownLen /\ SentDown' = SentDown
<1>1. Stretch(fakeConn, DownStream, GoneDown)
  BY DEF OwnInv, OwnStreams
<1>2. /\ SentDown \in Nat /\ GoneDown \in Nat /\ Len(fakeConn) \in Nat
      /\ SentDown = GoneDown + Len(fakeConn) /\ SentDown <= DownLen
  BY OwnRange
<1>3. /\ Head(fakeConn) = DownStream[GoneDown + 1] /\ Head(fakeConn) \in OwnRecs
      /\ Len(fakeConn) >= 1
      /\ Stretch(Tail(fakeConn), DownStream, GoneDown + 1)
      /\ Len(Tail(fakeConn)) = Len(fakeConn) - 1
  BY <1>1, <1>2, StretchTail
<1>4. GoneDown' = SentDown - (Len(fakeConn) - 1) /\ SentDown' = SentDown
  BY <1>3 DEF GoneDown, SentDown
<1>5. DownLen \in Nat
  BY OwnLengths DEF OwnInv
<1>6. GoneDown' = GoneDown + 1 /\ GoneDown + 1 <= DownLen
  BY ONLY <1>2, <1>3, <1>4, <1>5
<1> QED
  BY <1>3, <1>4, <1>6

LEMMA OwnPassesUp ==
  ASSUME OwnInv, NEW r \in OwnRecs, r = UpStream[PassedUp + 1],
         forwardedUp' = Append(forwardedUp, r)
  PROVE  Stretch(forwardedUp', UpStream, 0) /\ PassedUp' = PassedUp + 1
<1>1. Stretch(forwardedUp, UpStream, 0) /\ 0 \in Nat
  BY DEF OwnInv, OwnStreams
<1>2. 0 + Len(forwardedUp) + 1 = PassedUp + 1
  BY OwnRange DEF PassedUp
<1>3. r = UpStream[0 + Len(forwardedUp) + 1]
  BY <1>2
<1>4. /\ Stretch(Append(forwardedUp, r), UpStream, 0)
      /\ Len(Append(forwardedUp, r)) = Len(forwardedUp) + 1
  BY ONLY r \in OwnRecs, <1>1, <1>3, StretchAdd
<1> QED
  BY <1>4 DEF PassedUp

LEMMA OwnPutsDown ==
  ASSUME OwnInv, NEW r \in OwnRecs, r = DownStream[PutDown + 1],
         toClient' = Append(toClient, r), clientRead' = clientRead
  PROVE  /\ Stretch(toClient', DownStream, ReadDown') /\ PutDown' = PutDown + 1
         /\ ReadDown' = ReadDown
<1>1. Stretch(toClient, DownStream, ReadDown)
  BY DEF OwnInv, OwnStreams
<1>2. /\ ReadDown \in Nat /\ PutDown \in Nat /\ Len(toClient) \in Nat
      /\ PutDown = ReadDown + Len(toClient)
  BY OwnRange
<1>3. ReadDown \in Nat /\ r = DownStream[ReadDown + Len(toClient) + 1]
  BY <1>2
<1>4. /\ Stretch(Append(toClient, r), DownStream, ReadDown)
      /\ Len(Append(toClient, r)) = Len(toClient) + 1
  BY ONLY r \in OwnRecs, <1>1, <1>3, StretchAdd
<1>5. ReadDown' = ReadDown
  BY DEF ReadDown
<1>6. PutDown' = ReadDown + (Len(toClient) + 1)
  BY <1>4 DEF PutDown, ReadDown
<1>7. PutDown' = PutDown + 1
  BY ONLY <1>2, <1>6
<1> QED
  BY <1>4, <1>5, <1>7

(* A client that shows its checksum has read all of the handshake: nothing *)
(* of it is left to be hashed or to be passed on.                          *)
LEMMA OwnOpen ==
  ASSUME OwnInv, mode = 2, SentUp > UpLen
  PROVE  /\ hashW.phase = 1 /\ GoneDown = DownLen /\ hashed = DownLen /\ PutDown >= DownLen
         /\ client = "open"
<1>1. OwnSetting /\ OwnClient /\ OwnSecond
  BY DEF OwnInv
<1>2. /\ SentUp \in Nat /\ ReadDown \in Nat /\ PutDown \in Nat /\ Len(toClient) \in Nat
      /\ PutDown = ReadDown + Len(toClient) /\ GoneDown \in Nat /\ SentDown \in Nat
      /\ Len(fakeConn) \in Nat /\ SentDown = GoneDown + Len(fakeConn) /\ SentDown <= DownLen
  BY OwnRange
<1>3. UpLen \in {3, 4} /\ DownLen \in Nat
  BY <1>1, OwnLengths
<1>4. SentUp # 0 /\ SentUp # 1 /\ SentUp # UpLen
  BY <1>2, <1>3
<1>5. client = "open" /\ ReadDown >= DownLen
  BY <1>1, <1>4 DEF OwnClient
<1>6. GoneDown <= DownLen /\ PutDown >= DownLen
  BY ONLY <1>2, <1>3, <1>5
<1>7. hashW.phase = 1
  <2>1. hashW.phase # 1 => PutDown = GoneDown - 1
    BY <1>1 DEF OwnSecond
  <2> QED
    BY ONLY <1>2, <1>3, <1>6, <2>1
<1>8. GoneDown = DownLen
  <2>1. PutDown = GoneDown \/ (PutDown >= DownLen /\ GoneDown = DownLen)
    BY <1>1, <1>7 DEF OwnSecond
  <2> QED
    BY ONLY <1>2, <1>3, <1>6, <2>1
<1>9. hashed = DownLen
  BY <1>1, <1>7, <1>8 DEF OwnSecond
<1> QED
  BY <1>5, <1>6, <1>7, <1>8, <1>9

(* How far the copier to the target is, in both versions.                  *)
LEMMA OwnCopier ==
  ASSUME OwnInv
  PROVE  /\ mode = 2 => \/ copier.up = "copy" /\ GoneUp <= UpLen
                        \/ copier.up = "taken" /\ GoneUp > UpLen
         /\ mode = 1 => \/ copier.up = "copy" /\ GoneUp < UpLen - 1
                        \/ copier.up = "last" /\ GoneUp = UpLen - 1
                        \/ copier.up = "done" /\ GoneUp >= UpLen
<1>1. GoneUp \in Nat /\ UpLen \in {3, 4} /\ mode \in {1, 2}
  BY OwnRange, OwnLengths DEF OwnInv, OwnSetting
<1>2. ASSUME mode = 2
      PROVE  \/ copier.up = "copy" /\ GoneUp <= UpLen
             \/ copier.up = "taken" /\ GoneUp > UpLen
  <2>1. GoneUp <= UpLen \/ GoneUp > UpLen
    BY ONLY <1>1
  <2> QED
    BY <1>2, <2>1 DEF OwnInv, OwnSecond
<1>3. ASSUME mode = 1
      PROVE  \/ copier.up = "copy" /\ GoneUp < UpLen - 1
             \/ copier.up = "last" /\ GoneUp = UpLen - 1
             \/ copier.up = "done" /\ GoneUp >= UpLen
  <2>1. GoneUp < UpLen - 1 \/ GoneUp = UpLen - 1 \/ GoneUp >= UpLen
    BY ONLY <1>1
  <2> QED
    BY <1>3, <2>1 DEF OwnInv, OwnFirst
<1> QED
  BY <1>2, <1>3

LEMMA OwnCopiesDown ==
  ASSUME OwnInv, ShadowTls!CopyDown
  PROVE  OwnInv'
<1>1. /\ mode = 2 /\ hashW.phase = 1 /\ fakeConn # <<>> /\ fakeConn' = Tail(fakeConn)
      /\ hashW' = [phase |-> 2, rec |-> Head(fakeConn)]
      /\ UNCHANGED <<mode, tls, who, extra, flight, client, clientRead, clientSent, data,
                     toServer, copier, step, apps, forwardedUp, tunnel, seen, targetSent,
                     fakeOpen, hashed, toClient>>
  BY DEF ShadowTls!CopyDown, ShadowTls!setting, ShadowTls!ofClient, ShadowTls!ofUp,
         ShadowTls!ofTarget
<1>2. OwnTarget /\ OwnSecond
  BY <1>1 DEF OwnInv
<1>3. GoneDown \in Nat /\ PutDown \in Nat
  BY OwnRange
<1>4. /\ Head(fakeConn) = DownStream[GoneDown + 1] /\ Head(fakeConn) \in OwnRecs
      /\ GoneDown' = GoneDown + 1 /\ Stretch(fakeConn', DownStream, GoneDown')
      /\ GoneDown + 1 <= DownLen /\ SentDown' = SentDown
  BY <1>1, OwnTakesDown
<1>5. /\ OwnClient' /\ SentUp' = SentUp /\ ReadDown' = ReadDown
      /\ Stretch(clientSent', UpStream, 0) /\ Stretch(clientRead', DownStream, 0)
      /\ UpLen' = UpLen /\ EndAt' = EndAt /\ DownLen' = DownLen /\ DownStream' = DownStream
  BY <1>1, OwnClientRests
<1>6. GoneUp' = GoneUp /\ PassedUp' = PassedUp /\ PutDown' = PutDown
  BY <1>1 DEF GoneUp, PassedUp, PutDown
<1>7. GoneDown' \in Nat /\ GoneDown' - 1 = GoneDown /\ DownLen \in Nat
  <2>1. DownLen \in Nat
    BY OwnLengths DEF OwnInv
  <2> QED
    BY ONLY <1>3, <1>4, <2>1
<1>8. PutDown = GoneDown /\ hashed = GoneDown
  <2>1. PutDown = GoneDown \/ GoneDown = DownLen
    BY <1>1, <1>2 DEF OwnSecond
  <2>2. PutDown = GoneDown
    BY ONLY <1>3, <1>4, <1>7, <2>1
  <2> QED
    BY <1>1, <1>2, <2>2 DEF OwnSecond
<1>9. OwnTarget'
  BY <1>1, <1>2, <1>4, <1>5, <1>6, <1>7 DEF OwnTarget
<1>10. OwnSecond'
  <2>1. hashW'.phase = 2 /\ hashW'.rec = DownStream[GoneDown'] /\ hashW'.rec \in OwnRecs
    BY <1>1, <1>4
  <2>2. hashW' \in [phase : {1, 2, 3}, rec : OwnRecs]
    BY <1>1, <1>4
  <2>3. PutDown' = GoneDown' - 1 /\ hashed' = GoneDown' - 1 /\ PutDown' <= GoneDown'
    <3>1. PutDown <= GoneDown'
      BY ONLY <1>3, <1>4, <1>8
    <3> QED
      BY <1>1, <1>6, <1>7, <1>8, <3>1
  <2> QED
    BY <1>1, <1>2, <1>5, <1>6, <2>1, <2>2, <2>3 DEF OwnSecond
<1>11. OwnTunnel' /\ DOMAIN copier' = {"up", "down"} /\ DOMAIN step' = {"up", "down"}
  BY <1>1 DEF OwnInv, OwnTunnel, OwnSetting
<1>12. /\ Stretch(toServer', UpStream, GoneUp') /\ Stretch(forwardedUp', UpStream, 0)
       /\ Stretch(targetSent', DownStream, 0) /\ Stretch(toClient', DownStream, ReadDown')
  BY <1>1, <1>5, <1>6 DEF OwnInv, OwnStreams
<1>13. mode # 1
  BY <1>1
<1> QED
  BY <1>1, <1>4, <1>5, <1>9, <1>10, <1>11, <1>12, <1>13, OwnAgain

LEMMA OwnHashes ==
  ASSUME OwnInv, ShadowTls!HashWrite
  PROVE  OwnInv'
<1>1. /\ hashW.phase > 1 /\ hashW' = [hashW EXCEPT !.phase = (@ % 3) + 1]
      /\ UNCHANGED <<mode, tls, who, extra, flight, client, clientRead, clientSent, data,
                     toServer, copier, step, apps, forwardedUp, tunnel, seen, targetSent,
                     fakeConn, fakeOpen>>
  BY DEF ShadowTls!HashWrite, ShadowTls!setting, ShadowTls!ofClient, ShadowTls!ofUp,
         ShadowTls!ofTarget
<1>2. OwnSetting /\ mode = 2 /\ OwnTarget /\ OwnSecond
  <2>1. mode # 1
    <3>1. mode = 1 => hashW.phase = 1
      BY DEF OwnInv, OwnFirst
    <3> QED
      BY <1>1, <3>1
  <2> QED
    BY <2>1 DEF OwnInv, OwnSetting
<1>3. hashW \in [phase : {1, 2, 3}, rec : OwnRecs]
  BY <1>2 DEF OwnSecond
<1>4. GoneDown \in Nat /\ PutDown \in Nat
  BY OwnRange
<1>5. /\ OwnClient' /\ SentUp' = SentUp /\ ReadDown' = ReadDown
      /\ Stretch(clientSent', UpStream, 0) /\ Stretch(clientRead', DownStream, 0)
      /\ UpLen' = UpLen /\ EndAt' = EndAt /\ DownLen' = DownLen /\ DownStream' = DownStream
  BY <1>1, OwnClientRests
<1>6. /\ GoneUp' = GoneUp /\ PassedUp' = PassedUp /\ GoneDown' = GoneDown
      /\ SentDown' = SentDown
  BY <1>1 DEF GoneUp, PassedUp, GoneDown, SentDown
<1>7. /\ PutDown = GoneDown - 1 /\ hashW.rec = DownStream[GoneDown]
      /\ hashW.phase = 2 => hashed = GoneDown - 1
      /\ hashW.phase # 2 => hashed = GoneDown
      /\ SentUp <= UpLen => PutDown <= GoneDown
  BY <1>1, <1>2 DEF OwnSecond
<1>8. OwnTarget'
  BY <1>1, <1>2, <1>5, <1>6 DEF OwnTarget
<1>9. /\ OwnTunnel' /\ DOMAIN copier' = {"up", "down"} /\ DOMAIN step' = {"up", "down"}
      /\ mode # 1
  BY <1>1, <1>2 DEF OwnInv, OwnTunnel, OwnSetting
<1>10. /\ Stretch(toServer', UpStream, GoneUp') /\ Stretch(forwardedUp', UpStream, 0)
       /\ Stretch(targetSent', DownStream, 0) /\ Stretch(fakeConn', DownStream, GoneDown')
       /\ Stretch(toClient, DownStream, ReadDown)
  BY <1>1, <1>5, <1>6 DEF OwnInv, OwnStreams
<1>11. CASE hashW.phase = 2
  <2>1. ShadowTls!WriteOrder[hashW.phase - 1] = "hash"
    BY <1>11 DEF ShadowTls!WriteOrder
  <2>2. copier.up # "fallback"
    BY <1>2, OwnCopier
  <2>3. hashed' = hashed + 1 /\ toClient' = toClient
    BY <2>1, <2>2 DEF ShadowTls!HashWrite
  <2>4. hashW' = [phase |-> 3, rec |-> hashW.rec]
    BY <1>1, <1>3, <1>11
  <2>5. hashW' \in [phase : {1, 2, 3}, rec : OwnRecs] /\ hashW'.phase = 3
        /\ hashW'.rec = hashW.rec
    BY <1>3, <2>4
  <2>6. hashed' = GoneDown
    BY ONLY <1>4, <1>7, <1>11, <2>3
  <2>7. PutDown' = PutDown
    BY <1>1, <2>3 DEF PutDown
  <2>8. OwnSecond'
    BY <1>1, <1>2, <1>5, <1>6, <1>7, <2>5, <2>6, <2>7 DEF OwnSecond
  <2>9. Stretch(toClient', DownStream, ReadDown')
    BY <1>5, <1>10, <2>3
  <2> QED
    BY <1>1, <1>5, <1>8, <1>9, <1>10, <2>8, <2>9, OwnAgain
<1>12. CASE hashW.phase = 3
  <2>1. ShadowTls!WriteOrder[hashW.phase - 1] = "write"
    BY <1>12 DEF ShadowTls!WriteOrder
  <2>2. hashed' = hashed /\ toClient' = Append(toClient, hashW.rec)
    BY <2>1 DEF ShadowTls!HashWrite
  <2>3. hashW' = [phase |-> 1, rec |-> hashW.rec]
    BY <1>1, <1>3, <1>12
  <2>4. hashW' \in [phase : {1, 2, 3}, rec : OwnRecs] /\ hashW'.phase = 1
    BY <1>3, <2>3
  <2>5. hashW.rec \in OwnRecs /\ PutDown + 1 = GoneDown
    BY <1>3, <1>4, <1>7
  <2>6. hashW.rec = DownStream[PutDown + 1]
    BY <1>7, <2>5
  <2>7. Stretch(toClient', DownStream, ReadDown') /\ PutDown' = PutDown + 1
    BY <1>1, <2>2, <2>5, <2>6, OwnPutsDown
  <2>8. PutDown' = GoneDown /\ PutDown' <= GoneDown /\ hashed' = GoneDown
    BY <1>4, <1>7, <1>12, <2>2, <2>5, <2>7
  <2>9. OwnSecond'
    BY <1>1, <1>2, <1>5, <1>6, <2>4, <2>8 DEF OwnSecond
  <2> QED
    BY <1>1, <1>5, <1>8, <1>9, <1>10, <2>7, <2>9, OwnAgain
<1> QED
  BY <1>1, <1>3, <1>11, <1>12

(* The copier of version 2 passes the handshake on and takes the checksum. *)
LEMMA OwnCopiesUp ==
  ASSUME OwnInv, ShadowTls!CopyUp
  PROVE  OwnInv'
<1> DEFINE r == Head(toServer)
           count == IF r.type = 23 THEN apps + 1 ELSE apps
<1>1. /\ mode = 2 /\ copier.up = "copy" /\ toServer # <<>> /\ toServer' = Tail(toServer)
      /\ UNCHANGED <<mode, tls, who, extra, flight, client, clientRead, clientSent, data,
                     tunnel, seen, targetSent, fakeConn, fakeOpen, hashW, hashed, toClient>>
      /\ ShadowTls!Recognised(r) =>
           copier' = [copier EXCEPT !.up = "taken"] /\ UNCHANGED <<step, apps, forwardedUp>>
      /\ ~ShadowTls!Recognised(r) =>
           /\ forwardedUp' = Append(forwardedUp, r) /\ apps' = count
           /\ step' = [step EXCEPT !.up = @ + 1]
           /\ copier' = [copier EXCEPT !.up = IF count > 3 THEN "fallback"
                                              ELSE IF step.up + 1 > 8 THEN "failed" ELSE @]
  BY DEF ShadowTls!CopyUp, ShadowTls!setting, ShadowTls!ofClient, ShadowTls!ofTarget,
         ShadowTls!ofDown
<1>2. OwnSetting /\ OwnTarget /\ OwnSecond
  BY <1>1 DEF OwnInv
<1>3. /\ GoneUp \in Nat /\ SentUp \in Nat /\ PassedUp \in Nat /\ seen \in Nat
      /\ UpLen \in {3, 4} /\ DownLen \in {3, 4, 6, 7, 8}
  <2>1. GoneUp \in Nat /\ SentUp \in Nat /\ PassedUp \in Nat /\ seen \in Nat
    BY OwnRange
  <2> QED
    BY <1>2, <2>1, OwnLengths
<1>4. /\ r = UpStream[GoneUp + 1] /\ r \in OwnRecs /\ GoneUp' = GoneUp + 1
      /\ Stretch(toServer', UpStream, GoneUp') /\ GoneUp + 1 <= SentUp
  BY <1>1, OwnTakesUp
<1>5. /\ OwnClient' /\ SentUp' = SentUp /\ ReadDown' = ReadDown
      /\ Stretch(clientSent', UpStream, 0) /\ Stretch(clientRead', DownStream, 0)
      /\ UpLen' = UpLen /\ EndAt' = EndAt /\ DownLen' = DownLen /\ DownStream' = DownStream
  BY <1>1, OwnClientRests
<1>6. GoneDown' = GoneDown /\ SentDown' = SentDown /\ PutDown' = PutDown
  BY <1>1 DEF GoneDown, SentDown, PutDown
<1>7. GoneUp <= UpLen /\ PassedUp = GoneUp /\ step.up = PassedUp /\ apps \in {0, 1}
      /\ (PassedUp < UpLen => apps = 0)
  <2>1. GoneUp <= UpLen
    BY <1>1, OwnCopier
  <2> QED
    BY <1>2, <2>1 DEF OwnTarget, OwnSecond
<1>8. DOMAIN copier = {"up", "down"} /\ DOMAIN step = {"up", "down"}
  BY <1>2 DEF OwnSetting
<1>9. OwnTunnel' /\ mode # 1
  BY <1>1 DEF OwnInv, OwnTunnel
<1>10. /\ Stretch(forwardedUp, UpStream, 0)
       /\ Stretch(targetSent', DownStream, 0) /\ Stretch(fakeConn', DownStream, GoneDown')
       /\ Stretch(toClient', DownStream, ReadDown')
  BY <1>1, <1>5, <1>6 DEF OwnInv, OwnStreams
<1>11. GoneUp' \in Nat /\ GoneUp + 1 \in Nat \ {0}
  BY ONLY <1>3, <1>4
<1>12. CASE GoneUp < UpLen
  <2>1. GoneUp + 1 <= UpLen /\ ~(GoneUp + 1 > UpLen)
    BY ONLY <1>3, <1>12
  <2>2. r.what # "sum"
    BY <1>2, <1>4, <1>11, <2>1, UpRecIs
  <2>3. ~ShadowTls!Recognised(r)
    BY <2>2 DEF ShadowTls!Recognised
  <2>4. count \in {0, 1} /\ (GoneUp + 1 < UpLen => count = 0)
    <3>1. apps = 0
      BY <1>7, <1>12
    <3>2. CASE GoneUp + 1 < UpLen
      <4>1. GoneUp + 1 < UpLen - 1 \/ GoneUp + 1 = UpLen - 1
        BY ONLY <1>3, <3>2
      <4>2. r.type # 23
        BY <1>2, <1>4, <1>11, <4>1, UpRecIs
      <4> QED
        BY <3>1, <4>2
    <3>3. CASE ~(GoneUp + 1 < UpLen)
      BY <3>1, <3>3
    <3> QED
      BY <3>2, <3>3
  <2>5. step.up + 1 = GoneUp + 1 /\ ~(step.up + 1 > 8)
    <3>1. ~(GoneUp + 1 > 8)
      BY ONLY <1>3, <2>1
    <3> QED
      BY <1>7, <3>1
  <2>6. ~(count > 3)
    BY <2>4
  <2> HIDE DEF count
  <2>7. /\ copier'.up = "copy" /\ DOMAIN copier' = {"up", "down"}
        /\ step'.up = GoneUp + 1 /\ DOMAIN step' = {"up", "down"}
    <3>1. copier' = [copier EXCEPT !.up = IF count > 3 THEN "fallback"
                                          ELSE IF step.up + 1 > 8 THEN "failed" ELSE @]
      BY <1>1, <2>3
    <3>2. step' = [step EXCEPT !.up = @ + 1]
      BY <1>1, <2>3
    <3> QED
      BY <1>1, <1>8, <2>5, <2>6, <3>1, <3>2
  <2>8. Stretch(forwardedUp', UpStream, 0) /\ PassedUp' = GoneUp + 1
    <3>1. forwardedUp' = Append(forwardedUp, r) /\ r = UpStream[PassedUp + 1]
      BY <1>1, <1>4, <1>7, <2>3
    <3>2. Stretch(forwardedUp', UpStream, 0) /\ PassedUp' = PassedUp + 1
      BY <1>4, <3>1, OwnPassesUp
    <3> QED
      BY <1>7, <3>2
  <2>9. OwnTarget'
    <3>1. seen <= PassedUp
      BY <1>2 DEF OwnTarget
    <3>2. seen <= PassedUp'
      BY ONLY <1>3, <1>7, <2>8, <3>1
    <3>3. GoneUp' = PassedUp' /\ ~(GoneUp' > UpLen)
      BY <1>4, <2>1, <2>8
    <3> QED
      BY <1>1, <1>2, <1>5, <1>6, <1>11, <3>2, <3>3 DEF OwnTarget
  <2>10. OwnSecond'
    <3>1. apps' \in {0, 1} /\ (PassedUp' < UpLen => apps' = 0) /\ step'.up = PassedUp'
      BY <1>1, <2>3, <2>4, <2>7, <2>8
    <3>2. ~(GoneUp' > UpLen) /\ ~(GoneUp > UpLen)
      BY ONLY <1>3, <1>4, <1>12, <2>1
    <3>3. fakeOpen' \in BOOLEAN /\ fakeOpen'
      BY <1>1, <1>2, <3>2 DEF OwnSecond
    <3> QED
      BY <1>1, <1>2, <1>5, <1>6, <2>7, <3>1, <3>2, <3>3 DEF OwnSecond
  <2> QED
    BY <1>1, <1>4, <1>5, <1>9, <1>10, <2>7, <2>8, <2>9, <2>10, OwnAgain
<1>13. CASE GoneUp = UpLen
  <2>1. SentUp > UpLen /\ GoneUp + 1 > UpLen
    BY ONLY <1>3, <1>4, <1>13
  <2>2. hashW.phase = 1 /\ GoneDown = DownLen /\ hashed = DownLen /\ PutDown >= DownLen
    BY <1>1, <2>1, OwnOpen
  <2>3. r = [type |-> 23, what |-> "sum", covers |-> DownLen]
    <3>1. mode = 2 /\ GoneUp + 1 = UpLen + 1
      BY <1>1, <1>13
    <3> QED
      BY <1>2, <1>4, <1>11, <3>1, UpRecIs
  <2>4. ShadowTls!Recognised(r)
    <3>1. DownLen > 0
      BY <1>3
    <3> QED
      BY <2>2, <2>3, <3>1 DEF ShadowTls!Recognised
  <2>5. copier' = [copier EXCEPT !.up = "taken"] /\ UNCHANGED <<step, apps, forwardedUp>>
    BY <1>1, <2>4
  <2>6. copier'.up = "taken" /\ DOMAIN copier' = {"up", "down"} /\ DOMAIN step' = {"up", "down"}
    BY <1>8, <2>5
  <2>7. PassedUp' = UpLen /\ GoneUp' > UpLen /\ ~(GoneUp' <= UpLen)
    <3>1. PassedUp' = PassedUp
      BY <2>5 DEF PassedUp
    <3>2. GoneUp' > UpLen /\ ~(GoneUp' <= UpLen)
      BY ONLY <1>3, <1>4, <1>13
    <3> QED
      BY <1>7, <1>13, <3>1, <3>2
  <2>8. PassedUp' = PassedUp
    BY <2>5 DEF PassedUp
  <2>9. OwnTarget'
    BY <1>1, <1>2, <1>5, <1>6, <1>11, <2>7, <2>8 DEF OwnTarget
  <2>10. OwnSecond'
    <3>1. step'.up = PassedUp' /\ apps' = apps
      BY <1>7, <2>5, <2>8
    <3> QED
      BY <1>1, <1>2, <1>5, <1>6, <2>6, <2>7, <2>8, <3>1 DEF OwnSecond
  <2>11. Stretch(forwardedUp', UpStream, 0)
    BY <1>10, <2>5
  <2> QED
    BY <1>1, <1>4, <1>5, <1>9, <1>10, <2>6, <2>9, <2>10, <2>11, OwnAgain
<1>14. GoneUp < UpLen \/ GoneUp = UpLen
  BY ONLY <1>3, <1>7
<1> QED
  BY <1>12, <1>13, <1>14

LEMMA OwnCloses ==
  ASSUME OwnInv, ShadowTls!CloseFake
  PROVE  OwnInv'
<1>1. /\ mode = 2 /\ copier.up = "taken" /\ fakeOpen' = FALSE
      /\ UNCHANGED <<mode, tls, who, extra, flight, client, clientRead, clientSent, data,
                     toServer, copier, step, apps, forwardedUp, tunnel, seen, targetSent,
                     fakeConn, hashW, hashed, toClient>>
  BY DEF ShadowTls!CloseFake, ShadowTls!setting, ShadowTls!ofClient, ShadowTls!ofUp,
         ShadowTls!ofTarget, ShadowTls!ofDown
<1>2. OwnTarget /\ OwnSecond /\ GoneUp > UpLen
  <2>1. GoneUp > UpLen
    BY <1>1, OwnCopier
  <2> QED
    BY <1>1, <2>1 DEF OwnInv
<1>3. /\ OwnClient' /\ SentUp' = SentUp /\ ReadDown' = ReadDown
      /\ Stretch(clientSent', UpStream, 0) /\ Stretch(clientRead', DownStream, 0)
      /\ UpLen' = UpLen /\ EndAt' = EndAt /\ DownLen' = DownLen /\ DownStream' = DownStream
  BY <1>1, OwnClientRests
<1>4. /\ GoneUp' = GoneUp /\ PassedUp' = PassedUp /\ GoneDown' = GoneDown
      /\ SentDown' = SentDown /\ PutDown' = PutDown
  BY <1>1 DEF GoneUp, PassedUp, GoneDown, SentDown, PutDown
<1>5. OwnTarget'
  BY <1>1, <1>2, <1>3, <1>4 DEF OwnTarget
<1>6. OwnSecond'
  <2>1. fakeOpen' \in BOOLEAN /\ GoneUp' > UpLen'
    BY <1>1, <1>2, <1>3, <1>4
  <2> QED
    BY <1>1, <1>2, <1>3, <1>4, <2>1 DEF OwnSecond
<1>7. /\ OwnTunnel' /\ DOMAIN copier' = {"up", "down"} /\ DOMAIN step' = {"up", "down"}
      /\ mode # 1
  BY <1>1 DEF OwnInv, OwnTunnel, OwnSetting
<1>8. /\ Stretch(toServer', UpStream, GoneUp') /\ Stretch(forwardedUp', UpStream, 0)
      /\ Stretch(targetSent', DownStream, 0) /\ Stretch(fakeConn', DownStream, GoneDown')
      /\ Stretch(toClient', DownStream, ReadDown')
  BY <1>1, <1>3, <1>4 DEF OwnInv, OwnStreams
<1> QED
  BY <1>1, <1>3, <1>5, <1>6, <1>7, <1>8, OwnAgain

LEMMA OwnNeverFallsBack ==
  ASSUME OwnInv
  PROVE  ~ShadowTls!Fallback
<1>1. mode \in {1, 2}
  BY DEF OwnInv, OwnSetting
<1>2. copier.up # "fallback"
  BY <1>1, OwnCopier
<1> QED
  BY <1>2 DEF ShadowTls!Fallback

-----------------------------------------------------------------------------
(* Version 1 counts.                                                       *)
LEMMA OwnCounts ==
  ASSUME OwnInv, NEW side \in {"up", "down"}, NEW other \in {"up", "down"}, other # side,
         NEW r, ShadowTls!Counted(side, r)
  PROVE  /\ DOMAIN copier' = {"up", "down"} /\ DOMAIN step' = {"up", "down"}
         /\ copier'[other] = copier[other] /\ step'[other] = step[other]
         /\ step'[side] = step[side] + 1
         /\ r.type \notin {20, 22} => copier'[side] = "failed"
         /\ r.type \in {20, 22} /\ copier[side] = "last" => copier'[side] = "done"
         /\ r.type \in {20, 22} /\ copier[side] = "copy" /\ step[side] + 1 > 6 =>
              copier'[side] = "failed"
         /\ r.type = 20 /\ copier[side] = "copy" /\ ~(step[side] + 1 > 6) => copier'[side] = "last"
         /\ r.type = 22 /\ copier[side] = "copy" /\ ~(step[side] + 1 > 6) => copier'[side] = "copy"
<1> DEFINE n == step[side] + 1
<1>1. /\ step' = [step EXCEPT ![side] = n]
      /\ copier' = [copier EXCEPT ![side] =
           IF r.type \notin {20, 22} THEN "failed"
           ELSE IF copier[side] = "last" THEN "done"
           ELSE IF n > 6 THEN "failed"
           ELSE IF r.type = 20 THEN "last" ELSE copier[side]]
  BY DEF ShadowTls!Counted
<1>2. DOMAIN copier = {"up", "down"} /\ DOMAIN step = {"up", "down"}
  BY DEF OwnInv, OwnSetting
<1>3. step'[side] = n /\ step'[other] = step[other] /\ DOMAIN step' = {"up", "down"}
  BY <1>1, <1>2
<1> HIDE DEF n
<1>4. /\ copier'[side] = (IF r.type \notin {20, 22} THEN "failed"
                          ELSE IF copier[side] = "last" THEN "done"
                          ELSE IF n > 6 THEN "failed"
                          ELSE IF r.type = 20 THEN "last" ELSE copier[side])
      /\ copier'[other] = copier[other] /\ DOMAIN copier' = {"up", "down"}
  BY <1>1, <1>2
<1>5. /\ r.type \notin {20, 22} => copier'[side] = "failed"
      /\ r.type \in {20, 22} /\ copier[side] = "last" => copier'[side] = "done"
      /\ r.type \in {20, 22} /\ copier[side] = "copy" /\ n > 6 => copier'[side] = "failed"
  <2>1. ASSUME r.type \notin {20, 22} PROVE copier'[side] = "failed"
    BY <1>4, <2>1
  <2>2. ASSUME r.type \in {20, 22}, copier[side] = "last" PROVE copier'[side] = "done"
    BY <1>4, <2>2
  <2>3. ASSUME r.type \in {20, 22}, copier[side] = "copy", n > 6 PROVE copier'[side] = "failed"
    <3>1. copier[side] # "last"
      BY <2>3
    <3> QED
      BY <1>4, <2>3, <3>1
  <2> QED
    BY <2>1, <2>2, <2>3
<1>6. /\ r.type = 20 /\ copier[side] = "copy" /\ ~(n > 6) => copier'[side] = "last"
      /\ r.type = 22 /\ copier[side] = "copy" /\ ~(n > 6) => copier'[side] = "copy"
  BY <1>4
<1> QED
  BY <1>3, <1>4, <1>5, <1>6 DEF n

LEMMA OwnHandshakesUp ==
  ASSUME OwnInv, ShadowTls!HandshakeUp
  PROVE  OwnInv'
<1> DEFINE r == Head(toServer)
<1>1. /\ toServer # <<>> /\ toServer' = Tail(toServer) /\ mode = 1
      /\ copier["up"] \in {"copy", "last"} /\ ShadowTls!Counted("up", r)
      /\ forwardedUp' = (IF r.type \in {20, 22} THEN Append(forwardedUp, r) ELSE forwardedUp)
      /\ UNCHANGED <<mode, tls, who, extra, flight, client, clientRead, clientSent, data, apps,
                     tunnel, seen, targetSent, fakeConn, fakeOpen, hashW, hashed, toClient>>
  BY DEF ShadowTls!HandshakeUp, ShadowTls!Passes, ShadowTls!setting, ShadowTls!ofClient,
         ShadowTls!ofTarget, ShadowTls!ofDown
<1>2. OwnSetting /\ OwnTarget /\ OwnFirst /\ OwnClient
  BY <1>1 DEF OwnInv
<1>3. /\ GoneUp \in Nat /\ SentUp \in Nat /\ PassedUp \in Nat /\ seen \in Nat
      /\ ReadDown \in Nat /\ PutDown \in Nat /\ Len(toClient) \in Nat
      /\ PutDown = ReadDown + Len(toClient)
  BY OwnRange
<1>4. /\ UpLen \in {3, 4} /\ tls \in {"1.2", "1.3"}
      /\ tls = "1.2" => UpLen = 4
      /\ tls = "1.3" => UpLen = 3 /\ EndAt = 3 /\ DownLen = 3
  BY <1>2, OwnLengths
<1>5. /\ r = UpStream[GoneUp + 1] /\ r \in OwnRecs /\ GoneUp' = GoneUp + 1
      /\ Stretch(toServer', UpStream, GoneUp') /\ GoneUp + 1 <= SentUp
  BY <1>1, OwnTakesUp
<1>6. /\ OwnClient' /\ SentUp' = SentUp /\ ReadDown' = ReadDown
      /\ Stretch(clientSent', UpStream, 0) /\ Stretch(clientRead', DownStream, 0)
      /\ UpLen' = UpLen /\ EndAt' = EndAt /\ DownLen' = DownLen /\ DownStream' = DownStream
  BY <1>1, OwnClientRests
<1>7. GoneDown' = GoneDown /\ SentDown' = SentDown /\ PutDown' = PutDown
  BY <1>1 DEF GoneDown, SentDown, PutDown
<1>8. GoneUp < UpLen
  <2>1. GoneUp < UpLen - 1 \/ GoneUp = UpLen - 1
    BY <1>1, OwnCopier
  <2> QED
    BY ONLY <1>3, <1>4, <2>1
<1>9. PassedUp = GoneUp /\ step["up"] = GoneUp
  <2>1. GoneUp <= UpLen
    BY ONLY <1>3, <1>4, <1>8
  <2> QED
    BY <1>2, <2>1 DEF OwnTarget, OwnFirst
(* With TLS 1.3 the client never comes to its answer.                      *)
<1>10. tls = "1.3" => GoneUp = 0
  <2>1. SUFFICES ASSUME tls = "1.3" PROVE GoneUp = 0
    OBVIOUS
  <2>2. PutDown <= 2
    BY <1>2, <2>1 DEF OwnFirst
  <2>3. DownLen = 3 /\ tls # "1.2"
    BY <1>4, <2>1
  <2>4. ~(ReadDown >= DownLen)
    BY ONLY <1>3, <2>2, <2>3
  <2>5. SentUp = 0 \/ SentUp = 1
    BY <1>2, <2>3, <2>4 DEF OwnClient
  <2> QED
    BY ONLY <1>3, <1>5, <2>5
<1>11. GoneUp + 1 \in Nat \ {0} /\ GoneUp + 1 <= UpLen /\ ~(GoneUp + 1 > UpLen)
  BY ONLY <1>3, <1>4, <1>8
<1>12. \/ GoneUp + 1 < UpLen - 1 /\ r.type = 22
       \/ GoneUp + 1 = UpLen - 1 /\ r.type = 20
       \/ GoneUp + 1 = UpLen /\ r.type = 22
  <2>1. GoneUp + 1 < UpLen - 1 \/ GoneUp + 1 = UpLen - 1 \/ GoneUp + 1 = UpLen
    BY ONLY <1>3, <1>4, <1>11
  <2>2. GoneUp + 1 = UpLen => tls # "1.3"
    BY ONLY <1>3, <1>4, <1>10
  <2>3. /\ GoneUp + 1 < UpLen - 1 => r.type = 22
        /\ GoneUp + 1 = UpLen - 1 => r.type = 20
        /\ GoneUp + 1 = UpLen /\ tls # "1.3" => r.type = 22
    BY <1>2, <1>5, <1>11, UpRecIs
  <2> QED
    BY <2>1, <2>2, <2>3
<1>13. r.type \in {20, 22}
  BY <1>12
<1>14. Stretch(forwardedUp', UpStream, 0) /\ PassedUp' = GoneUp + 1
  <2>1. forwardedUp' = Append(forwardedUp, r) /\ r = UpStream[PassedUp + 1]
    BY <1>1, <1>5, <1>9, <1>13
  <2>2. Stretch(forwardedUp', UpStream, 0) /\ PassedUp' = PassedUp + 1
    BY <1>5, <2>1, OwnPassesUp
  <2> QED
    BY <1>9, <2>2
<1> HIDE DEF r
<1>15. /\ DOMAIN copier' = {"up", "down"} /\ DOMAIN step' = {"up", "down"}
       /\ copier'["down"] = copier["down"] /\ step'["down"] = step["down"]
       /\ step'["up"] = GoneUp + 1
       /\ r.type \in {20, 22} /\ copier["up"] = "last" => copier'["up"] = "done"
       /\ r.type = 20 /\ copier["up"] = "copy" /\ ~(GoneUp + 1 > 6) => copier'["up"] = "last"
       /\ r.type = 22 /\ copier["up"] = "copy" /\ ~(GoneUp + 1 > 6) => copier'["up"] = "copy"
  <2>1. "up" \in {"up", "down"} /\ "down" \in {"up", "down"} /\ "up" # "down"
    OBVIOUS
  <2>2. /\ DOMAIN copier' = {"up", "down"} /\ DOMAIN step' = {"up", "down"}
        /\ copier'["down"] = copier["down"] /\ step'["down"] = step["down"]
        /\ step'["up"] = step["up"] + 1
        /\ r.type \in {20, 22} /\ copier["up"] = "last" => copier'["up"] = "done"
        /\ r.type = 20 /\ copier["up"] = "copy" /\ ~(step["up"] + 1 > 6) => copier'["up"] = "last"
        /\ r.type = 22 /\ copier["up"] = "copy" /\ ~(step["up"] + 1 > 6) => copier'["up"] = "copy"
    BY <1>1, <2>1, OwnCounts
  <2> QED
    BY <1>9, <2>2
<1>16. /\ GoneUp' < UpLen - 1 => copier'["up"] = "copy"
       /\ GoneUp' = UpLen - 1 => copier'["up"] = "last"
       /\ GoneUp' >= UpLen => copier'["up"] = "done"
  <2>1. ~(GoneUp + 1 > 6)
    BY ONLY <1>3, <1>4, <1>11
  <2>2. /\ GoneUp < UpLen - 1 => copier["up"] = "copy"
        /\ GoneUp = UpLen - 1 => copier["up"] = "last"
    BY <1>2 DEF OwnFirst
  <2>3. CASE GoneUp + 1 < UpLen - 1 /\ r.type = 22
    <3>1. GoneUp < UpLen - 1 /\ GoneUp + 1 # UpLen - 1 /\ ~(GoneUp + 1 >= UpLen)
      BY ONLY <1>3, <1>4, <2>3
    <3> QED
      BY <1>5, <1>15, <2>1, <2>2, <2>3, <3>1
  <2>4. CASE GoneUp + 1 = UpLen - 1 /\ r.type = 20
    <3>1. GoneUp < UpLen - 1 /\ ~(GoneUp + 1 < UpLen - 1) /\ ~(GoneUp + 1 >= UpLen)
      BY ONLY <1>3, <1>4, <2>4
    <3> QED
      BY <1>5, <1>15, <2>1, <2>2, <2>4, <3>1
  <2>5. CASE GoneUp + 1 = UpLen /\ r.type = 22
    <3>1. GoneUp = UpLen - 1 /\ ~(GoneUp + 1 < UpLen - 1) /\ GoneUp + 1 # UpLen - 1
      BY ONLY <1>3, <1>4, <2>5
    <3> QED
      BY <1>5, <1>13, <1>15, <2>2, <3>1
  <2> QED
    BY <1>12, <2>3, <2>4, <2>5
<1>17. OwnTarget'
  <2>1. seen <= PassedUp
    BY <1>2 DEF OwnTarget
  <2>2. seen <= PassedUp' /\ GoneUp' \in Nat
    BY ONLY <1>3, <1>5, <1>9, <1>14, <2>1
  <2>3. GoneUp' = PassedUp' /\ ~(GoneUp' > UpLen)
    BY <1>5, <1>11, <1>14
  <2> QED
    BY <1>1, <1>2, <1>6, <1>7, <2>2, <2>3 DEF OwnTarget
<1>18. OwnFirst'
  <2>1. step'["up"] = GoneUp'
    BY <1>5, <1>15
  <2> QED
    BY <1>1, <1>2, <1>6, <1>7, <1>15, <1>16, <2>1 DEF OwnFirst
<1>19. OwnTunnel' /\ mode # 2
  BY <1>1 DEF OwnInv, OwnTunnel
<1>20. /\ Stretch(targetSent', DownStream, 0) /\ Stretch(fakeConn', DownStream, GoneDown')
       /\ Stretch(toClient', DownStream, ReadDown')
  BY <1>1, <1>6, <1>7 DEF OwnInv, OwnStreams
<1> QED
  BY <1>1, <1>5, <1>6, <1>14, <1>15, <1>17, <1>18, <1>19, <1>20, OwnAgain

LEMMA OwnHandshakesDown ==
  ASSUME OwnInv, ShadowTls!HandshakeDown
  PROVE  OwnInv'
<1> DEFINE r == Head(fakeConn)
<1>1. /\ fakeConn # <<>> /\ fakeConn' = Tail(fakeConn) /\ mode = 1
      /\ copier["down"] \in {"copy", "last"} /\ ShadowTls!Counted("down", r)
      /\ toClient' = (IF r.type \in {20, 22} THEN Append(toClient, r) ELSE toClient)
      /\ UNCHANGED <<mode, tls, who, extra, flight, client, clientRead, clientSent, data, toServer,
                     apps, forwardedUp, tunnel, seen, targetSent, fakeOpen, hashW, hashed>>
  BY DEF ShadowTls!HandshakeDown, ShadowTls!Passes, ShadowTls!setting, ShadowTls!ofClient,
         ShadowTls!ofTarget, ShadowTls!ofDown
<1>2. OwnSetting /\ OwnTarget /\ OwnFirst
  BY <1>1 DEF OwnInv
<1>3. GoneDown \in Nat /\ PutDown \in Nat
  BY OwnRange
<1>4. /\ DownLen \in {3, 4, 6, 7, 8} /\ tls \in {"1.2", "1.3"}
      /\ tls = "1.3" => DownLen = 3
  BY <1>2, OwnLengths
<1>5. /\ r = DownStream[GoneDown + 1] /\ r \in OwnRecs /\ GoneDown' = GoneDown + 1
      /\ Stretch(fakeConn', DownStream, GoneDown') /\ GoneDown + 1 <= DownLen
      /\ SentDown' = SentDown
  BY <1>1, OwnTakesDown
<1>6. /\ OwnClient' /\ SentUp' = SentUp /\ ReadDown' = ReadDown
      /\ Stretch(clientSent', UpStream, 0) /\ Stretch(clientRead', DownStream, 0)
      /\ UpLen' = UpLen /\ EndAt' = EndAt /\ DownLen' = DownLen /\ DownStream' = DownStream
  BY <1>1, OwnClientRests
<1>7. GoneUp' = GoneUp /\ PassedUp' = PassedUp
  BY <1>1 DEF GoneUp, PassedUp
<1>8. GoneDown + 1 \in Nat \ {0} /\ GoneDown # DownLen
  BY ONLY <1>3, <1>4, <1>5
<1>9. step["down"] = GoneDown
  BY <1>2 DEF OwnFirst
<1>10. PutDown = GoneDown
  <2>1. CASE tls = "1.2"
    <3>1. PutDown = GoneDown \/ GoneDown = DownLen
      BY <1>2, <2>1 DEF OwnFirst
    <3> QED
      BY <1>8, <3>1
  <2>2. CASE tls = "1.3"
    <3>1. PutDown = GoneDown \/ GoneDown = 3
      BY <1>2, <2>2 DEF OwnFirst
    <3> QED
      BY <1>4, <1>8, <2>2, <3>1
  <2> QED
    BY <1>4, <2>1, <2>2
<1>11. r.type \in {20, 22} =>
         Stretch(toClient', DownStream, ReadDown') /\ PutDown' = GoneDown + 1
  <2>1. SUFFICES ASSUME r.type \in {20, 22}
                 PROVE  Stretch(toClient', DownStream, ReadDown') /\ PutDown' = GoneDown + 1
    OBVIOUS
  <2>2. toClient' = Append(toClient, r) /\ r = DownStream[PutDown + 1]
    BY <1>1, <1>5, <1>10, <2>1
  <2>3. Stretch(toClient', DownStream, ReadDown') /\ PutDown' = PutDown + 1
    BY <1>1, <1>5, <2>2, OwnPutsDown
  <2> QED
    BY <1>10, <2>3
<1> HIDE DEF r
<1>12. /\ DOMAIN copier' = {"up", "down"} /\ DOMAIN step' = {"up", "down"}
       /\ copier'["up"] = copier["up"] /\ step'["up"] = step["up"]
       /\ step'["down"] = GoneDown + 1
       /\ r.type \notin {20, 22} => copier'["down"] = "failed"
       /\ r.type \in {20, 22} /\ copier["down"] = "last" => copier'["down"] = "done"
       /\ r.type \in {20, 22} /\ copier["down"] = "copy" /\ GoneDown + 1 > 6 =>
            copier'["down"] = "failed"
       /\ r.type = 20 /\ copier["down"] = "copy" /\ ~(GoneDown + 1 > 6) => copier'["down"] = "last"
       /\ r.type = 22 /\ copier["down"] = "copy" /\ ~(GoneDown + 1 > 6) => copier'["down"] = "copy"
  <2>1. "up" \in {"up", "down"} /\ "down" \in {"up", "down"} /\ "up" # "down"
    OBVIOUS
  <2>2. /\ DOMAIN copier' = {"up", "down"} /\ DOMAIN step' = {"up", "down"}
        /\ copier'["up"] = copier["up"] /\ step'["up"] = step["up"]
        /\ step'["down"] = step["down"] + 1
        /\ r.type \notin {20, 22} => copier'["down"] = "failed"
        /\ r.type \in {20, 22} /\ copier["down"] = "last" => copier'["down"] = "done"
        /\ r.type \in {20, 22} /\ copier["down"] = "copy" /\ step["down"] + 1 > 6 =>
             copier'["down"] = "failed"
        /\ r.type = 20 /\ copier["down"] = "copy" /\ ~(step["down"] + 1 > 6) =>
             copier'["down"] = "last"
        /\ r.type = 22 /\ copier["down"] = "copy" /\ ~(step["down"] + 1 > 6) =>
             copier'["down"] = "copy"
    BY <1>1, <2>1, OwnCounts
  <2> QED
    BY <1>9, <2>2
<1>13. ASSUME tls = "1.2"
       PROVE  /\ r.type \in {20, 22}
              /\ GoneDown' < DownLen - 1 => copier'["down"] = "copy"
              /\ GoneDown' = DownLen - 1 /\ DownLen = 8 => copier'["down"] = "failed"
              /\ GoneDown' = DownLen - 1 /\ DownLen # 8 => copier'["down"] = "last"
              /\ GoneDown' = DownLen => copier'["down"] = "done"
  <2>1. /\ GoneDown < DownLen - 1 => copier["down"] = "copy"
        /\ GoneDown = DownLen - 1 /\ DownLen = 8 => copier["down"] = "failed"
        /\ GoneDown = DownLen - 1 /\ DownLen # 8 => copier["down"] = "last"
    BY <1>2, <1>13 DEF OwnFirst
  <2>2. /\ GoneDown + 1 < DownLen - 1 => r.type = 22
        /\ GoneDown + 1 = DownLen - 1 => r.type = 20
        /\ GoneDown + 1 = DownLen => r.type = 22
    BY <1>2, <1>5, <1>8, <1>13, DownRecIs
  <2>3. CASE GoneDown + 1 < DownLen - 1
    <3>1. /\ GoneDown < DownLen - 1 /\ ~(GoneDown + 1 > 6) /\ GoneDown + 1 # DownLen - 1
          /\ GoneDown + 1 # DownLen
      BY ONLY <1>3, <1>4, <2>3
    <3>2. copier'["down"] = "copy" /\ r.type = 22
      BY <1>12, <2>1, <2>2, <2>3, <3>1
    <3> QED
      BY <1>5, <3>1, <3>2
  <2>4. CASE GoneDown + 1 = DownLen - 1
    <3>1. /\ GoneDown < DownLen - 1 /\ ~(GoneDown + 1 < DownLen - 1) /\ GoneDown + 1 # DownLen
          /\ (GoneDown + 1 > 6 <=> DownLen = 8)
      BY ONLY <1>3, <1>4, <2>4
    <3>2. r.type = 20 /\ copier["down"] = "copy"
      BY <2>1, <2>2, <2>4, <3>1
    <3>3. /\ DownLen = 8 => copier'["down"] = "failed"
          /\ DownLen # 8 => copier'["down"] = "last"
      BY <1>12, <3>1, <3>2
    <3> QED
      BY <1>5, <3>1, <3>2, <3>3
  <2>5. CASE GoneDown + 1 = DownLen
    <3>1. /\ GoneDown = DownLen - 1 /\ ~(GoneDown + 1 < DownLen - 1)
          /\ GoneDown + 1 # DownLen - 1
      BY ONLY <1>3, <1>4, <2>5
    <3>2. r.type = 22 /\ copier["down"] = "last"
      BY <1>1, <2>1, <2>2, <2>5, <3>1
    <3>3. copier'["down"] = "done"
      BY <1>12, <3>2
    <3> QED
      BY <1>5, <3>1, <3>2, <3>3
  <2>6. GoneDown + 1 < DownLen - 1 \/ GoneDown + 1 = DownLen - 1 \/ GoneDown + 1 = DownLen
    BY ONLY <1>3, <1>4, <1>5
  <2> QED
    BY <2>3, <2>4, <2>5, <2>6
<1>14. ASSUME tls = "1.3"
       PROVE  /\ GoneDown' < 2 => r.type = 22 /\ copier'["down"] = "copy"
              /\ GoneDown' = 2 => r.type = 20 /\ copier'["down"] = "last"
              /\ GoneDown' = 3 => r.type = 23 /\ copier'["down"] = "failed"
              /\ GoneDown' \in {1, 2, 3}
  <2>1. /\ GoneDown < 2 => copier["down"] = "copy"
    BY <1>2, <1>14 DEF OwnFirst
  <2>2. /\ GoneDown + 1 = 1 => r.type = 22
        /\ GoneDown + 1 = 2 => r.type = 20
        /\ GoneDown + 1 = 3 => r.type = 23
    BY <1>2, <1>5, <1>8, <1>14, DownRecIs
  <2>3. GoneDown + 1 \in {1, 2, 3} /\ DownLen = 3
    BY <1>3, <1>4, <1>5, <1>14
  <2>4. CASE GoneDown + 1 = 1
    <3>1. GoneDown < 2 /\ ~(GoneDown + 1 > 6)
      BY ONLY <1>3, <2>4
    <3> QED
      BY <1>5, <1>12, <2>1, <2>2, <2>4, <3>1
  <2>5. CASE GoneDown + 1 = 2
    <3>1. GoneDown < 2 /\ ~(GoneDown + 1 > 6)
      BY ONLY <1>3, <2>5
    <3> QED
      BY <1>5, <1>12, <2>1, <2>2, <2>5, <3>1
  <2>6. CASE GoneDown + 1 = 3
    BY <1>5, <1>12, <2>2, <2>6
  <2> QED
    BY <2>3, <2>4, <2>5, <2>6
<1>15. /\ Stretch(toClient', DownStream, ReadDown')
       /\ tls = "1.2" => PutDown' = GoneDown'
       /\ tls = "1.3" => PutDown' <= 2 /\ (PutDown' = GoneDown' \/ GoneDown' = 3)
  <2>1. CASE r.type \in {20, 22}
    <3>1. Stretch(toClient', DownStream, ReadDown') /\ PutDown' = GoneDown'
      BY <1>5, <1>11, <2>1
    <3>2. tls = "1.3" => GoneDown' \in {1, 2}
      BY <1>14, <2>1
    <3>3. tls = "1.3" => PutDown' <= 2
      BY <3>1, <3>2
    <3> QED
      BY <3>1, <3>3
  <2>2. CASE r.type \notin {20, 22}
    <3>1. tls = "1.3"
      BY <1>4, <1>13, <2>2
    <3>2. GoneDown' = 3
      BY <1>14, <2>2, <3>1
    <3>3. toClient' = toClient
      BY <1>1, <2>2 DEF r
    <3>4. PutDown' = PutDown
      BY <1>1, <3>3 DEF PutDown
    <3>5. PutDown' <= 2
      BY ONLY <1>3, <1>5, <1>10, <3>2, <3>4
    <3>6. Stretch(toClient', DownStream, ReadDown')
      BY <1>6, <3>3 DEF OwnInv, OwnStreams
    <3> QED
      BY <3>1, <3>2, <3>5, <3>6
  <2> QED
    BY <2>1, <2>2
<1>16. OwnTarget'
  <2>1. GoneDown' \in Nat
    BY <1>5, <1>8
  <2> QED
    BY <1>1, <1>2, <1>5, <1>6, <1>7, <2>1 DEF OwnTarget
<1>17. OwnFirst'
  <2>1. step'["down"] = GoneDown'
    BY <1>5, <1>12
  <2> QED
    BY <1>1, <1>2, <1>6, <1>7, <1>12, <1>13, <1>14, <1>15, <2>1 DEF OwnFirst
<1>18. OwnTunnel' /\ mode # 2
  BY <1>1 DEF OwnInv, OwnTunnel
<1>19. /\ Stretch(toServer', UpStream, GoneUp') /\ Stretch(forwardedUp', UpStream, 0)
       /\ Stretch(targetSent', DownStream, 0)
  BY <1>1, <1>7 DEF OwnInv, OwnStreams
<1> QED
  BY <1>1, <1>5, <1>6, <1>12, <1>15, <1>16, <1>17, <1>18, <1>19, OwnAgain

-----------------------------------------------------------------------------
(* The connection that was taken over carries data of the tunnel.          *)
LEMMA OwnTaken ==
  ASSUME OwnInv, ShadowTls!Taken
  PROVE  /\ GoneUp >= UpLen /\ PassedUp = UpLen /\ (mode = 2 => GoneUp > UpLen)
         /\ PutDown >= DownLen /\ GoneDown = DownLen
         /\ mode = 1 => tls = "1.2"
<1>1. OwnSetting /\ OwnTarget /\ mode \in {1, 2}
  BY DEF OwnInv, OwnSetting
<1>2. /\ GoneUp \in Nat /\ SentUp \in Nat /\ Len(toServer) \in Nat
      /\ SentUp = GoneUp + Len(toServer) /\ PassedUp \in Nat /\ GoneDown \in Nat
      /\ PutDown \in Nat /\ SentDown \in Nat /\ Len(fakeConn) \in Nat
      /\ SentDown = GoneDown + Len(fakeConn) /\ SentDown <= DownLen
  BY OwnRange
<1>3. UpLen \in {3, 4} /\ DownLen \in {3, 4, 6, 7, 8} /\ tls \in {"1.2", "1.3"}
  BY <1>1, OwnLengths
<1>4. GoneUp >= UpLen => PassedUp = UpLen
  <2>1. (GoneUp <= UpLen => PassedUp = GoneUp) /\ (GoneUp > UpLen => PassedUp = UpLen)
    BY <1>1 DEF OwnTarget
  <2> QED
    BY ONLY <1>2, <1>3, <2>1
<1>5. CASE mode = 2
  <2>1. copier.up = "taken"
    BY <1>5 DEF ShadowTls!Taken
  <2>2. GoneUp > UpLen
    BY <1>5, <2>1, OwnCopier
  <2>3. SentUp > UpLen /\ GoneUp >= UpLen
    BY ONLY <1>2, <1>3, <2>2
  <2>4. GoneDown = DownLen /\ PutDown >= DownLen
    BY <1>5, <2>3, OwnOpen
  <2> QED
    BY <1>4, <1>5, <2>2, <2>3, <2>4
<1>6. CASE mode = 1
  <2>1. copier.up = "done" /\ copier.down = "done" /\ OwnFirst
    BY <1>6 DEF ShadowTls!Taken, OwnInv
  <2>2. GoneUp >= UpLen
    BY <1>6, <2>1, OwnCopier
  <2>3. GoneDown <= DownLen
    BY ONLY <1>2, <1>3
  <2>4. tls = "1.2"
    <3>1. tls = "1.3" => ~(GoneDown < 2) /\ GoneDown # 2 /\ GoneDown # 3
      BY <2>1 DEF OwnFirst
    <3>2. tls = "1.3" => DownLen = 3
      BY <1>1, OwnLengths
    <3>3. tls # "1.3"
      BY ONLY <1>2, <2>3, <3>1, <3>2
    <3> QED
      BY <1>3, <3>3
  <2>5. ~(GoneDown < DownLen - 1) /\ GoneDown # DownLen - 1
    BY <2>1, <2>4 DEF OwnFirst
  <2>6. GoneDown = DownLen
    BY ONLY <1>2, <1>3, <2>3, <2>5
  <2>7. PutDown = GoneDown \/ PutDown >= DownLen
    BY <2>1, <2>4 DEF OwnFirst
  <2>8. PutDown >= DownLen
    BY ONLY <1>2, <1>3, <2>6, <2>7
  <2> QED
    BY <1>4, <1>6, <2>2, <2>4, <2>6, <2>8
<1> QED
  BY <1>1, <1>5, <1>6

LEMMA OwnTunnelReads ==
  ASSUME OwnInv, ShadowTls!TunnelRead
  PROVE  OwnInv'
<1>1. /\ ShadowTls!Taken /\ toServer # <<>> /\ tunnel' = Append(tunnel, Head(toServer))
      /\ toServer' = Tail(toServer)
      /\ UNCHANGED <<mode, tls, who, extra, flight, client, clientRead, clientSent, data,
                     copier, step, apps, forwardedUp, seen, targetSent, fakeConn, fakeOpen,
                     hashW, hashed, toClient>>
  BY DEF ShadowTls!TunnelRead, ShadowTls!setting, ShadowTls!ofClient, ShadowTls!ofTarget,
         ShadowTls!ofDown
<1>2. OwnSetting /\ OwnTarget /\ mode \in {1, 2}
  BY DEF OwnInv, OwnSetting
<1>3. GoneUp >= UpLen /\ PassedUp = UpLen /\ (mode = 2 => GoneUp > UpLen)
  BY <1>1, OwnTaken
<1>4. GoneUp \in Nat /\ UpLen \in {3, 4}
  BY <1>2, OwnRange, OwnLengths
<1>5. /\ Head(toServer) = UpStream[GoneUp + 1] /\ Head(toServer) \in OwnRecs
      /\ GoneUp' = GoneUp + 1 /\ Stretch(toServer', UpStream, GoneUp')
  BY <1>1, OwnTakesUp
<1>6. /\ OwnClient' /\ SentUp' = SentUp /\ ReadDown' = ReadDown
      /\ Stretch(clientSent', UpStream, 0) /\ Stretch(clientRead', DownStream, 0)
      /\ UpLen' = UpLen /\ EndAt' = EndAt /\ DownLen' = DownLen /\ DownStream' = DownStream
  BY <1>1, OwnClientRests
<1>7. /\ PassedUp' = PassedUp /\ GoneDown' = GoneDown /\ SentDown' = SentDown
      /\ PutDown' = PutDown
  BY <1>1 DEF PassedUp, GoneDown, SentDown, PutDown
<1>8. GoneUp + 1 \in Nat \ {0} /\ GoneUp + 1 > UpLen /\ ~(GoneUp + 1 <= UpLen)
  BY ONLY <1>3, <1>4
<1>9. Head(toServer).what = "app"
  <2>1. ~(mode = 2 /\ GoneUp + 1 = UpLen + 1)
    BY ONLY <1>3, <1>4
  <2>2. Head(toServer) = ShadowTls!Rec(23, "app")
    BY <1>2, <1>5, <1>8, <2>1, UpRecIs
  <2> QED
    BY <2>2 DEF ShadowTls!Rec
<1>10. OwnTunnel'
  <2>1. tunnel \in Seq(OwnRecs) /\ \A i \in 1..Len(tunnel) : tunnel[i].what = "app"
    BY DEF OwnInv, OwnTunnel
  <2>2. /\ tunnel' \in Seq(OwnRecs) /\ Len(tunnel') = Len(tunnel) + 1
        /\ \A i \in 1..Len(tunnel) : tunnel'[i] = tunnel[i]
        /\ tunnel'[Len(tunnel) + 1] = Head(toServer)
    BY <1>1, <1>5, <2>1, AppendProperties
  <2>3. \A i \in 1..Len(tunnel') : i \in 1..Len(tunnel) \/ i = Len(tunnel) + 1
    BY <2>1, <2>2, LenProperties
  <2> QED
    BY <1>1, <1>9, <2>1, <2>2, <2>3 DEF OwnInv, OwnTunnel
<1>11. OwnTarget'
  BY <1>1, <1>2, <1>3, <1>5, <1>6, <1>7, <1>8 DEF OwnTarget
<1>12. mode = 2 => OwnSecond'
  <2>1. SUFFICES ASSUME mode = 2 PROVE OwnSecond'
    OBVIOUS
  <2>2. OwnSecond
    BY <2>1 DEF OwnInv
  <2>3. GoneUp > UpLen
    BY <1>3, <2>1
  <2> QED
    BY <1>1, <1>5, <1>6, <1>7, <1>8, <2>2, <2>3 DEF OwnSecond
<1>13. mode = 1 => OwnFirst'
  <2>1. SUFFICES ASSUME mode = 1 PROVE OwnFirst'
    OBVIOUS
  <2>2. OwnFirst
    BY <2>1 DEF OwnInv
  <2>3. ~(GoneUp + 1 < UpLen - 1) /\ GoneUp + 1 # UpLen - 1
    BY ONLY <1>4, <1>8
  <2> QED
    BY <1>1, <1>3, <1>5, <1>6, <1>7, <1>8, <2>2, <2>3 DEF OwnFirst
<1>14. DOMAIN copier' = {"up", "down"} /\ DOMAIN step' = {"up", "down"}
  BY <1>1, <1>2 DEF OwnSetting
<1>15. /\ Stretch(forwardedUp', UpStream, 0) /\ Stretch(targetSent', DownStream, 0)
       /\ Stretch(fakeConn', DownStream, GoneDown') /\ Stretch(toClient', DownStream, ReadDown')
  BY <1>1, <1>6, <1>7 DEF OwnInv, OwnStreams
<1> QED
  BY <1>1, <1>5, <1>6, <1>10, <1>11, <1>12, <1>13, <1>14, <1>15, OwnAgain

LEMMA OwnTunnelWrites ==
  ASSUME OwnInv, ShadowTls!TunnelWrite
  PROVE  OwnInv'
<1>1. /\ ShadowTls!Taken /\ toClient' = Append(toClient, ShadowTls!Rec(23, "reply"))
      /\ UNCHANGED <<mode, tls, who, extra, flight, client, clientRead, clientSent, data,
                     toServer, copier, step, apps, forwardedUp, tunnel, seen, targetSent,
                     fakeConn, fakeOpen, hashW, hashed>>
  BY DEF ShadowTls!TunnelWrite, ShadowTls!setting, ShadowTls!ofClient, ShadowTls!ofTarget,
         ShadowTls!ofDown, ShadowTls!ofUp
<1>2. OwnSetting /\ OwnTarget
  BY DEF OwnInv
<1>3. /\ GoneUp >= UpLen /\ (mode = 2 => GoneUp > UpLen)
      /\ PutDown >= DownLen /\ GoneDown = DownLen /\ (mode = 1 => tls = "1.2")
  BY <1>1, OwnTaken
<1>4. /\ PutDown \in Nat /\ GoneDown \in Nat /\ GoneUp \in Nat /\ SentUp \in Nat
      /\ Len(toServer) \in Nat /\ SentUp = GoneUp + Len(toServer)
  BY OwnRange
<1>5. UpLen \in {3, 4} /\ DownLen \in {3, 4, 6, 7, 8}
  BY <1>2, OwnLengths
<1>6. /\ OwnClient' /\ SentUp' = SentUp /\ ReadDown' = ReadDown
      /\ Stretch(clientSent', UpStream, 0) /\ Stretch(clientRead', DownStream, 0)
      /\ UpLen' = UpLen /\ EndAt' = EndAt /\ DownLen' = DownLen /\ DownStream' = DownStream
  BY <1>1, OwnClientRests
<1>7. /\ GoneUp' = GoneUp /\ PassedUp' = PassedUp /\ GoneDown' = GoneDown
      /\ SentDown' = SentDown
  BY <1>1 DEF GoneUp, PassedUp, GoneDown, SentDown
<1>8. PutDown + 1 \in Nat \ {0} /\ PutDown + 1 > DownLen
  BY ONLY <1>3, <1>4, <1>5
<1>9. Stretch(toClient', DownStream, ReadDown') /\ PutDown' = PutDown + 1
  <2>1. /\ DownStream[PutDown + 1] = ShadowTls!Rec(23, "reply")
        /\ DownStream[PutDown + 1] \in OwnRecs
    BY <1>2, <1>8, DownRecIs
  <2> QED
    BY <1>1, <2>1, OwnPutsDown
<1>10. PutDown' >= DownLen
  BY ONLY <1>3, <1>4, <1>5, <1>9
<1>11. OwnTarget'
  BY <1>1, <1>2, <1>6, <1>7 DEF OwnTarget
<1>12. mode = 2 => OwnSecond'
  <2>1. SUFFICES ASSUME mode = 2 PROVE OwnSecond'
    OBVIOUS
  <2>2. OwnSecond
    BY <2>1 DEF OwnInv
  <2>3. GoneUp > UpLen
    BY <1>3, <2>1
  <2>4. SentUp > UpLen /\ ~(SentUp <= UpLen)
    BY ONLY <1>4, <1>5, <2>3
  <2>5. hashW.phase = 1
    BY <2>1, <2>4, OwnOpen
  <2> QED
    BY <1>1, <1>3, <1>6, <1>7, <1>10, <2>2, <2>4, <2>5 DEF OwnSecond
<1>13. mode = 1 => OwnFirst'
  <2>1. SUFFICES ASSUME mode = 1 PROVE OwnFirst'
    OBVIOUS
  <2>2. OwnFirst /\ tls = "1.2" /\ tls # "1.3"
    BY <1>3, <2>1 DEF OwnInv
  <2> QED
    BY <1>1, <1>3, <1>6, <1>7, <1>10, <2>2 DEF OwnFirst
<1>14. OwnTunnel' /\ DOMAIN copier' = {"up", "down"} /\ DOMAIN step' = {"up", "down"}
  BY <1>1 DEF OwnInv, OwnTunnel, OwnSetting
<1>15. /\ Stretch(toServer', UpStream, GoneUp') /\ Stretch(forwardedUp', UpStream, 0)
       /\ Stretch(targetSent', DownStream, 0) /\ Stretch(fakeConn', DownStream, GoneDown')
  BY <1>1, <1>7 DEF OwnInv, OwnStreams
<1> QED
  BY <1>1, <1>6, <1>9, <1>11, <1>12, <1>13, <1>14, <1>15, OwnAgain

-----------------------------------------------------------------------------
LEMMA OwnStart ==
  ASSUME ShadowTls!Init, who = "ours"
  PROVE  OwnInv
<1>1. /\ mode \in {1, 2} /\ tls \in {"1.2", "1.3"}
      /\ extra \in (IF tls = "1.2" THEN BOOLEAN ELSE {FALSE})
      /\ flight \in (IF tls = "1.2" THEN {1, 5} ELSE {1})
      /\ client = "start" /\ clientRead = <<>> /\ clientSent = <<>> /\ data = <<>>
      /\ toServer = <<>>
      /\ copier = [up |-> "copy", down |-> IF mode = 1 THEN "copy" ELSE "none"]
      /\ step = [up |-> 0, down |-> 0] /\ apps = 0 /\ forwardedUp = <<>> /\ seen = 0
      /\ targetSent = <<>> /\ fakeConn = <<>> /\ fakeOpen = TRUE
      /\ hashW = [phase |-> 1, rec |-> ShadowTls!Rec(0, "")] /\ hashed = 0
      /\ toClient = <<>> /\ tunnel = <<>>
  BY DEF ShadowTls!Init
<1>2. OwnSetting
  <2>1. CASE tls = "1.2"
    BY <1>1, <2>1 DEF OwnSetting
  <2>2. CASE tls = "1.3"
    BY <1>1, <2>2 DEF OwnSetting
  <2> QED
    BY <1>1, <2>1, <2>2
<1>3. /\ UpLen \in {3, 4} /\ EndAt \in {1, 3, 5} /\ DownLen \in {3, 4, 6, 7, 8}
      /\ tls \in {"1.2", "1.3"}
  BY <1>2, OwnLengths
<1>4. /\ SentUp = 0 /\ GoneUp = 0 /\ PassedUp = 0 /\ SentDown = 0 /\ GoneDown = 0
      /\ ReadDown = 0 /\ PutDown = 0
  <2>1. /\ Len(clientSent) = 0 /\ Len(toServer) = 0 /\ Len(forwardedUp) = 0
        /\ Len(targetSent) = 0 /\ Len(fakeConn) = 0 /\ Len(clientRead) = 0
        /\ Len(toClient) = 0
    BY <1>1, StretchNone
  <2>2. 0 - 0 = 0 /\ 0 + 0 = 0
    OBVIOUS
  <2> QED
    BY ONLY <2>1, <2>2 DEF SentUp, GoneUp, PassedUp, SentDown, GoneDown, ReadDown, PutDown
<1>5. OwnStreams
  BY <1>1, StretchNone DEF OwnStreams
<1>6. OwnTunnel
  <2>1. <<>> \in Seq(OwnRecs) /\ \A i \in 1..Len(<<>>) : FALSE
    OBVIOUS
  <2> QED
    BY ONLY <1>1, <2>1 DEF OwnTunnel
<1>7. OwnTarget
  <2>1. 0 \in Nat /\ 0 <= 0 /\ ~(0 > UpLen) /\ ~(0 > 0) /\ 0 # UpLen
    BY ONLY <1>3
  <2>2. seen = 0
    BY <1>1
  <2> QED
    BY ONLY <1>4, <2>1, <2>2 DEF OwnTarget
<1>8. OwnClient
  BY <1>1, <1>4 DEF OwnClient
<1>9. mode = 2 => OwnSecond
  <2>1. hashW \in [phase : {1, 2, 3}, rec : OwnRecs] /\ hashW.phase = 1
    <3>1. ShadowTls!Rec(0, "") \in OwnRecs
      BY OwnRecsAre DEF OwnNames
    <3> QED
      BY <1>1, <3>1
  <2>2. copier.up = "copy" /\ step.up = 0 /\ apps = 0 /\ hashed = 0 /\ fakeOpen = TRUE
    BY <1>1
  <2>3. ~(0 > UpLen) /\ 0 <= 0
    BY ONLY <1>3
  <2> QED
    BY ONLY <1>4, <2>1, <2>2, <2>3 DEF OwnSecond
<1>10. mode = 1 => OwnFirst
  <2>1. SUFFICES ASSUME mode = 1 PROVE OwnFirst
    OBVIOUS
  <2>2. hashW.phase = 1 /\ step.up = 0 /\ step.down = 0 /\ copier.up = "copy"
        /\ copier.down = "copy"
    BY <1>1, <2>1
  <2>3. /\ 0 # UpLen - 1 /\ ~(0 >= UpLen) /\ 0 # DownLen - 1 /\ 0 # DownLen
    BY <1>3
  <2> QED
    BY <1>4, <2>2, <2>3 DEF OwnFirst
<1> QED
  BY <1>1, <1>2, <1>5, <1>6, <1>7, <1>8, <1>9, <1>10 DEF OwnInv

LEMMA OwnStep ==
  ASSUME OwnInv, ShadowTls!Next
  PROVE  OwnInv' \/ ShadowTls!Has(targetSent', "ticket")
<1>1. \/ \/ ShadowTls!ClientHello \/ ShadowTls!ClientSum \/ ShadowTls!ClientData
         \/ ShadowTls!ClientReadData
      \/ \E n \in 1..Len(toClient) : ShadowTls!ClientReads(n)
      \/ ShadowTls!TargetAnswers \/ ShadowTls!CopyDown \/ ShadowTls!HashWrite
      \/ ShadowTls!CopyUp \/ ShadowTls!CloseFake
      \/ ShadowTls!HandshakeUp \/ ShadowTls!HandshakeDown
      \/ ShadowTls!TunnelRead \/ ShadowTls!TunnelWrite
      \/ ShadowTls!TargetTicket
  BY OwnNeverFallsBack DEF ShadowTls!Next
<1>2. CASE \E n \in 1..Len(toClient) : ShadowTls!ClientReads(n)
  BY <1>2, OwnReads
<1>3. CASE \/ ShadowTls!ClientHello \/ ShadowTls!ClientSum \/ ShadowTls!ClientData
           \/ ShadowTls!ClientReadData
  BY <1>3, OwnHello, OwnSum, OwnData, OwnReadsData
<1>4. CASE \/ ShadowTls!TargetAnswers \/ ShadowTls!CopyDown \/ ShadowTls!HashWrite
           \/ ShadowTls!CopyUp \/ ShadowTls!CloseFake
  BY <1>4, OwnAnswers, OwnCopiesDown, OwnHashes, OwnCopiesUp, OwnCloses
<1>5. CASE \/ ShadowTls!HandshakeUp \/ ShadowTls!HandshakeDown
           \/ ShadowTls!TunnelRead \/ ShadowTls!TunnelWrite
  BY <1>5, OwnHandshakesUp, OwnHandshakesDown, OwnTunnelReads, OwnTunnelWrites
<1>6. CASE ShadowTls!TargetTicket
  BY <1>6, OwnTicket
<1> QED
  BY <1>1, <1>2, <1>3, <1>4, <1>5, <1>6

(* Only the handshake has been passed on, and version 1 has not given up   *)
(* on a handshake of less than eight records.                              *)
LEMMA OwnKeeps ==
  ASSUME OwnInv
  PROVE  /\ ShadowTls!OnlyTunnel
         /\ mode = 2 => ShadowTls!Recognises
         /\ mode = 1 /\ tls = "1.2" /\ ~(extra /\ flight = 5) =>
              "failed" \notin {copier.up, copier.down}
<1>1. OwnSetting
  BY DEF OwnInv
<1>2. UpLen \in {3, 4} /\ DownLen \in {3, 4, 6, 7, 8} /\ (DownLen = 8 => extra /\ flight = 5)
  BY <1>1, OwnLengths
<1>3. PassedUp \in Nat /\ PassedUp <= UpLen /\ GoneDown \in Nat /\ GoneDown <= DownLen
  <2>1. /\ PassedUp \in Nat /\ PassedUp <= UpLen /\ GoneDown \in Nat /\ SentDown \in Nat
        /\ Len(fakeConn) \in Nat /\ SentDown = GoneDown + Len(fakeConn) /\ SentDown <= DownLen
    BY OwnRange
  <2> QED
    BY ONLY <1>2, <2>1
<1>4. ShadowTls!OnlyTunnel
  BY DEF OwnInv, OwnTunnel, ShadowTls!OnlyTunnel
<1>5. ShadowTls!Recognises
  <2>1. ASSUME NEW i \in 1..Len(forwardedUp)
        PROVE  forwardedUp[i].what \in {"hello", "ccs", "fin", "key"}
    <3>1. i \in Nat \ {0} /\ i <= UpLen /\ 0 + i = i
      <4>1. i \in 1..PassedUp
        BY <2>1 DEF PassedUp
      <4> QED
        BY ONLY <1>2, <1>3, <4>1
    <3>2. forwardedUp[i] = UpStream[0 + i]
      BY DEF OwnInv, OwnStreams, Stretch
    <3> QED
      BY <1>1, <3>1, <3>2, UpRecIs
  <2> QED
    BY <2>1 DEF ShadowTls!Recognises, ShadowTls!Has
<1>6. ASSUME mode = 1, tls = "1.2", ~(extra /\ flight = 5)
      PROVE  "failed" \notin {copier.up, copier.down}
  <2>1. copier.up # "failed"
    BY <1>6, OwnCopier
  <2>2. DownLen # 8
    BY <1>2, <1>6
  <2>3. GoneDown < DownLen - 1 \/ GoneDown = DownLen - 1 \/ GoneDown = DownLen
    BY ONLY <1>2, <1>3
  <2>4. copier.down # "failed"
    BY <1>6, <2>2, <2>3 DEF OwnInv, OwnFirst
  <2> QED
    BY <2>1, <2>4
<1> QED
  BY <1>4, <1>5, <1>6

(* What the target has sent stays sent.                                    *)
LEMMA TargetOnlyAdds ==
  ASSUME flight \in {1, 5}, targetSent \in Seq(OtherRecs), ShadowTls!Next
  PROVE  /\ flight' = flight /\ targetSent' \in Seq(OtherRecs)
         /\ ShadowTls!Has(targetSent, "ticket") => ShadowTls!Has(targetSent', "ticket")
<1>1. /\ ShadowTls!TargetFlight \in Seq(OtherRecs) /\ ShadowTls!TargetFinish \in Seq(OtherRecs)
      /\ ShadowTls!AppData("response") \in Seq(OtherRecs)
      /\ ShadowTls!AppData("ticket") \in Seq(OtherRecs) /\ <<>> \in Seq(OtherRecs)
  <2>1. "response" \in OtherNames /\ "ticket" \in OtherNames
    BY DEF OtherNames
  <2> QED
    BY <2>1, TargetFlights, ClientFlights
<1>2. flight' = flight
  BY DEF ShadowTls!Next, ShadowTls!ClientHello, ShadowTls!ClientSum, ShadowTls!ClientData,
         ShadowTls!ClientReadData, ShadowTls!ClientReads, ShadowTls!TargetAnswers,
         ShadowTls!TargetTicket, ShadowTls!CopyDown, ShadowTls!HashWrite, ShadowTls!CopyUp,
         ShadowTls!CloseFake, ShadowTls!Fallback, ShadowTls!HandshakeUp,
         ShadowTls!HandshakeDown, ShadowTls!TunnelRead, ShadowTls!TunnelWrite,
         ShadowTls!setting
<1>3. \/ targetSent' = targetSent
      \/ \E recs \in Seq(OtherRecs) : targetSent' = targetSent \o recs
  <2>1. CASE ShadowTls!TargetAnswers
    <3> DEFINE what == forwardedUp[seen + 1].what
               recs == CASE what = "hello" -> ShadowTls!TargetFlight
                         [] what = "fin" -> ShadowTls!TargetFinish
                         [] what = "app" -> ShadowTls!AppData("response")
                         [] OTHER -> <<>>
    <3>1. targetSent' = targetSent \o recs
      BY <2>1 DEF ShadowTls!TargetAnswers, ShadowTls!TargetWrites
    <3>2. recs \in {ShadowTls!TargetFlight, ShadowTls!TargetFinish,
                    ShadowTls!AppData("response"), <<>>}
      OBVIOUS
    <3> HIDE DEF recs
    <3> QED
      BY <1>1, <3>1, <3>2
  <2>2. CASE ShadowTls!TargetTicket
    BY <1>1, <2>2 DEF ShadowTls!TargetTicket, ShadowTls!TargetWrites
  <2>3. CASE ~ShadowTls!TargetAnswers /\ ~ShadowTls!TargetTicket
    BY <2>3 DEF ShadowTls!Next, ShadowTls!ClientHello, ShadowTls!ClientSum,
         ShadowTls!ClientData, ShadowTls!ClientReadData, ShadowTls!ClientReads,
         ShadowTls!CopyDown, ShadowTls!HashWrite, ShadowTls!CopyUp,
         ShadowTls!CloseFake, ShadowTls!Fallback, ShadowTls!HandshakeUp,
         ShadowTls!HandshakeDown, ShadowTls!TunnelRead, ShadowTls!TunnelWrite,
         ShadowTls!ofTarget
  <2> QED
    BY <2>1, <2>2, <2>3
<1>4. CASE targetSent' = targetSent
  BY <1>2, <1>4 DEF ShadowTls!Has
<1>5. CASE \E recs \in Seq(OtherRecs) : targetSent' = targetSent \o recs
  <2>1. PICK recs \in Seq(OtherRecs) : targetSent' = targetSent \o recs
    BY <1>5
  <2>2. /\ targetSent' \in Seq(OtherRecs) /\ Len(targetSent') = Len(targetSent) + Len(recs)
        /\ \A i \in 1..Len(targetSent) + Len(recs) :
             targetSent'[i] = IF i <= Len(targetSent) THEN targetSent[i]
                              ELSE recs[i - Len(targetSent)]
    BY <2>1, ConcatProperties
  <2>3. Len(targetSent) \in Nat /\ Len(recs) \in Nat
    BY LenProperties
  <2>4. \A i \in 1..Len(targetSent) :
          i \in 1..Len(targetSent') /\ targetSent'[i] = targetSent[i]
    BY <2>2, <2>3
  <2> QED
    BY <1>2, <2>2, <2>4 DEF ShadowTls!Has
<1> QED
  BY <1>3, <1>4, <1>5

-----------------------------------------------------------------------------
(* An ordinary client without a certificate has four records at most       *)
(* before its data, so the copier of version 2 never counts to nine before *)
(* the fourth record of data.                                              *)
OtherCounts ==
  /\ extra \in BOOLEAN /\ DOMAIN step = {"up", "down"}
  /\ client = "start" => clientSent = <<>>
  /\ client = "wait" => Len(clientSent) = 1
  /\ ~extra => /\ \A i \in 1..Len(clientSent) : i > 4 => clientSent[i].type = 23
               /\ copier.up # "failed"
               /\ copier.up = "copy" => /\ step.up = Len(forwardedUp) /\ apps \in 0..3
                                        /\ step.up <= apps + 4

LEMMA OtherStart ==
  ASSUME ShadowTls!Init, who = "other"
  PROVE  OtherCounts
<1>1. /\ extra \in (IF tls = "1.2" THEN BOOLEAN ELSE {FALSE})
      /\ clientSent = <<>> /\ client = "start" /\ forwardedUp = <<>> /\ apps = 0
      /\ copier = [up |-> "copy", down |-> IF mode = 1 THEN "copy" ELSE "none"]
      /\ step = [up |-> 0, down |-> 0]
  BY DEF ShadowTls!Init
<1>2. extra \in BOOLEAN
  <2>1. CASE tls = "1.2"
    BY <1>1, <2>1
  <2>2. CASE tls # "1.2"
    BY <1>1, <2>2
  <2> QED
    BY <2>1, <2>2
<1>3. /\ copier.up = "copy" /\ step.up = 0 /\ DOMAIN step = {"up", "down"}
      /\ Len(clientSent) = 0 /\ Len(forwardedUp) = 0
  BY <1>1
<1>4. 0 \in 0..3 /\ 0 <= 0 + 4 /\ \A i \in 1..0 : FALSE
  OBVIOUS
<1> QED
  BY <1>1, <1>2, <1>3, <1>4 DEF OtherCounts

LEMMA AtMostFour ==
  ASSUME NEW n \in {1, 3, 4}
  PROVE  \A i \in 1..n : ~(i > 4)
OBVIOUS

(* The client writes nothing that the copier could count too far.          *)
LEMMA OtherClientCounts ==
  ASSUME PassingInv, OtherCounts,
         \/ ShadowTls!ClientHello \/ ShadowTls!ClientSum \/ ShadowTls!ClientData
         \/ ShadowTls!ClientReadData
         \/ \E n \in 1..Len(toClient) : ShadowTls!ClientReads(n)
  PROVE  OtherCounts'
<1>1. /\ UNCHANGED <<mode, tls, who, extra, flight, copier, step, apps, forwardedUp>>
  BY DEF ShadowTls!ClientHello, ShadowTls!ClientSum, ShadowTls!ClientData,
         ShadowTls!ClientReadData, ShadowTls!ClientReads, ShadowTls!setting, ShadowTls!ofUp
<1>2. who = "other" /\ clientSent \in Seq(OtherRecs)
  BY DEF PassingInv, PassingTypes
<1>3. ~ShadowTls!ClientSum
  BY <1>2 DEF ShadowTls!ClientSum
<1>4. ASSUME /\ client' = "start" => clientSent' = <<>>
             /\ client' = "wait" => Len(clientSent') = 1
             /\ ~extra => \A i \in 1..Len(clientSent') : i > 4 => clientSent'[i].type = 23
      PROVE  OtherCounts'
  BY <1>1, <1>4 DEF OtherCounts
<1>5. ASSUME clientSent' = clientSent,
             client' = client \/ client' \notin {"start", "wait"}
      PROVE  OtherCounts'
  BY <1>4, <1>5 DEF OtherCounts
<1>6. CASE ShadowTls!ClientHello
  <2>1. client' = "wait" /\ client = "start" /\ clientSent' = clientSent \o ShadowTls!Hello
    BY <1>6 DEF ShadowTls!ClientHello, ShadowTls!ClientWrites
  <2>2. clientSent = <<>>
    BY <2>1 DEF OtherCounts
  <2> DEFINE h == ShadowTls!Hello
  <2>3. h \in Seq(OtherRecs) /\ Len(h) = 1
    BY ClientFlights DEF ShadowTls!Hello
  <2> HIDE DEF h
  <2>4. <<>> \o h = h
    BY <2>3, ConcatEmptySeq
  <2>5. clientSent' = h
    BY <2>1, <2>2, <2>4 DEF h
  <2>6. Len(clientSent') = 1 /\ \A i \in 1..Len(clientSent') : ~(i > 4)
    BY <2>3, <2>5, AtMostFour
  <2> QED
    BY <1>4, <2>1, <2>6
<1>7. CASE ShadowTls!ClientData
  <2>1. client = "ready" /\ client' = client
        /\ clientSent' = clientSent \o <<ShadowTls!Rec(23, "app")>>
    BY <1>2, <1>7 DEF ShadowTls!ClientData, ShadowTls!ClientWrites, ShadowTls!AppData
  <2> DEFINE r == ShadowTls!Rec(23, "app")
  <2>2. r \in OtherRecs /\ r.type = 23
    BY RecsAre DEF OtherNames, ShadowTls!Rec
  <2>3. clientSent' = clientSent \o <<r>>
    BY <2>1
  <2> HIDE DEF r
  <2>4. clientSent' = Append(clientSent, r)
    BY <1>2, <2>2, <2>3, AppendIsConcat
  <2>5. /\ Len(clientSent') = Len(clientSent) + 1
        /\ \A i \in 1..Len(clientSent) : clientSent'[i] = clientSent[i]
        /\ clientSent'[Len(clientSent) + 1] = r
    BY <1>2, <2>2, <2>4, AppendProperties
  <2>6. \A i \in 1..Len(clientSent') : i \in 1..Len(clientSent) \/ i = Len(clientSent) + 1
    BY <1>2, <2>5, LenProperties
  <2>7. ~extra => \A i \in 1..Len(clientSent) : i > 4 => clientSent[i].type = 23
    BY DEF OtherCounts
  <2>8. ~extra => \A i \in 1..Len(clientSent') : i > 4 => clientSent'[i].type = 23
    BY <2>2, <2>5, <2>6, <2>7
  <2> QED
    BY <1>4, <2>1, <2>8
<1>8. CASE ShadowTls!ClientReadData
  <2>1. clientSent' = clientSent /\ client' = client
    BY <1>8 DEF ShadowTls!ClientReadData
  <2> QED
    BY <1>5, <2>1
<1>9. CASE \E n \in 1..Len(toClient) : ShadowTls!ClientReads(n)
  <2>1. PICK n \in 1..Len(toClient) : ShadowTls!ClientReads(n)
    BY <1>9
  <2> DEFINE all == clientRead \o SubSeq(toClient, 1, n)
             ends == ShadowTls!Has(all, IF client = "wait" THEN "end" ELSE "fin")
  <2>2. /\ client' = (IF ~ends THEN client
                      ELSE IF client = "wait" /\ tls = "1.2" THEN "finish" ELSE "ready")
        /\ (ends /\ client = "wait" => clientSent' = clientSent \o ShadowTls!ClientFlight)
        /\ (~(ends /\ client = "wait") => clientSent' = clientSent)
    BY <2>1 DEF ShadowTls!ClientReads, ShadowTls!ClientWrites
  <2> HIDE DEF ends
  <2>3. client' = client \/ client' \notin {"start", "wait"}
    BY <2>2
  <2>4. CASE ~(ends /\ client = "wait")
    BY <1>5, <2>2, <2>3, <2>4
  <2>5. CASE ends /\ client = "wait"
    <3>1. client' \notin {"start", "wait"} /\ Len(clientSent) = 1
      BY <2>2, <2>5 DEF OtherCounts
    <3>2. SUFFICES ASSUME ~extra
                   PROVE  \A i \in 1..Len(clientSent') : i > 4 => clientSent'[i].type = 23
      BY <1>4, <3>1
    <3>3. Len(ShadowTls!ClientFlight) \in {2, 3}
      <4> DEFINE ra == ShadowTls!Rec(22, "key")
                 rb == ShadowTls!Rec(20, "ccs")
                 rc == ShadowTls!Rec(22, "fin")
                 rd == ShadowTls!Rec(23, "fin")
      <4>1. CASE tls = "1.3"
        <5>1. ShadowTls!ClientFlight = <<rb, rd>>
          BY <4>1 DEF ShadowTls!ClientFlight
        <5> HIDE DEF rb, rd
        <5> QED
          BY <5>1
      <4>2. CASE tls # "1.3"
        <5>1. ShadowTls!ClientFlight = <<>> \o <<ra, rb, rc>>
          BY <3>2, <4>2 DEF ShadowTls!ClientFlight
        <5>2. ra \in OtherRecs /\ rb \in OtherRecs /\ rc \in OtherRecs
          BY RecsAre DEF OtherNames
        <5> HIDE DEF ra, rb, rc
        <5> DEFINE t == <<ra, rb, rc>>
        <5>3. t \in Seq(OtherRecs) /\ Len(t) = 3 /\ ShadowTls!ClientFlight = <<>> \o t
          BY <5>1, <5>2
        <5> HIDE DEF t
        <5>4. ShadowTls!ClientFlight = t
          BY <5>3, ConcatEmptySeq
        <5> QED
          BY <5>3, <5>4
      <4> QED
        BY <4>1, <4>2
    <3>4. Len(clientSent') = 1 + Len(ShadowTls!ClientFlight)
      <4>1. ShadowTls!ClientFlight \in Seq(OtherRecs)
        BY ClientFlights
      <4>2. Len(clientSent \o ShadowTls!ClientFlight)
              = Len(clientSent) + Len(ShadowTls!ClientFlight)
        BY <1>2, <4>1, ConcatProperties
      <4> QED
        BY <2>2, <2>5, <3>1, <4>2
    <3>5. Len(clientSent') \in {1, 3, 4}
      <4> DEFINE k == Len(ShadowTls!ClientFlight)
                 z == Len(clientSent')
      <4>1. k \in {2, 3} /\ z = 1 + k
        BY <3>3, <3>4
      <4> HIDE DEF k, z
      <4>2. z \in {1, 3, 4}
        BY ONLY <4>1
      <4> QED
        BY <4>2 DEF z
    <3>6. \A i \in 1..Len(clientSent') : ~(i > 4)
      BY <3>5, AtMostFour
    <3> QED
      BY <3>6
  <2> QED
    BY <2>4, <2>5
<1> QED
  BY <1>3, <1>6, <1>7, <1>8, <1>9

LEMMA OtherCopierCounts ==
  ASSUME PassingInv, OtherCounts, ShadowTls!CopyUp
  PROVE  OtherCounts'
<1> DEFINE r == Head(toServer)
           count == IF r.type = 23 THEN apps + 1 ELSE apps
<1>1. /\ copier.up \in {"copy", "fallback", "failed"} /\ DOMAIN copier = {"up", "down"}
      /\ forwardedUp \in Seq(OtherRecs) /\ toServer \in Seq(OtherRecs)
      /\ clientSent \in Seq(OtherRecs) /\ forwardedUp \o toServer = clientSent
  BY DEF PassingInv, PassingTypes
<1>2. copier.up = "copy" /\ toServer # <<>>
      /\ UNCHANGED <<mode, tls, who, extra, flight, client, clientSent>>
  BY DEF ShadowTls!CopyUp, ShadowTls!setting, ShadowTls!ofClient
<1>3. r \in OtherRecs /\ r = toServer[1] /\ Len(toServer) \in Nat /\ Len(toServer) >= 1
  <2>1. Len(toServer) \in Nat /\ Len(toServer) >= 1
    BY <1>1, <1>2, EmptySeq, LenProperties
  <2> QED
    BY <1>1, <1>2, <2>1, FirstRec
<1>4. ~ShadowTls!Recognised(r)
  <2>1. r.what \in OtherNames
    BY <1>3 DEF OtherRecs
  <2>2. r.what # "sum"
    BY <2>1 DEF OtherNames
  <2> QED
    BY <2>2 DEF ShadowTls!Recognised
<1>5. /\ forwardedUp' = Append(forwardedUp, r) /\ apps' = count
      /\ step' = [step EXCEPT !.up = step.up + 1]
      /\ copier' = [copier EXCEPT !.up = IF count > 3 THEN "fallback"
                                         ELSE IF step.up + 1 > 8 THEN "failed" ELSE copier.up]
  BY <1>4 DEF ShadowTls!CopyUp
<1>6. DOMAIN step = {"up", "down"} /\ extra \in BOOLEAN
  BY DEF OtherCounts
<1>7. DOMAIN step' = {"up", "down"} /\ step'.up = step.up + 1
  BY <1>5, <1>6
<1>8. ASSUME ~extra
      PROVE  /\ copier'.up # "failed"
             /\ copier'.up = "copy" => /\ step'.up = Len(forwardedUp') /\ apps' \in 0..3
                                       /\ step'.up <= apps' + 4
  <2>1. step.up = Len(forwardedUp) /\ apps \in 0..3 /\ step.up <= apps + 4
    BY <1>2, <1>8 DEF OtherCounts
  <2>2. Len(forwardedUp) \in Nat /\ Len(forwardedUp') = Len(forwardedUp) + 1
    BY <1>1, <1>3, <1>5, AppendProperties, LenProperties
  <2>3. clientSent[Len(forwardedUp) + 1] = r /\ Len(forwardedUp) + 1 \in 1..Len(clientSent)
    <3>1. /\ Len(clientSent) = Len(forwardedUp) + Len(toServer)
          /\ \A i \in 1..Len(forwardedUp) + Len(toServer) :
               clientSent[i] = IF i <= Len(forwardedUp) THEN forwardedUp[i]
                               ELSE toServer[i - Len(forwardedUp)]
      BY <1>1, ConcatProperties
    <3>2. /\ Len(forwardedUp) + 1 \in 1..Len(forwardedUp) + Len(toServer)
          /\ ~(Len(forwardedUp) + 1 <= Len(forwardedUp))
          /\ (Len(forwardedUp) + 1) - Len(forwardedUp) = 1
      BY ONLY <1>3, <2>2
    <3> QED
      BY <1>3, <3>1, <3>2
  <2>4. Len(forwardedUp) + 1 > 4 => r.type = 23
    BY <1>8, <2>3 DEF OtherCounts
  <2>5. count \in {apps, apps + 1} /\ (Len(forwardedUp) + 1 > 4 => count = apps + 1)
    BY <2>4
  <2> HIDE DEF count
  <2>6. step.up + 1 <= count + 4
    BY ONLY <2>1, <2>2, <2>5
  <2>7. ~(count > 3) => ~(step.up + 1 > 8) /\ count \in 0..3
    BY ONLY <2>1, <2>2, <2>5, <2>6
  <2>8. copier'.up = (IF count > 3 THEN "fallback"
                      ELSE IF step.up + 1 > 8 THEN "failed" ELSE copier.up)
    BY <1>1, <1>5
  <2>9. CASE count > 3
    BY <2>8, <2>9
  <2>10. CASE ~(count > 3)
    BY <1>2, <1>5, <1>7, <2>1, <2>2, <2>6, <2>7, <2>8, <2>10
  <2> QED
    BY <2>9, <2>10
<1> QED
  BY <1>2, <1>6, <1>7, <1>8 DEF OtherCounts

LEMMA OtherStep ==
  ASSUME PassingInv, OtherCounts, ShadowTls!Next
  PROVE  OtherCounts'
<1>1. /\ mode = 2 /\ copier.up \in {"copy", "fallback", "failed"}
  BY DEF PassingInv, PassingTypes
<1>2. ~ShadowTls!Taken
  BY <1>1 DEF ShadowTls!Taken
<1>3. /\ ~ShadowTls!CloseFake /\ ~ShadowTls!HandshakeUp /\ ~ShadowTls!HandshakeDown
      /\ ~ShadowTls!TunnelRead /\ ~ShadowTls!TunnelWrite
  BY <1>1, <1>2 DEF ShadowTls!CloseFake, ShadowTls!HandshakeUp, ShadowTls!HandshakeDown,
                    ShadowTls!TunnelRead, ShadowTls!TunnelWrite, ShadowTls!Passes
<1>4. CASE \/ ShadowTls!TargetAnswers \/ ShadowTls!TargetTicket \/ ShadowTls!CopyDown
           \/ ShadowTls!HashWrite
  <2>1. UNCHANGED <<extra, client, clientSent, copier, step, apps, forwardedUp>>
    BY <1>4 DEF ShadowTls!TargetAnswers, ShadowTls!TargetTicket, ShadowTls!CopyDown,
                ShadowTls!HashWrite, ShadowTls!setting, ShadowTls!ofClient, ShadowTls!ofUp
  <2> QED
    BY <2>1 DEF OtherCounts
<1>5. CASE ShadowTls!Fallback
  <2>1. UNCHANGED <<extra, client, clientSent, copier, step, apps>> /\ copier.up = "fallback"
    BY <1>5 DEF ShadowTls!Fallback, ShadowTls!setting, ShadowTls!ofClient
  <2> QED
    BY <2>1 DEF OtherCounts
<1>6. \/ \/ ShadowTls!ClientHello \/ ShadowTls!ClientSum \/ ShadowTls!ClientData
         \/ ShadowTls!ClientReadData
         \/ \E n \in 1..Len(toClient) : ShadowTls!ClientReads(n)
      \/ \/ ShadowTls!TargetAnswers \/ ShadowTls!TargetTicket \/ ShadowTls!CopyDown
         \/ ShadowTls!HashWrite
      \/ ShadowTls!CopyUp \/ ShadowTls!Fallback
  BY <1>3 DEF ShadowTls!Next
<1> QED
  BY <1>4, <1>5, <1>6, OtherClientCounts, OtherCopierCounts

-----------------------------------------------------------------------------
(* Together, in every behaviour of the whole.                              *)
ShadowInv ==
  /\ who \in {"ours", "other"}
  /\ who = "ours" =>
       /\ flight \in {1, 5} /\ targetSent \in Seq(OtherRecs)
       /\ OwnInv \/ ShadowTls!Has(targetSent, "ticket")
  /\ who = "other" => PassingInv /\ OtherCounts

LEMMA ShadowStart ==
  ASSUME ShadowTls!Init
  PROVE  ShadowInv
<1>1. who \in {"ours", "other"} /\ targetSent = <<>>
  BY DEF ShadowTls!Init
<1>2. ASSUME who = "ours" PROVE OwnInv /\ flight \in {1, 5}
  BY <1>2, OwnStart DEF OwnInv, OwnSetting
<1> QED
  BY <1>1, <1>2, PassingStart, OtherStart DEF ShadowInv

LEMMA ShadowStep ==
  ASSUME ShadowInv, ShadowTls!Next
  PROVE  ShadowInv'
<1>1. who' = who
  BY SettingKept
<1>2. CASE who = "ours"
  <2>1. flight \in {1, 5} /\ targetSent \in Seq(OtherRecs)
        /\ (OwnInv \/ ShadowTls!Has(targetSent, "ticket"))
    BY <1>2 DEF ShadowInv
  <2>2. /\ flight' = flight /\ targetSent' \in Seq(OtherRecs)
        /\ ShadowTls!Has(targetSent, "ticket") => ShadowTls!Has(targetSent', "ticket")
    BY <2>1, TargetOnlyAdds
  <2>3. OwnInv' \/ ShadowTls!Has(targetSent', "ticket")
    BY <2>1, <2>2, OwnStep
  <2> QED
    BY <1>1, <1>2, <2>1, <2>2, <2>3 DEF ShadowInv, ShadowTls!Has
<1>3. CASE who = "other"
  BY <1>1, <1>3, PassingStep, OtherStep DEF ShadowInv
<1> QED
  BY <1>2, <1>3 DEF ShadowInv

LEMMA ShadowStutters ==
  ASSUME ShadowInv, UNCHANGED <<shadowVars, underWay>>
  PROVE  ShadowInv'
<1>1. UNCHANGED <<mode, tls, who, extra, flight, client, clientRead, clientSent, data, copier,
                  step, apps, forwardedUp, seen, targetSent, fakeConn, fakeOpen, hashW, hashed,
                  tunnel, toServer, toClient>>
  BY DEF shadowVars, underWay
<1>2. PassingInv' = PassingInv /\ OtherCounts' = OtherCounts
  BY <1>1 DEF PassingInv, PassingTypes, InHands, OtherCounts
<1>3. UpLen' = UpLen /\ EndAt' = EndAt /\ DownLen' = DownLen /\ UpStream' = UpStream
      /\ DownStream' = DownStream
  BY <1>1, OwnFixed
<1>4. /\ SentUp' = SentUp /\ GoneUp' = GoneUp /\ PassedUp' = PassedUp /\ SentDown' = SentDown
      /\ GoneDown' = GoneDown /\ ReadDown' = ReadDown /\ PutDown' = PutDown
  BY <1>1 DEF SentUp, GoneUp, PassedUp, SentDown, GoneDown, ReadDown, PutDown
<1>5. OwnSetting' = OwnSetting /\ OwnTunnel' = OwnTunnel /\ OwnStreams' = OwnStreams
  BY <1>1, <1>3, <1>4 DEF OwnSetting, OwnTunnel, OwnStreams, Stretch
<1>6. OwnTarget' = OwnTarget /\ OwnClient' = OwnClient
  BY <1>1, <1>3, <1>4 DEF OwnTarget, OwnClient
<1>7. OwnSecond' = OwnSecond /\ OwnFirst' = OwnFirst
  BY <1>1, <1>3, <1>4 DEF OwnSecond, OwnFirst
<1>8. OwnInv' = OwnInv
  BY <1>1, <1>5, <1>6, <1>7 DEF OwnInv
<1> QED
  BY <1>1, <1>2, <1>8 DEF ShadowInv, ShadowTls!Has

LEMMA ShadowKeeps ==
  ASSUME ShadowInv
  PROVE  ShadowTls!StreamKept
<1>1. ASSUME who = "ours", ~ShadowTls!Has(targetSent, "ticket")
      PROVE  /\ ShadowTls!OnlyTunnel
             /\ mode = 2 => ShadowTls!Recognises
             /\ mode = 1 /\ tls = "1.2" /\ ~(extra /\ flight = 5) =>
                  "failed" \notin {copier.up, copier.down}
  BY <1>1, OwnKeeps DEF ShadowInv
<1>2. ASSUME who = "other"
      PROVE  ShadowTls!Passing /\ (~extra => copier.up # "failed")
  BY <1>2, PassingKeeps DEF ShadowInv, OtherCounts
<1> QED
  BY <1>1, <1>2 DEF ShadowTls!StreamKept

(* The invariant holds while the shadowTls part is the one that runs.      *)
ShadowWhile == part = "shadow" => ShadowInv

LEMMA ShadowHolds == Spec => []ShadowWhile
<1>1. Init => ShadowWhile
  BY ShadowStart DEF Init, ShadowWhile
<1>2. ASSUME ShadowWhile, [Next]_vars
      PROVE  ShadowWhile'
  <2>1. CASE Of("shadow", ShadowTls!Next)
    BY <1>2, <2>1, ShadowStep DEF Of, ShadowWhile
  <2>2. CASE \/ Of("handshake", Handshakes!Next) \/ Of("packets", PacketStream!Next)
             \/ Of("lazy", TlsLazy!Next) \/ Of("copy", Copy!Next)
             \/ Of("frames", Frames!Next) \/ Of("socks5udp", Socks5UDP!Next)
    <3>1. part # "shadow" /\ part' = part
      BY <2>2 DEF Of
    <3> QED
      BY <3>1 DEF ShadowWhile
  <2>3. CASE UNCHANGED vars
    <3>1. UNCHANGED <<part, shadowVars, underWay>>
      BY <2>3 DEF vars
    <3> QED
      BY <1>2, <3>1, ShadowStutters DEF ShadowWhile
  <2> QED
    BY <1>2, <2>1, <2>2, <2>3 DEF Next
<1> QED
  BY <1>1, <1>2, PTL DEF Spec

(* A shadowTls server recognises every client of ours, so long as the fake *)
(* target sends no ticket of TLS 1.3: the target never sees the checksum   *)
(* or data of the tunnel, the tunnel gets the client's data and nothing of *)
(* its handshake, the client takes nothing of the target's for data, and   *)
(* version 1 does not give up on a handshake of TLS 1.2 that it can count. *)
(* To an ordinary client version 2 is transparent: all that it writes is   *)
(* on its way to the target or has been passed on to it, in order, nothing *)
(* of it becomes data of a tunnel, and what it reads is what the target    *)
(* wrote, also after the server has fallen back to copying (shadow.go,     *)
(* shadowTls2, shadowCopyHandshakeClientToFake, CopyTls12Handshake; io.go, *)
(* HashWriter).                                                            *)
THEOREM HandshakesStayApart == Spec => [](part = "shadow" => ShadowTls!StreamKept)
<1>1. ShadowWhile => (part = "shadow" => ShadowTls!StreamKept)
  BY ShadowKeeps DEF ShadowWhile
<1> QED
  BY <1>1, ShadowHolds, PTL

-----------------------------------------------------------------------------
(* PacketStream.  As long as the reader goes on, what it has read of the   *)
(* current datagram, what is buffered, what is in the network and what the *)
(* holder of lc_mutex has yet to write are, one behind the other, the      *)
(* fields of the datagrams that have not been read, each in one piece:     *)
(* off[i] - off[r] is where the i-th ends, r how many have been read.      *)
FieldNames ==
  {"atyp", "addr", "addr_end", "port", "len", "cr", "lf", "flag_orig", "flag_new_source",
   "version", "addon", "data"}

Pieces == [of : Nat, field : FieldNames]

HeadFields(d, i) == PacketStream!HeadOf(d, i = 1)
Fields(d, i) == HeadFields(d, i) \o PacketStream!Data(d)
AllFields == [i \in 1..Len(written) |-> Fields(written[i], i)]

(* The stream x holds the datagrams r + 1 to c, of the fields fs. *)
Woven(x, r, c, fs, off) ==
  /\ r \in Nat /\ c \in Nat /\ r <= c /\ off \in [Nat -> Nat]
  /\ Len(x) = off[c] - off[r]
  /\ \A i \in r..c : \A j \in i..c : off[i] <= off[j]
  /\ \A i \in (r + 1)..c :
       /\ off[i] = off[i - 1] + Len(fs[i])
       /\ \A k \in 1..Len(fs[i]) :
            x[(off[i - 1] - off[r]) + k] = [of |-> i, field |-> fs[i][k]]

(* What is left of a datagram after its first write. *)
Owing(writes) == IF writes = <<>> THEN <<>> ELSE writes[1]
StillOwed == IF lc_mutex = None THEN <<>> ELSE Owing(owed[lc_mutex])

AllUnderWay == (message \o bufr) \o (wire \o StillOwed)

PacketTypes ==
  /\ format \in {"vless0", "vless1", "vless1_multi", "trojan", "simplesocks"}
  /\ lc_mutex \in Downlinks \cup {None}
  /\ owed \in [Downlinks -> Seq(Seq(Pieces))]
  /\ written \in Seq(PacketStream!Datagrams)
  /\ wire \in Seq(Pieces) /\ bufr \in Seq(Pieces) /\ message \in Seq(Pieces)
  /\ read \in Seq([from : PacketStream!Addrs, size : Nat])
  /\ state \in {"open", "broken"}

(* Only the holder of the lock has something left to write. *)
OwedByHolder ==
  \A w \in Downlinks : Len(owed[w]) <= 1 /\ (owed[w] # <<>> => lc_mutex = w)

(* The datagram the reader is at, and what it knows of it. *)
InHand == Fields(written[Len(read) + 1], Len(read) + 1)
HeadInHand == HeadFields(written[Len(read) + 1], Len(read) + 1)

Begun ==
  /\ Len(message) \in Nat /\ Len(read) \in Nat /\ Len(written) \in Nat /\ Len(InHand) \in Nat
  /\ Len(read) < Len(written) /\ Len(read) + 1 \in 1..Len(written)
  /\ written[Len(read) + 1] \in PacketStream!Datagrams
  /\ Len(message) <= Len(InHand)
  /\ \A k \in 1..Len(message) : message[k] = [of |-> Len(read) + 1, field |-> InHand[k]]
  /\ bufr # <<>> /\ Len(message) < Len(InHand) =>
       bufr[1] = [of |-> Len(read) + 1, field |-> InHand[Len(message) + 1]]

ReadAsWritten ==
  /\ Len(read) <= Len(written)
  /\ \A i \in 1..Len(read) : read[i] = PacketStream!Carried(written[i])

(* The reader never has more than one datagram in hand. *)
WithinOne ==
  message # <<>> =>
    /\ Len(read) < Len(written)
    /\ Len(message) <= Len(AllFields[Len(read) + 1])

PacketInv ==
  /\ PacketTypes
  /\ OwedByHolder
  /\ ReadAsWritten
  /\ state = "open" =>
       /\ WithinOne
       /\ \E off \in [Nat -> Nat] :
            Woven(AllUnderWay, Len(read), Len(written), AllFields, off)

-----------------------------------------------------------------------------
LEMMA JoinedPieces ==
  ASSUME NEW S, NEW a \in Seq(S), NEW b \in Seq(S)
  PROVE  /\ a \o b \in Seq(S) /\ Len(a \o b) = Len(a) + Len(b)
         /\ Len(a) \in Nat /\ Len(b) \in Nat
         /\ \A i \in 1..Len(a) : (a \o b)[i] = a[i]
         /\ \A i \in 1..Len(b) : (a \o b)[Len(a) + i] = b[i]
<1>1. /\ a \o b \in Seq(S) /\ Len(a \o b) = Len(a) + Len(b)
      /\ Len(a) \in Nat /\ Len(b) \in Nat
      /\ \A i \in 1..Len(a) + Len(b) :
           (a \o b)[i] = IF i <= Len(a) THEN a[i] ELSE b[i - Len(a)]
  BY ConcatProperties, LenProperties
<1>2. ASSUME NEW i \in 1..Len(a) PROVE (a \o b)[i] = a[i]
  BY <1>1
<1>3. ASSUME NEW i \in 1..Len(b) PROVE (a \o b)[Len(a) + i] = b[i]
  <2>1. Len(a) + i \in 1..Len(a) + Len(b) /\ ~(Len(a) + i <= Len(a))
        /\ (Len(a) + i) - Len(a) = i
    BY <1>1
  <2> QED
    BY <1>1, <2>1
<1> QED
  BY <1>1, <1>2, <1>3

LEMMA JoinedFields ==
  ASSUME NEW a \in Seq(FieldNames), NEW b \in Seq(FieldNames)
  PROVE  /\ a \o b \in Seq(FieldNames) /\ Len(a \o b) = Len(a) + Len(b)
         /\ Len(a) \in Nat /\ Len(b) \in Nat
         /\ \A i \in 1..Len(a) : (a \o b)[i] = a[i]
         /\ \A i \in 1..Len(b) : (a \o b)[Len(a) + i] = b[i]
BY JoinedPieces

(* The heads of the formats.                                               *)
LEMMA AddrFieldsAre ==
  /\ PacketStream!AddrFields \in Seq(FieldNames) /\ Len(PacketStream!AddrFields) = 2
  /\ PacketStream!AddrFields[1] = "addr"
BY DEF PacketStream!AddrFields, FieldNames

LEMMA TrojanHeads ==
  ASSUME NEW d
  PROVE  /\ PacketStream!TrojanHead(d) \in Seq(FieldNames)
         /\ Len(PacketStream!TrojanHead(d)) = 7
         /\ PacketStream!TrojanHead(d)[2] = "addr"
<1> DEFINE a == <<"atyp">>
           b == PacketStream!AddrFields
           z == <<"port", "len", "cr", "lf">>
           ab == a \o b
<1>1. a \in Seq(FieldNames) /\ Len(a) = 1
  BY DEF FieldNames
<1>2. z \in Seq(FieldNames) /\ Len(z) = 4
  BY DEF FieldNames
<1>3. PacketStream!TrojanHead(d) = ab \o z
  BY DEF PacketStream!TrojanHead
<1> HIDE DEF a, z
<1>4. /\ ab \in Seq(FieldNames) /\ Len(ab) = Len(a) + Len(b)
      /\ \A i \in 1..Len(b) : ab[Len(a) + i] = b[i]
  BY <1>1, AddrFieldsAre, JoinedFields
<1>5. Len(ab) = 3 /\ ab[2] = "addr"
  <2>1. 1 \in 1..2 /\ 1 + 1 = 2 /\ 1 + 2 = 3
    OBVIOUS
  <2> QED
    BY <1>1, <1>4, <2>1, AddrFieldsAre
<1> HIDE DEF ab
<1>6. /\ ab \o z \in Seq(FieldNames) /\ Len(ab \o z) = Len(ab) + Len(z)
      /\ \A i \in 1..Len(ab) : (ab \o z)[i] = ab[i]
  BY <1>2, <1>4, JoinedFields
<1>7. 2 \in 1..3 /\ 3 + 4 = 7
  OBVIOUS
<1> QED
  BY <1>2, <1>3, <1>5, <1>6, <1>7

LEMMA VlessHeads ==
  ASSUME NEW d
  PROVE  /\ PacketStream!VlessHead(d) \in Seq(FieldNames)
         /\ Len(PacketStream!VlessHead(d)) = 5
         /\ PacketStream!VlessHead(d)[3] = "addr"
<1> DEFINE a == <<"port", "atyp">>
           b == PacketStream!AddrFields
           z == <<"len">>
           ab == a \o b
<1>1. a \in Seq(FieldNames) /\ Len(a) = 2
  BY DEF FieldNames
<1>2. z \in Seq(FieldNames) /\ Len(z) = 1
  BY DEF FieldNames
<1>3. PacketStream!VlessHead(d) = ab \o z
  BY DEF PacketStream!VlessHead
<1> HIDE DEF a, z
<1>4. /\ ab \in Seq(FieldNames) /\ Len(ab) = Len(a) + Len(b)
      /\ \A i \in 1..Len(b) : ab[Len(a) + i] = b[i]
  BY <1>1, AddrFieldsAre, JoinedFields
<1>5. Len(ab) = 4 /\ ab[3] = "addr"
  <2>1. 1 \in 1..2 /\ 2 + 1 = 3 /\ 2 + 2 = 4
    OBVIOUS
  <2> QED
    BY <1>1, <1>4, <2>1, AddrFieldsAre
<1> HIDE DEF ab
<1>6. /\ ab \o z \in Seq(FieldNames) /\ Len(ab \o z) = Len(ab) + Len(z)
      /\ \A i \in 1..Len(ab) : (ab \o z)[i] = ab[i]
  BY <1>2, <1>4, JoinedFields
<1>7. 3 \in 1..4 /\ 4 + 1 = 5
  OBVIOUS
<1> QED
  BY <1>2, <1>3, <1>5, <1>6, <1>7

LEMMA MultiHeads ==
  ASSUME NEW d
  PROVE  /\ PacketStream!MultiHead(d) \in Seq(FieldNames)
         /\ d.from = "target" =>
              /\ PacketStream!MultiHead(d) = <<"flag_orig", "len">>
              /\ Len(PacketStream!MultiHead(d)) = 2
         /\ d.from # "target" =>
              /\ Len(PacketStream!MultiHead(d)) = 6
              /\ PacketStream!MultiHead(d)[1] = "flag_new_source"
              /\ PacketStream!MultiHead(d)[4] = "addr"
<1>1. CASE d.from = "target"
  <2>1. <<"flag_orig", "len">> \in Seq(FieldNames) /\ Len(<<"flag_orig", "len">>) = 2
    BY DEF FieldNames
  <2> QED
    BY <1>1, <2>1 DEF PacketStream!MultiHead
<1>2. CASE d.from # "target"
  <2> DEFINE a == <<"flag_new_source">>
             b == PacketStream!VlessHead(d)
  <2>1. a \in Seq(FieldNames) /\ Len(a) = 1 /\ a[1] = "flag_new_source"
    BY DEF FieldNames
  <2>2. PacketStream!MultiHead(d) = a \o b
    BY <1>2 DEF PacketStream!MultiHead
  <2> HIDE DEF a
  <2>3. /\ a \o b \in Seq(FieldNames) /\ Len(a \o b) = Len(a) + Len(b)
        /\ \A i \in 1..Len(a) : (a \o b)[i] = a[i]
        /\ \A i \in 1..Len(b) : (a \o b)[Len(a) + i] = b[i]
    BY <2>1, VlessHeads, JoinedFields, SMTT(30)
  <2>4. 1 \in 1..1 /\ 3 \in 1..5 /\ 1 + 3 = 4 /\ 1 + 5 = 6
    OBVIOUS
  <2>5. Len(b) = 5 /\ b[3] = "addr"
    BY VlessHeads
  <2> HIDE DEF b
  <2>6. (a \o b)[1] = "flag_new_source" /\ (a \o b)[4] = "addr" /\ Len(a \o b) = 6
    BY <2>1, <2>3, <2>4, <2>5
  <2> QED
    BY <1>2, <2>2, <2>3, <2>6
<1> QED
  BY <1>1, <1>2

LEMMA Vless0Heads ==
  ASSUME NEW i \in Nat
  PROVE  /\ PacketStream!Vless0Head(i = 1) \in Seq(FieldNames)
         /\ Len(PacketStream!Vless0Head(i = 1)) \in Nat
         /\ Len(PacketStream!Vless0Head(i = 1)) >= 1
         /\ \A k \in 1..Len(PacketStream!Vless0Head(i = 1)) :
              PacketStream!Vless0Head(i = 1)[k] # "addr"
<1>1. CASE i = 1
  <2> DEFINE h == <<"version", "addon", "len">>
  <2>1. PacketStream!Vless0Head(i = 1) = h
    BY <1>1 DEF PacketStream!Vless0Head
  <2>2. h \in Seq(FieldNames) /\ Len(h) = 3 /\ \A k \in 1..3 : h[k] # "addr"
    BY DEF FieldNames
  <2>3. 3 \in Nat /\ 3 >= 1
    OBVIOUS
  <2> HIDE DEF h
  <2>4. /\ h \in Seq(FieldNames) /\ Len(h) \in Nat /\ Len(h) >= 1
        /\ \A k \in 1..Len(h) : h[k] # "addr"
    BY <2>2, <2>3
  <2> QED
    BY <2>1, <2>4
<1>2. CASE i # 1
  <2> DEFINE h == <<"len">>
  <2>1. PacketStream!Vless0Head(i = 1) = h
    BY <1>2 DEF PacketStream!Vless0Head
  <2>2. h \in Seq(FieldNames) /\ Len(h) = 1 /\ \A k \in 1..1 : h[k] # "addr"
    BY DEF FieldNames
  <2>3. 1 \in Nat /\ 1 >= 1
    OBVIOUS
  <2> HIDE DEF h
  <2>4. /\ h \in Seq(FieldNames) /\ Len(h) \in Nat /\ Len(h) >= 1
        /\ \A k \in 1..Len(h) : h[k] # "addr"
    BY <2>2, <2>3
  <2> QED
    BY <2>1, <2>4
<1> QED
  BY <1>1, <1>2

(* A head is never the beginning of another of the same format, and it     *)
(* holds an address unless the other end takes the target for it.          *)
LEMMA HeadsAre ==
  ASSUME format \in {"vless0", "vless1", "vless1_multi", "trojan", "simplesocks"},
         NEW d, NEW i \in Nat
  PROVE  /\ HeadFields(d, i) \in Seq(FieldNames)
         /\ Len(HeadFields(d, i)) \in Nat /\ Len(HeadFields(d, i)) >= 1
         /\ (\E k \in 1..Len(HeadFields(d, i)) : HeadFields(d, i)[k] = "addr")
              \/ (/\ format = "vless0" \/ d.from = "target"
                  /\ \A k \in 1..Len(HeadFields(d, i)) : HeadFields(d, i)[k] # "addr")
         /\ (\E k \in 1..Len(HeadFields(d, i)) : HeadFields(d, i)[k] = "addr")
              => format # "vless0"
<1>1. CASE format \in {"trojan", "simplesocks"}
  <2>1. HeadFields(d, i) = PacketStream!TrojanHead(d)
    BY <1>1 DEF HeadFields, PacketStream!HeadOf
  <2>2. 7 \in Nat /\ 7 >= 1 /\ 2 \in 1..7
    OBVIOUS
  <2> QED
    BY <1>1, <2>1, <2>2, TrojanHeads
<1>2. CASE format = "vless1"
  <2>1. HeadFields(d, i) = PacketStream!VlessHead(d)
    BY <1>2 DEF HeadFields, PacketStream!HeadOf
  <2>2. 5 \in Nat /\ 5 >= 1 /\ 3 \in 1..5
    OBVIOUS
  <2> QED
    BY <1>2, <2>1, <2>2, VlessHeads
<1>3. CASE format = "vless1_multi"
  <2>1. HeadFields(d, i) = PacketStream!MultiHead(d)
    BY <1>3 DEF HeadFields, PacketStream!HeadOf
  <2>2. CASE d.from = "target"
    <3> DEFINE h == <<"flag_orig", "len">>
    <3>1. HeadFields(d, i) = h /\ h \in Seq(FieldNames)
      BY <2>1, <2>2, MultiHeads
    <3>2. Len(h) = 2 /\ \A k \in 1..2 : h[k] # "addr"
      OBVIOUS
    <3> HIDE DEF h
    <3> QED
      BY <1>3, <2>2, <3>1, <3>2
  <2>3. CASE d.from # "target"
    <3>1. 6 \in Nat /\ 6 >= 1 /\ 4 \in 1..6
      OBVIOUS
    <3> QED
      BY <1>3, <2>1, <2>3, <3>1, MultiHeads
  <2> QED
    BY <2>2, <2>3
<1>4. CASE format = "vless0"
  <2>1. HeadFields(d, i) = PacketStream!Vless0Head(i = 1)
    BY <1>4 DEF HeadFields, PacketStream!HeadOf
  <2> QED
    BY <1>4, <2>1, Vless0Heads
<1> QED
  BY <1>1, <1>2, <1>3, <1>4

LEMMA NoHeadGoesOn ==
  ASSUME format \in {"vless0", "vless1", "vless1_multi", "trojan", "simplesocks"},
         NEW d, NEW b, NEW i \in Nat,
         Len(HeadFields(d, i)) < Len(HeadFields(b, i))
  PROVE  \E k \in 1..Len(HeadFields(d, i)) : HeadFields(d, i)[k] # HeadFields(b, i)[k]
<1>1. CASE format \in {"trojan", "simplesocks"}
  <2>1. /\ HeadFields(d, i) = PacketStream!TrojanHead(d)
        /\ HeadFields(b, i) = PacketStream!TrojanHead(b)
    BY <1>1 DEF HeadFields, PacketStream!HeadOf
  <2>2. ~(7 < 7)
    OBVIOUS
  <2> QED
    BY <2>1, <2>2, TrojanHeads
<1>2. CASE format = "vless1"
  <2>1. HeadFields(d, i) = PacketStream!VlessHead(d) /\ HeadFields(b, i) = PacketStream!VlessHead(b)
    BY <1>2 DEF HeadFields, PacketStream!HeadOf
  <2>2. ~(5 < 5)
    OBVIOUS
  <2> QED
    BY <2>1, <2>2, VlessHeads
<1>3. CASE format = "vless1_multi"
  <2>1. HeadFields(d, i) = PacketStream!MultiHead(d) /\ HeadFields(b, i) = PacketStream!MultiHead(b)
    BY <1>3 DEF HeadFields, PacketStream!HeadOf
  <2>2. ~(2 < 2) /\ ~(6 < 6) /\ ~(6 < 2) /\ 1 \in 1..2
    OBVIOUS
  <2>3. d.from = "target" /\ b.from # "target"
    <3>0. Len(PacketStream!MultiHead(d)) < Len(PacketStream!MultiHead(b))
      BY <2>1
    <3>1. CASE d.from # "target"
      <4>1. Len(PacketStream!MultiHead(d)) = 6
        BY <3>1, MultiHeads
      <4>2. Len(PacketStream!MultiHead(b)) = 6 \/ Len(PacketStream!MultiHead(b)) = 2
        BY MultiHeads
      <4> QED
        BY <2>2, <3>0, <4>1, <4>2
    <3>2. CASE d.from = "target" /\ b.from = "target"
      <4>1. Len(PacketStream!MultiHead(d)) = 2 /\ Len(PacketStream!MultiHead(b)) = 2
        BY <3>2, MultiHeads
      <4> QED
        BY <2>2, <3>0, <4>1
    <3> QED
      BY <3>1, <3>2
  <2>4. PacketStream!MultiHead(d)[1] = "flag_orig" /\ Len(PacketStream!MultiHead(d)) = 2
    <3>1. <<"flag_orig", "len">>[1] = "flag_orig" /\ Len(<<"flag_orig", "len">>) = 2
      OBVIOUS
    <3>2. PacketStream!MultiHead(d) = <<"flag_orig", "len">>
      BY <2>3, MultiHeads
    <3> QED
      BY <3>1, <3>2
  <2>5. PacketStream!MultiHead(b)[1] = "flag_new_source"
    BY <2>3, MultiHeads
  <2> QED
    BY <2>1, <2>2, <2>4, <2>5
<1>4. CASE format = "vless0"
  <2>1. /\ HeadFields(d, i) = PacketStream!Vless0Head(i = 1)
        /\ HeadFields(b, i) = PacketStream!Vless0Head(i = 1)
    BY <1>4 DEF HeadFields, PacketStream!HeadOf
  <2>2. \A n \in Nat : ~(n < n)
    OBVIOUS
  <2> QED
    BY <2>1, <2>2, Vless0Heads
<1> QED
  BY <1>1, <1>2, <1>3, <1>4

-----------------------------------------------------------------------------
(* A stream of datagrams, extended at its end and taken off its front.     *)
LEMMA JoinedStream ==
  ASSUME NEW a \in Seq(Pieces), NEW b \in Seq(Pieces)
  PROVE  /\ a \o b \in Seq(Pieces) /\ Len(a \o b) = Len(a) + Len(b)
         /\ Len(a) \in Nat /\ Len(b) \in Nat
         /\ \A i \in 1..Len(a) : (a \o b)[i] = a[i]
         /\ \A i \in 1..Len(b) : (a \o b)[Len(a) + i] = b[i]
BY JoinedPieces

LEMMA PacketTokensAre ==
  ASSUME NEW i \in Nat, NEW g \in Seq(FieldNames)
  PROVE  /\ PacketStream!Tokens(i, g) \in Seq(Pieces)
         /\ Len(PacketStream!Tokens(i, g)) = Len(g) /\ Len(g) \in Nat
         /\ \A k \in 1..Len(g) :
              PacketStream!Tokens(i, g)[k] = [of |-> i, field |-> g[k]]
<1> DEFINE n == Len(g)
           t == [k \in 1..n |-> [of |-> i, field |-> g[k]]]
<1>1. n \in Nat /\ \A k \in 1..n : g[k] \in FieldNames
  BY LenProperties
<1>2. \A k \in 1..n : [of |-> i, field |-> g[k]] \in Pieces
  BY <1>1 DEF Pieces
<1>3. PacketStream!Tokens(i, g) = t
  BY DEF PacketStream!Tokens
<1> HIDE DEF n
<1>4. t \in Seq(Pieces)
  BY <1>1, <1>2, IsASeq
<1>5. DOMAIN t = 1..n /\ \A k \in 1..n : t[k] = [of |-> i, field |-> g[k]]
  OBVIOUS
<1> HIDE DEF t
<1>6. Len(t) = n
  BY <1>1, <1>4, <1>5, LenProperties
<1> QED
  BY <1>1, <1>3, <1>4, <1>5, <1>6 DEF n

(* The tokens of a datagram are where they are between the first and the   *)
(* last of the stream.                                                     *)
LEMMA WovenIndex ==
  ASSUME NEW x, NEW r, NEW c, NEW fs, NEW off, NEW i, NEW k
  PROVE  (/\ Woven(x, r, c, fs, off)
          /\ i \in (r + 1)..c /\ Len(fs[i]) \in Nat /\ k \in 1..Len(fs[i]))
         => /\ i - 1 \in Nat /\ i \in Nat
            /\ off[i - 1] \in Nat /\ off[r] \in Nat /\ off[c] \in Nat /\ off[i] \in Nat
            /\ off[r] <= off[i - 1] /\ off[i] <= off[c]
            /\ (off[i - 1] - off[r]) + k \in 1..(off[c] - off[r])
<1>1. SUFFICES ASSUME Woven(x, r, c, fs, off), i \in (r + 1)..c,
                      Len(fs[i]) \in Nat, k \in 1..Len(fs[i])
               PROVE  /\ i - 1 \in Nat /\ i \in Nat
                      /\ off[i - 1] \in Nat /\ off[r] \in Nat
                      /\ off[c] \in Nat /\ off[i] \in Nat
                      /\ off[r] <= off[i - 1] /\ off[i] <= off[c]
                      /\ (off[i - 1] - off[r]) + k \in 1..(off[c] - off[r])
  OBVIOUS
<1>2. r \in Nat /\ c \in Nat /\ off \in [Nat -> Nat]
  BY <1>1 DEF Woven
<1>3. i - 1 \in Nat /\ i \in Nat /\ i - 1 \in r..c /\ r \in r..c /\ i \in i..c /\ c \in i..c
      /\ i \in r..c /\ i - 1 \in r..(i - 1)
  BY <1>1, <1>2
<1>4. off[i - 1] \in Nat /\ off[r] \in Nat /\ off[c] \in Nat /\ off[i] \in Nat
  BY <1>2, <1>3
<1>5. off[i] <= off[c]
  BY <1>1, <1>3 DEF Woven
<1>6. off[r] <= off[i - 1]
  BY <1>1, <1>3 DEF Woven
<1>7. off[i] = off[i - 1] + Len(fs[i])
  BY <1>1 DEF Woven
<1>8. (off[i - 1] - off[r]) + k \in 1..(off[c] - off[r])
  <2>1. \A a, b, z, n \in Nat : \A j \in 1..n : b <= a /\ a + n <= z => (a - b) + j \in 1..(z - b)
    OBVIOUS
  <2> QED
    BY <1>1, <1>4, <1>5, <1>6, <1>7, <2>1
<1> QED
  BY <1>3, <1>4, <1>5, <1>6, <1>8

LEMMA WovenFirst ==
  ASSUME NEW x, NEW r, NEW c, NEW fs, NEW off
  PROVE  Woven(x, r, c, fs, off) /\ x \in Seq(Pieces)
         => /\ r = c => Len(x) = 0
            /\ r < c /\ Len(fs[r + 1]) \in Nat =>
                 /\ r + 1 \in 1..c
                 /\ Len(fs[r + 1]) <= Len(x)
                 /\ \A k \in 1..Len(fs[r + 1]) : x[k] = [of |-> r + 1, field |-> fs[r + 1][k]]
<1>1. SUFFICES ASSUME Woven(x, r, c, fs, off), x \in Seq(Pieces)
               PROVE  /\ r = c => Len(x) = 0
                      /\ r < c /\ Len(fs[r + 1]) \in Nat =>
                           /\ r + 1 \in 1..c
                           /\ Len(fs[r + 1]) <= Len(x)
                           /\ \A k \in 1..Len(fs[r + 1]) :
                                x[k] = [of |-> r + 1, field |-> fs[r + 1][k]]
  OBVIOUS
<1>2. r \in Nat /\ c \in Nat /\ off \in [Nat -> Nat] /\ Len(x) = off[c] - off[r]
  BY <1>1 DEF Woven
<1>3. ASSUME r = c PROVE Len(x) = 0
  <2>1. off[r] \in Nat /\ \A n \in Nat : n - n = 0
    BY <1>2
  <2> QED
    BY <1>2, <1>3, <2>1
<1>4. ASSUME r < c, Len(fs[r + 1]) \in Nat
      PROVE  /\ r + 1 \in 1..c
             /\ Len(fs[r + 1]) <= Len(x)
             /\ \A k \in 1..Len(fs[r + 1]) : x[k] = [of |-> r + 1, field |-> fs[r + 1][k]]
  <2>1. r + 1 \in (r + 1)..c /\ (r + 1) - 1 = r /\ r + 1 \in r..c /\ c \in (r + 1)..c
        /\ r + 1 \in 1..c /\ r + 1 \in Nat
    BY <1>2, <1>4
  <2>2. off[r] \in Nat /\ off[c] \in Nat /\ off[r + 1] \in Nat
    BY <1>2, <2>1
  <2>3. off[r + 1] = off[r] + Len(fs[r + 1])
    BY <1>1, <2>1 DEF Woven
  <2>4. off[r + 1] <= off[c]
    BY <1>1, <2>1 DEF Woven
  <2>5. Len(fs[r + 1]) <= Len(x)
    <3>1. \A a, b, z, n \in Nat : b = a + n /\ b <= z => n <= z - a
      OBVIOUS
    <3> QED
      BY <1>2, <1>4, <2>2, <2>3, <2>4, <3>1
  <2>6. ASSUME NEW k \in 1..Len(fs[r + 1])
        PROVE  x[k] = [of |-> r + 1, field |-> fs[r + 1][k]]
    <3>1. x[(off[(r + 1) - 1] - off[r]) + k] = [of |-> r + 1, field |-> fs[r + 1][k]]
      BY <1>1, <2>1, <2>6 DEF Woven
    <3>2. (off[(r + 1) - 1] - off[r]) + k = k
      <4>1. k \in Nat
        BY <1>4, <2>6
      <4>2. \A m, n \in Nat : (m - m) + n = n
        OBVIOUS
      <4> QED
        BY <2>1, <2>2, <4>1, <4>2
    <3> QED
      BY <3>1, <3>2
  <2> QED
    BY <2>1, <2>5, <2>6
<1> QED
  BY <1>3, <1>4

LEMMA WovenRest ==
  ASSUME NEW m, NEW y, NEW r, NEW c, NEW fs, NEW off
  PROVE  (/\ Woven(m \o y, r, c, fs, off) /\ m \in Seq(Pieces) /\ y \in Seq(Pieces)
          /\ r < c /\ Len(m) = Len(fs[r + 1]) /\ \A i \in 1..c : Len(fs[i]) \in Nat)
         => Woven(y, r + 1, c, fs, off)
<1>1. SUFFICES ASSUME Woven(m \o y, r, c, fs, off), m \in Seq(Pieces), y \in Seq(Pieces),
                      r < c, Len(m) = Len(fs[r + 1]), \A i \in 1..c : Len(fs[i]) \in Nat
               PROVE  Woven(y, r + 1, c, fs, off)
  OBVIOUS
<1>0. off \in [Nat -> Nat]
  BY <1>1 DEF Woven
<1>2. r \in Nat /\ c \in Nat
  BY <1>1 DEF Woven
<1>13. Len(m \o y) = off[c] - off[r]
  BY <1>1 DEF Woven
<1>3. /\ Len(m \o y) = Len(m) + Len(y) /\ Len(m) \in Nat /\ Len(y) \in Nat
      /\ \A i \in 1..Len(y) : (m \o y)[Len(m) + i] = y[i]
  BY <1>1, JoinedStream
<1>4. /\ r + 1 \in (r + 1)..c /\ (r + 1) - 1 = r /\ r + 1 \in Nat /\ r + 1 <= c
      /\ \A i \in (r + 1)..c : i \in r..c
      /\ \A i \in ((r + 1) + 1)..c : i \in (r + 1)..c /\ i \in 1..c
  <2>1. \A a, b \in Nat : a < b =>
          /\ a + 1 \in (a + 1)..b /\ (a + 1) - 1 = a /\ a + 1 \in Nat /\ a + 1 <= b
          /\ \A i \in (a + 1)..b : i \in a..b
          /\ \A i \in ((a + 1) + 1)..b : i \in (a + 1)..b /\ i \in 1..b
    OBVIOUS
  <2> QED
    BY <1>1, <1>2, <2>1
<1>5. off[r + 1] = off[r] + Len(m)
  BY <1>1, <1>4 DEF Woven
<1>6. off[r] \in Nat /\ off[r + 1] \in Nat /\ off[c] \in Nat
  BY <1>0, <1>2, <1>4
<1>7. Len(y) = off[c] - off[r + 1]
  <2>1. \A a, z, k, n \in Nat : k + n = z - a => n = z - (a + k)
    OBVIOUS
  <2> QED
    BY <1>3, <1>5, <1>6, <1>13, <2>1
<1>8. \A i \in (r + 1)..c : \A j \in i..c : off[i] <= off[j]
  BY <1>1, <1>4 DEF Woven
<1>9. ASSUME NEW i \in ((r + 1) + 1)..c
      PROVE  /\ off[i] = off[i - 1] + Len(fs[i])
             /\ \A k \in 1..Len(fs[i]) :
                  y[(off[i - 1] - off[r + 1]) + k] = [of |-> i, field |-> fs[i][k]]
  <2>1. i \in (r + 1)..c /\ i \in 1..c
    BY <1>4
  <2>2. off[i] = off[i - 1] + Len(fs[i])
    BY <1>1, <2>1 DEF Woven
  <2>3. ASSUME NEW k \in 1..Len(fs[i])
        PROVE  y[(off[i - 1] - off[r + 1]) + k] = [of |-> i, field |-> fs[i][k]]
    <3>1. (m \o y)[(off[i - 1] - off[r]) + k] = [of |-> i, field |-> fs[i][k]]
      BY <1>1, <2>1, <2>3 DEF Woven
    <3>2. Len(fs[i]) \in Nat /\ k \in Nat
      BY <1>1, <2>1, <2>3
    <3>3. off[i - 1] \in Nat /\ off[i] \in Nat /\ off[i] <= off[c]
      BY <1>1, <2>1, <2>3, <3>2, WovenIndex
    <3>4. off[r + 1] <= off[i - 1]
      <4>1. i - 1 \in (r + 1)..c /\ r + 1 \in (r + 1)..c /\ i - 1 \in (r + 1)..c
        BY <1>2, <1>4, <2>3
      <4> QED
        BY <1>2, <1>4, <4>1, <1>8
    <3>5. /\ (off[i - 1] - off[r]) + k = Len(m) + ((off[i - 1] - off[r + 1]) + k)
          /\ (off[i - 1] - off[r + 1]) + k \in 1..Len(y)
      <4>1. \A a, b, z, l, n, h \in Nat : \A j \in 1..n :
              b + l <= a /\ a + n <= z /\ h = z - (b + l) =>
                /\ (a - b) + j = l + ((a - (b + l)) + j)
                /\ (a - (b + l)) + j \in 1..h
        OBVIOUS
      <4>2. off[r] + Len(m) <= off[i - 1] /\ off[i - 1] + Len(fs[i]) <= off[c]
            /\ Len(y) = off[c] - (off[r] + Len(m))
        BY <1>5, <1>7, <2>2, <3>3, <3>4
      <4>3. /\ (off[i - 1] - off[r]) + k = Len(m) + ((off[i - 1] - (off[r] + Len(m))) + k)
            /\ (off[i - 1] - (off[r] + Len(m))) + k \in 1..Len(y)
        <5> DEFINE a == off[i - 1]
                   b == off[r]
                   z == off[c]
                   l == Len(m)
                   h == Len(y)
                   n == Len(fs[i])
        <5>1. a \in Nat /\ b \in Nat /\ z \in Nat /\ l \in Nat /\ h \in Nat /\ n \in Nat
          BY <1>3, <1>6, <3>2, <3>3
        <5>2. k \in 1..n /\ b + l <= a /\ a + n <= z /\ h = z - (b + l)
          BY <2>3, <4>2
        <5> HIDE DEF a, b, z, l, h, n
        <5>3. (a - b) + k = l + ((a - (b + l)) + k) /\ (a - (b + l)) + k \in 1..h
          BY <4>1, <5>1, <5>2
        <5> QED
          BY <5>3 DEF a, b, z, l, h, n
      <4> QED
        BY <1>5, <4>3
    <3> QED
      BY <1>3, <3>1, <3>5
  <2> QED
    BY <2>2, <2>3
<1> QED
  BY <1>0, <1>2, <1>4, <1>7, <1>8, <1>9 DEF Woven

LEMMA WovenExtended ==
  ASSUME NEW x, NEW r, NEW c, NEW fs, NEW es, NEW off, NEW g
  PROVE  (/\ Woven(x, r, c, fs, off) /\ x \in Seq(Pieces) /\ g \in Seq(FieldNames)
          /\ \A i \in 1..c : Len(fs[i]) \in Nat /\ es[i] = fs[i]
          /\ es[c + 1] = g)
         => Woven(x \o PacketStream!Tokens(c + 1, g), r, c + 1, es,
                  [off EXCEPT ![c + 1] = off[c] + Len(g)])
<1>1. SUFFICES ASSUME Woven(x, r, c, fs, off), x \in Seq(Pieces), g \in Seq(FieldNames),
                      \A i \in 1..c : Len(fs[i]) \in Nat /\ es[i] = fs[i],
                      es[c + 1] = g
               PROVE  Woven(x \o PacketStream!Tokens(c + 1, g), r, c + 1, es,
                            [off EXCEPT ![c + 1] = off[c] + Len(g)])
  OBVIOUS
<1> DEFINE t == PacketStream!Tokens(c + 1, g)
           of2 == [off EXCEPT ![c + 1] = off[c] + Len(g)]
<1>0. off \in [Nat -> Nat] /\ Len(x) = off[c] - off[r]
  BY <1>1 DEF Woven
<1>2. r \in Nat /\ c \in Nat /\ r <= c
  BY <1>1 DEF Woven
<1>3. c + 1 \in Nat /\ c + 1 # c /\ (c + 1) - 1 = c /\ c + 1 # r /\ r <= c + 1
  BY <1>2
<1>4. /\ t \in Seq(Pieces) /\ Len(t) = Len(g) /\ Len(g) \in Nat
      /\ \A k \in 1..Len(g) : t[k] = [of |-> c + 1, field |-> g[k]]
  BY <1>1, <1>3, PacketTokensAre
<1> HIDE DEF t
<1>5. /\ Len(x \o t) = Len(x) + Len(t) /\ Len(x) \in Nat /\ Len(t) \in Nat
      /\ \A i \in 1..Len(x) : (x \o t)[i] = x[i]
      /\ \A i \in 1..Len(t) : (x \o t)[Len(x) + i] = t[i]
  BY <1>1, <1>4, JoinedStream
<1>6. off[c] \in Nat /\ off[r] \in Nat /\ off[c] + Len(g) \in Nat
  <2>1. off[c] \in Nat /\ off[r] \in Nat
    BY <1>0, <1>2
  <2> QED
    BY <1>4, <2>1
<1>7. /\ of2 \in [Nat -> Nat] /\ of2[c + 1] = off[c] + Len(g)
      /\ \A i \in Nat : i # c + 1 => of2[i] = off[i]
  BY <1>0, <1>3, <1>6
<1>8. of2[r] = off[r] /\ of2[c] = off[c]
  BY <1>2, <1>3, <1>7
<1> HIDE DEF of2
<1>9. Len(x \o t) = of2[c + 1] - of2[r]
  <2>1. \A a, z, n \in Nat : (z - a) + n = (z + n) - a
    OBVIOUS
  <2> QED
    <3>1. Len(x \o t) = (off[c] - off[r]) + Len(g)
      BY <1>0, <1>4, <1>5
    <3>2. of2[c + 1] - of2[r] = (off[c] + Len(g)) - off[r]
      BY <1>7, <1>8
    <3> QED
      BY <1>4, <1>6, <2>1, <3>1, <3>2
<1>10. ASSUME NEW i \in r..(c + 1), NEW j \in i..(c + 1) PROVE of2[i] <= of2[j]
  <2>1. CASE j # c + 1
    <3>1. i \in r..c /\ j \in i..c /\ i \in Nat /\ j \in Nat /\ i # c + 1
      <4>1. \A a, b \in Nat : \A k \in a..(b + 1) : \A l \in k..(b + 1) : l # b + 1 =>
              k \in a..b /\ l \in k..b /\ k \in Nat /\ l \in Nat /\ k # b + 1
        OBVIOUS
      <4> QED
        BY <1>2, <1>10, <2>1, <4>1
    <3>2. off[i] <= off[j]
      BY <1>1, <3>1 DEF Woven
    <3> QED
      BY <1>7, <2>1, <3>1, <3>2
  <2>2. CASE j = c + 1 /\ i = c + 1
    <3>1. of2[c + 1] \in Nat
      BY <1>6, <1>7
    <3> QED
      BY <2>2, <3>1
  <2>3. CASE j = c + 1 /\ i # c + 1
    <3>1. i \in r..c /\ c \in i..c /\ i \in Nat
      BY <1>2, <2>3
    <3>2. off[i] <= off[c] /\ off[i] \in Nat
      BY <1>0, <1>1, <1>2, <3>1 DEF Woven
    <3>3. off[i] <= off[c] + Len(g)
      <4>1. \A a, b, n \in Nat : a <= b => a <= b + n
        OBVIOUS
      <4> QED
        BY <1>4, <1>6, <3>2, <4>1
    <3> QED
      BY <1>7, <2>3, <3>1, <3>3
  <2> QED
    BY <2>1, <2>2, <2>3
<1>11. ASSUME NEW i \in (r + 1)..(c + 1)
       PROVE  /\ of2[i] = of2[i - 1] + Len(es[i])
              /\ \A k \in 1..Len(es[i]) :
                   (x \o t)[(of2[i - 1] - of2[r]) + k] = [of |-> i, field |-> es[i][k]]
  <2>1. CASE i = c + 1
    <3>1. i - 1 = c /\ es[i] = g
      BY <1>1, <1>3, <2>1
    <3>2. of2[i] = of2[i - 1] + Len(es[i])
      BY <1>7, <1>8, <2>1, <3>1
    <3>3. ASSUME NEW k \in 1..Len(es[i])
          PROVE  (x \o t)[(of2[i - 1] - of2[r]) + k] = [of |-> i, field |-> es[i][k]]
      <4>1. (of2[i - 1] - of2[r]) + k = Len(x) + k
        BY <1>0, <1>8, <3>1
      <4>2. k \in 1..Len(t) /\ k \in 1..Len(g)
        BY <1>4, <3>1, <3>3
      <4>3. (x \o t)[Len(x) + k] = t[k] /\ t[k] = [of |-> c + 1, field |-> g[k]]
        BY <1>4, <1>5, <4>2
      <4> QED
        BY <2>1, <3>1, <4>1, <4>3
    <3> QED
      BY <3>2, <3>3
  <2>2. CASE i # c + 1
    <3>1. i \in (r + 1)..c /\ i \in 1..c /\ i \in Nat /\ i - 1 \in Nat /\ i - 1 # c + 1
      BY <1>2, <2>2
    <3>2. es[i] = fs[i] /\ of2[i] = off[i] /\ of2[i - 1] = off[i - 1] /\ Len(fs[i]) \in Nat
      BY <1>1, <1>7, <2>2, <3>1
    <3>3. off[i] = off[i - 1] + Len(fs[i])
      BY <1>1, <3>1 DEF Woven
    <3>4. ASSUME NEW k \in 1..Len(fs[i])
          PROVE  (x \o t)[(off[i - 1] - off[r]) + k] = [of |-> i, field |-> fs[i][k]]
      <4>1. x[(off[i - 1] - off[r]) + k] = [of |-> i, field |-> fs[i][k]]
        BY <1>1, <3>1, <3>4 DEF Woven
      <4>2. (off[i - 1] - off[r]) + k \in 1..(off[c] - off[r])
        BY <1>1, <3>1, <3>2, <3>4, WovenIndex
      <4>3. (off[i - 1] - off[r]) + k \in 1..Len(x)
        BY <1>0, <4>2
      <4> QED
        BY <1>5, <4>1, <4>3
    <3> QED
      BY <1>8, <3>2, <3>3, <3>4
  <2> QED
    BY <2>1, <2>2
<1>12. Woven(x \o t, r, c + 1, es, of2)
  BY <1>2, <1>3, <1>7, <1>9, <1>10, <1>11 DEF Woven
<1> QED
  BY <1>12 DEF t, of2

LEMMA Regrouped ==
  ASSUME NEW a \in Seq(Pieces), NEW b \in Seq(Pieces), NEW c \in Seq(Pieces)
  PROVE  (a \o b) \o c = a \o (b \o c)
BY ConcatAssociative

LEMMA TakenApart ==
  ASSUME NEW s \in Seq(Pieces), NEW n \in 1..Len(s)
  PROVE  /\ SubSeq(s, 1, n) \in Seq(Pieces) /\ Len(SubSeq(s, 1, n)) = n
         /\ SubSeq(s, n + 1, Len(s)) \in Seq(Pieces)
         /\ SubSeq(s, 1, n) \o SubSeq(s, n + 1, Len(s)) = s
         /\ SubSeq(s, 1, n)[1] = s[1]
<1>1. Len(s) \in Nat /\ \A i \in 1..Len(s) : s[i] \in Pieces
  BY LenProperties
<1>2. /\ 1 \in Int /\ n \in Int /\ n + 1 \in Int /\ Len(s) \in Int
      /\ \A i \in 1..n : i \in 1..Len(s)
      /\ \A i \in (n + 1)..Len(s) : i \in 1..Len(s)
      /\ 1 <= n /\ (n - 1) + 1 = n /\ 1 \in 1..Len(s) + 1 /\ n \in 1 - 1..Len(s)
      /\ Len(s) \in n..Len(s) /\ 1 \in 1..(n - 1) + 1 /\ (1 + 1) - 1 = 1
  BY <1>1
<1>3. /\ SubSeq(s, 1, n) \in Seq(Pieces) /\ Len(SubSeq(s, 1, n)) = n
      /\ SubSeq(s, 1, n)[1] = s[1]
  <2>1. \A i \in 1..n : s[i] \in Pieces
    BY <1>1, <1>2
  <2>2. /\ SubSeq(s, 1, n) \in Seq(Pieces)
        /\ Len(SubSeq(s, 1, n)) = IF 1 <= n THEN n - 1 + 1 ELSE 0
        /\ \A i \in 1..n - 1 + 1 : SubSeq(s, 1, n)[i] = s[1 + i - 1]
    BY <1>2, <2>1, SubSeqProperties
  <2> QED
    BY <1>2, <2>2
<1>4. SubSeq(s, n + 1, Len(s)) \in Seq(Pieces)
  <2>1. \A i \in (n + 1)..Len(s) : s[i] \in Pieces
    BY <1>1, <1>2
  <2> QED
    BY <1>2, <2>1, SubSeqProperties
<1>5. SubSeq(s, 1, n) \o SubSeq(s, n + 1, Len(s)) = SubSeq(s, 1, Len(s))
  BY <1>2, ConcatAdjacentSubSeq
<1>6. SubSeq(s, 1, Len(s)) = s
  BY SubSeqFull
<1> QED
  BY <1>3, <1>4, <1>5, <1>6

(* The fields of a datagram, and the writes it is made in.                 *)
LEMMA DataFieldsAre ==
  ASSUME NEW d \in PacketStream!Datagrams
  PROVE  /\ d.size \in Nat /\ d.from \in PacketStream!Addrs
         /\ PacketStream!Data(d) \in Seq(FieldNames) /\ Len(PacketStream!Data(d)) = d.size
         /\ \A k \in 1..d.size : PacketStream!Data(d)[k] = "data"
<1>1. d.size \in Nat /\ d.from \in PacketStream!Addrs
  BY DataAssumption DEF PacketStream!Datagrams
<1> DEFINE n == d.size
           t == [k \in 1..n |-> "data"]
<1>2. PacketStream!Data(d) = t
  BY DEF PacketStream!Data
<1>3. "data" \in FieldNames
  BY DEF FieldNames
<1>4. n \in Nat
  BY <1>1
<1> HIDE DEF n
<1>5. t \in Seq(FieldNames)
  BY <1>3, <1>4, IsASeq
<1>6. DOMAIN t = 1..n /\ \A k \in 1..n : t[k] = "data"
  OBVIOUS
<1> HIDE DEF t
<1>7. Len(t) = n
  BY <1>4, <1>5, <1>6, LenProperties
<1> QED
  BY <1>1, <1>2, <1>5, <1>6, <1>7 DEF n

LEMMA FieldsAre ==
  ASSUME format \in {"vless0", "vless1", "vless1_multi", "trojan", "simplesocks"},
         NEW d \in PacketStream!Datagrams, NEW i \in Nat
  PROVE  /\ Fields(d, i) \in Seq(FieldNames)
         /\ Len(HeadFields(d, i)) \in Nat /\ d.size \in Nat /\ Len(Fields(d, i)) \in Nat
         /\ Len(Fields(d, i)) = Len(HeadFields(d, i)) + d.size
         /\ \A k \in 1..Len(HeadFields(d, i)) : Fields(d, i)[k] = HeadFields(d, i)[k]
         /\ \A k \in 1..d.size : Fields(d, i)[Len(HeadFields(d, i)) + k] = "data"
<1> DEFINE h == HeadFields(d, i)
           t == PacketStream!Data(d)
<1>1. h \in Seq(FieldNames)
  BY HeadsAre
<1>2. d.size \in Nat /\ t \in Seq(FieldNames) /\ Len(t) = d.size
      /\ \A k \in 1..d.size : t[k] = "data"
  BY DataFieldsAre
<1>3. Fields(d, i) = h \o t
  BY DEF Fields
<1> HIDE DEF h, t
<1>4. /\ h \o t \in Seq(FieldNames) /\ Len(h \o t) = Len(h) + Len(t)
      /\ Len(h) \in Nat /\ Len(t) \in Nat
      /\ \A k \in 1..Len(h) : (h \o t)[k] = h[k]
      /\ \A k \in 1..Len(t) : (h \o t)[Len(h) + k] = t[k]
  BY <1>1, <1>2, JoinedFields
<1>5. Len(h) + Len(t) \in Nat
  BY <1>4
<1> QED
  BY <1>2, <1>3, <1>4, <1>5 DEF h

LEMMA TokensJoin ==
  ASSUME NEW i \in Nat, NEW g \in Seq(FieldNames), NEW h \in Seq(FieldNames)
  PROVE  PacketStream!Tokens(i, g) \o PacketStream!Tokens(i, h) = PacketStream!Tokens(i, g \o h)
<1> DEFINE a == PacketStream!Tokens(i, g)
           b == PacketStream!Tokens(i, h)
           c == PacketStream!Tokens(i, g \o h)
<1>1. /\ g \o h \in Seq(FieldNames) /\ Len(g \o h) = Len(g) + Len(h)
      /\ Len(g) \in Nat /\ Len(h) \in Nat
      /\ \A k \in 1..Len(g) : (g \o h)[k] = g[k]
      /\ \A k \in 1..Len(h) : (g \o h)[Len(g) + k] = h[k]
  BY JoinedFields
<1>2. /\ a \in Seq(Pieces) /\ Len(a) = Len(g)
      /\ \A k \in 1..Len(g) : a[k] = [of |-> i, field |-> g[k]]
  BY PacketTokensAre
<1>3. /\ b \in Seq(Pieces) /\ Len(b) = Len(h)
      /\ \A k \in 1..Len(h) : b[k] = [of |-> i, field |-> h[k]]
  BY PacketTokensAre
<1>4. /\ c \in Seq(Pieces) /\ Len(c) = Len(g \o h)
      /\ \A k \in 1..Len(g \o h) : c[k] = [of |-> i, field |-> (g \o h)[k]]
  BY <1>1, PacketTokensAre
<1> HIDE DEF a, b, c
<1>5. /\ a \o b \in Seq(Pieces) /\ Len(a \o b) = Len(a) + Len(b)
      /\ \A k \in 1..Len(a) : (a \o b)[k] = a[k]
      /\ \A k \in 1..Len(b) : (a \o b)[Len(a) + k] = b[k]
  BY <1>2, <1>3, JoinedStream
<1>6. Len(a \o b) = Len(c)
  BY <1>1, <1>2, <1>3, <1>4, <1>5
<1>7. ASSUME NEW k \in 1..Len(a \o b) PROVE (a \o b)[k] = c[k]
  <2>0. k \in 1..Len(g \o h) /\ k \in 1..Len(g) + Len(h)
    BY <1>1, <1>4, <1>6
  <2>1. CASE k \in 1..Len(g)
    <3>1. (a \o b)[k] = [of |-> i, field |-> g[k]]
      BY <1>2, <1>5, <2>1
    <3>2. c[k] = [of |-> i, field |-> g[k]]
      BY <1>1, <1>4, <2>0, <2>1
    <3> QED
      BY <3>1, <3>2
  <2>2. CASE k \notin 1..Len(g)
    <3> DEFINE j == k - Len(g)
    <3>1. j \in 1..Len(h) /\ Len(g) + j = k
      BY <1>1, <2>0, <2>2
    <3> HIDE DEF j
    <3>2. (a \o b)[Len(g) + j] = [of |-> i, field |-> h[j]]
      BY <1>2, <1>3, <1>5, <3>1
    <3>3. c[k] = [of |-> i, field |-> h[j]]
      BY <1>1, <1>4, <2>0, <3>1
    <3> QED
      BY <3>1, <3>2, <3>3
  <2> QED
    BY <2>1, <2>2
<1>8. a \o b = c
  BY <1>4, <1>5, <1>6, <1>7, SeqEqual
<1> QED
  BY <1>8 DEF a, b, c

LEMMA WritesAre ==
  ASSUME format \in {"vless0", "vless1", "vless1_multi", "trojan", "simplesocks"},
         NEW d \in PacketStream!Datagrams, NEW i \in Nat
  PROVE  /\ PacketStream!Writes(d, i)[1] \in Seq(Pieces)
         /\ Tail(PacketStream!Writes(d, i)) \in Seq(Seq(Pieces))
         /\ Len(Tail(PacketStream!Writes(d, i))) <= 1
         /\ Owing(Tail(PacketStream!Writes(d, i))) \in Seq(Pieces)
         /\ PacketStream!Writes(d, i)[1] \o Owing(Tail(PacketStream!Writes(d, i)))
              = PacketStream!Tokens(i, Fields(d, i))
<1> DEFINE h == HeadFields(d, i)
           t == PacketStream!Data(d)
           a == PacketStream!Tokens(i, h)
           b == PacketStream!Tokens(i, t)
           z == PacketStream!Tokens(i, h \o t)
<1>1. h \in Seq(FieldNames) /\ t \in Seq(FieldNames) /\ h \o t \in Seq(FieldNames)
  BY HeadsAre, DataFieldsAre, JoinedFields
<1>2. a \in Seq(Pieces) /\ b \in Seq(Pieces) /\ z \in Seq(Pieces)
  BY <1>1, PacketTokensAre
<1>3. a \o b = z
  BY <1>1, TokensJoin
<1>4. PacketStream!Tokens(i, Fields(d, i)) = z
  BY DEF Fields
<1>5. PacketStream!Writes(d, i)
        = IF format \in {"trojan", "simplesocks"} THEN <<z>> ELSE <<a, b>>
  BY DEF PacketStream!Writes, HeadFields
<1> HIDE DEF h, t, a, b, z
<1>6. CASE format \in {"trojan", "simplesocks"}
  <2>1. PacketStream!Writes(d, i) = <<z>>
    BY <1>5, <1>6
  <2>2. <<z>>[1] = z /\ Tail(<<z>>) = <<>> /\ Len(<<>>) <= 1 /\ <<>> \in Seq(Seq(Pieces))
    OBVIOUS
  <2>3. Owing(<<>>) = <<>> /\ <<>> \in Seq(Pieces)
    BY DEF Owing
  <2>4. z \o <<>> = z
    BY <1>2, ConcatEmptySeq
  <2> QED
    BY <1>2, <1>4, <2>1, <2>2, <2>3, <2>4
<1>7. CASE format \notin {"trojan", "simplesocks"}
  <2>1. PacketStream!Writes(d, i) = <<a, b>>
    BY <1>5, <1>7
  <2>2. <<a, b>>[1] = a /\ Tail(<<a, b>>) = <<b>> /\ Len(<<b>>) <= 1 /\ <<b>> # <<>>
        /\ <<b>>[1] = b
    OBVIOUS
  <2>3. <<b>> \in Seq(Seq(Pieces))
    BY <1>2
  <2>4. Owing(<<b>>) = b
    BY <2>2 DEF Owing
  <2> QED
    BY <1>2, <1>3, <1>4, <2>1, <2>2, <2>3, <2>4
<1> QED
  BY <1>6, <1>7

-----------------------------------------------------------------------------
(* What the reader has in hand is the front of the datagram that follows   *)
(* those it has read.                                                      *)
LEMMA StillOwedIs == PacketTypes => StillOwed \in Seq(Pieces)
<1>1. SUFFICES ASSUME PacketTypes PROVE StillOwed \in Seq(Pieces)
  OBVIOUS
<1>2. <<>> \in Seq(Pieces)
  OBVIOUS
<1>3. ASSUME NEW s \in Seq(Seq(Pieces)) PROVE Owing(s) \in Seq(Pieces)
  <2>1. CASE s = <<>>
    BY <1>2, <2>1 DEF Owing
  <2>2. CASE s # <<>>
    <3>1. 1 \in 1..Len(s)
      BY <2>2
    <3>2. s[1] \in Seq(Pieces)
      BY <3>1, ElementOfSeq
    <3> QED
      BY <2>2, <3>2 DEF Owing
  <2> QED
    BY <2>1, <2>2
<1>4. CASE lc_mutex = None
  BY <1>2, <1>4 DEF StillOwed
<1>5. CASE lc_mutex # None
  <2>1. owed[lc_mutex] \in Seq(Seq(Pieces))
    BY <1>1, <1>5 DEF PacketTypes
  <2> QED
    BY <1>3, <1>5, <2>1 DEF StillOwed
<1> QED
  BY <1>4, <1>5

LEMMA AllFieldsAre ==
  PacketTypes =>
    /\ Len(written) \in Nat
    /\ \A i \in 1..Len(written) :
         /\ written[i] \in PacketStream!Datagrams
         /\ AllFields[i] = Fields(written[i], i)
         /\ Len(AllFields[i]) \in Nat
<1>1. SUFFICES ASSUME PacketTypes
               PROVE  /\ Len(written) \in Nat
                      /\ \A i \in 1..Len(written) :
                           /\ written[i] \in PacketStream!Datagrams
                           /\ AllFields[i] = Fields(written[i], i)
                           /\ Len(AllFields[i]) \in Nat
  OBVIOUS
<1>2. /\ written \in Seq(PacketStream!Datagrams)
      /\ format \in {"vless0", "vless1", "vless1_multi", "trojan", "simplesocks"}
  BY <1>1 DEF PacketTypes
<1>3. Len(written) \in Nat /\ \A i \in 1..Len(written) : written[i] \in PacketStream!Datagrams
  BY <1>2, LenProperties, ElementOfSeq
<1>4. ASSUME NEW i \in 1..Len(written)
      PROVE  AllFields[i] = Fields(written[i], i) /\ Len(AllFields[i]) \in Nat
  <2>1. AllFields[i] = Fields(written[i], i)
    BY DEF AllFields
  <2>2. i \in Nat
    BY <1>3
  <2>3. Len(Fields(written[i], i)) \in Nat
    BY <1>2, <1>3, <2>2, FieldsAre
  <2> QED
    BY <2>1, <2>3
<1> QED
  BY <1>3, <1>4

LEMMA UnderWayIs ==
  PacketTypes =>
    /\ AllUnderWay \in Seq(Pieces)
    /\ Len(message) \in Nat /\ Len(bufr) \in Nat
    /\ Len(message) + Len(bufr) <= Len(AllUnderWay)
    /\ \A k \in 1..Len(message) : AllUnderWay[k] = message[k]
    /\ bufr # <<>> => Len(bufr) >= 1 /\ AllUnderWay[Len(message) + 1] = bufr[1]
    /\ message # <<>> => Len(message) >= 1
<1>1. SUFFICES ASSUME PacketTypes
               PROVE  /\ AllUnderWay \in Seq(Pieces)
                      /\ Len(message) \in Nat /\ Len(bufr) \in Nat
                      /\ Len(message) + Len(bufr) <= Len(AllUnderWay)
                      /\ \A k \in 1..Len(message) : AllUnderWay[k] = message[k]
                      /\ bufr # <<>> => Len(bufr) >= 1 /\ AllUnderWay[Len(message) + 1] = bufr[1]
                      /\ message # <<>> => Len(message) >= 1
  OBVIOUS
<1>2. wire \in Seq(Pieces) /\ bufr \in Seq(Pieces) /\ message \in Seq(Pieces)
  BY <1>1 DEF PacketTypes
<1> DEFINE a == message \o bufr
           b == wire \o StillOwed
<1>3. /\ a \in Seq(Pieces) /\ Len(a) = Len(message) + Len(bufr)
      /\ Len(message) \in Nat /\ Len(bufr) \in Nat
      /\ \A i \in 1..Len(message) : a[i] = message[i]
      /\ \A i \in 1..Len(bufr) : a[Len(message) + i] = bufr[i]
  BY <1>2, JoinedStream
<1>4. b \in Seq(Pieces)
  BY <1>1, <1>2, StillOwedIs, JoinedStream
<1>5. AllUnderWay = a \o b
  BY DEF AllUnderWay
<1> HIDE DEF a, b
<1>6. /\ a \o b \in Seq(Pieces) /\ Len(a \o b) = Len(a) + Len(b)
      /\ Len(a) \in Nat /\ Len(b) \in Nat
      /\ \A i \in 1..Len(a) : (a \o b)[i] = a[i]
  BY <1>3, <1>4, JoinedStream
<1>7. \A k \in 1..Len(message) : k \in 1..Len(a)
  BY <1>3
<1>8. ASSUME bufr # <<>> PROVE Len(bufr) >= 1 /\ AllUnderWay[Len(message) + 1] = bufr[1]
  <2>1. Len(bufr) >= 1
    BY <1>2, <1>8
  <2>2. 1 \in 1..Len(bufr) /\ Len(message) + 1 \in 1..Len(a)
    BY <1>3, <2>1
  <2> QED
    BY <1>3, <1>5, <1>6, <2>1, <2>2
<1>9. message # <<>> => Len(message) >= 1
  BY <1>2
<1>10. Len(message) + Len(bufr) <= Len(AllUnderWay)
  BY <1>3, <1>5, <1>6
<1> QED
  BY <1>3, <1>5, <1>6, <1>7, <1>8, <1>9, <1>10

LEMMA HasBegun ==
  PacketInv /\ state = "open" /\ (message # <<>> \/ bufr # <<>>) => Begun
<1>1. SUFFICES ASSUME PacketInv, state = "open", message # <<>> \/ bufr # <<>>
               PROVE  Begun
  OBVIOUS
<1>2. PacketTypes /\ WithinOne
  BY <1>1 DEF PacketInv
<1>3. PICK off \in [Nat -> Nat] : Woven(AllUnderWay, Len(read), Len(written), AllFields, off)
  BY <1>1 DEF PacketInv
<1> DEFINE x == AllUnderWay
           r == Len(read)
           c == Len(written)
           n == Len(message)
<1>4. /\ x \in Seq(Pieces) /\ n \in Nat /\ Len(bufr) \in Nat /\ n + Len(bufr) <= Len(x)
      /\ \A k \in 1..n : x[k] = message[k]
      /\ bufr # <<>> => Len(bufr) >= 1 /\ x[n + 1] = bufr[1]
      /\ message # <<>> => n >= 1
  BY <1>2, UnderWayIs
<1>5. r \in Nat /\ c \in Nat /\ r <= c
  BY <1>3 DEF Woven
<1>6. \A i \in 1..c : /\ written[i] \in PacketStream!Datagrams
                      /\ AllFields[i] = Fields(written[i], i) /\ Len(AllFields[i]) \in Nat
  BY <1>2, AllFieldsAre
<1>7. /\ r = c => Len(x) = 0
      /\ r < c /\ Len(AllFields[r + 1]) \in Nat =>
           /\ r + 1 \in 1..c
           /\ Len(AllFields[r + 1]) <= Len(x)
           /\ \A k \in 1..Len(AllFields[r + 1]) :
                x[k] = [of |-> r + 1, field |-> AllFields[r + 1][k]]
  <2>1. Woven(x, r, c, AllFields, off) /\ x \in Seq(Pieces)
    BY <1>3, <1>4
  <2> HIDE DEF x, r, c
  <2> QED
    BY <2>1, WovenFirst
<1>8. InHand = Fields(written[r + 1], r + 1)
  BY DEF InHand
<1>9. message # <<>> => r < c /\ n <= Len(AllFields[r + 1])
  BY <1>2 DEF WithinOne
<1>10. message = <<>> => n = 0
  OBVIOUS
<1> HIDE DEF x, r, c, n
<1>11. n >= 1 \/ Len(bufr) >= 1
  BY <1>1, <1>4
<1>12. r < c
  <2>1. Len(x) # 0
    <3>1. Len(x) \in Nat
      BY <1>4, LenProperties
    <3> QED
      BY <1>4, <1>11, <3>1
  <2> QED
    BY <1>5, <1>7, <2>1
<1>13. r + 1 \in 1..c
  BY <1>5, <1>12
<1>14. InHand = AllFields[r + 1] /\ Len(InHand) \in Nat
       /\ written[r + 1] \in PacketStream!Datagrams
  BY <1>6, <1>8, <1>13
<1>15. \A k \in 1..Len(InHand) : x[k] = [of |-> r + 1, field |-> InHand[k]]
  BY <1>7, <1>12, <1>14
<1>16. n <= Len(InHand)
  BY <1>9, <1>10, <1>14
<1>17. \A k \in 1..n : message[k] = [of |-> r + 1, field |-> InHand[k]]
  <2>1. \A k \in 1..n : k \in 1..Len(InHand)
    <3>1. n \in Nat /\ Len(InHand) \in Nat /\ n <= Len(InHand)
      BY <1>4, <1>14, <1>16
    <3> HIDE DEF n
    <3> QED
      BY <3>1
  <2> QED
    BY <1>4, <1>15, <2>1
<1>18. ASSUME bufr # <<>>, n < Len(InHand)
       PROVE  bufr[1] = [of |-> r + 1, field |-> InHand[n + 1]]
  <2>1. n + 1 \in 1..Len(InHand)
    <3>1. n \in Nat /\ Len(InHand) \in Nat /\ n < Len(InHand)
      BY <1>4, <1>14, <1>18
    <3> QED
      BY <3>1
  <2> QED
    BY <1>4, <1>15, <1>18, <2>1
<1>19. n \in Nat /\ r \in Nat /\ c \in Nat
  BY <1>4, <1>5
<1> QED
  BY <1>12, <1>13, <1>14, <1>16, <1>17, <1>18, <1>19 DEF Begun, r, c, n

LEMMA HeadsHere ==
  ASSUME NEW d
  PROVE  read \in Seq([from : PacketStream!Addrs, size : Nat]) =>
           PacketStream!HeadOf(d, read = <<>>) = HeadFields(d, Len(read) + 1)
<1>1. SUFFICES ASSUME read \in Seq([from : PacketStream!Addrs, size : Nat])
               PROVE  PacketStream!HeadOf(d, read = <<>>) = HeadFields(d, Len(read) + 1)
  OBVIOUS
<1>2. read = <<>> <=> Len(read) + 1 = 1
  BY <1>1
<1> QED
  BY <1>2 DEF HeadFields, PacketStream!HeadOf, PacketStream!Vless0Head

LEMMA WhatComesNext ==
  PacketTypes /\ Begun =>
    /\ Len(message) < Len(HeadInHand) => HeadInHand[Len(message) + 1] \in PacketStream!NextFields
    /\ Len(message) >= Len(HeadInHand) => PacketStream!NextFields = {} /\ message # <<>>
<1>1. SUFFICES ASSUME PacketTypes, Begun
               PROVE  /\ Len(message) < Len(HeadInHand) =>
                           HeadInHand[Len(message) + 1] \in PacketStream!NextFields
                      /\ Len(message) >= Len(HeadInHand) =>
                           PacketStream!NextFields = {} /\ message # <<>>
  OBVIOUS
<1> DEFINE r == Len(read)
           d == written[r + 1]
           n == Len(message)
           h == HeadInHand
           heads == {HeadFields(b, r + 1) : b \in PacketStream!Datagrams}
           after == {e \in heads : Len(e) > n /\ \A k \in 1..n : message[k].field = e[k]}
<1>2. /\ format \in {"vless0", "vless1", "vless1_multi", "trojan", "simplesocks"}
      /\ read \in Seq([from : PacketStream!Addrs, size : Nat])
  BY <1>1 DEF PacketTypes
<1>3. /\ r \in Nat /\ n \in Nat /\ d \in PacketStream!Datagrams /\ r + 1 \in Nat
      /\ \A k \in 1..n : message[k] = [of |-> r + 1, field |-> Fields(d, r + 1)[k]]
  BY <1>1 DEF Begun, InHand
<1>4. PacketStream!NextFields = {e[n + 1] : e \in after}
  <2>1. \A b \in PacketStream!Datagrams :
          PacketStream!HeadOf(b, read = <<>>) = HeadFields(b, r + 1)
    BY <1>2, HeadsHere
  <2>2. {PacketStream!HeadOf(b, read = <<>>) : b \in PacketStream!Datagrams} = heads
    BY <2>1
  <2> HIDE DEF heads
  <2> QED
    BY <2>2 DEF PacketStream!NextFields
<1>5. h = HeadFields(d, r + 1)
  BY DEF HeadInHand
<1>6. h \in heads /\ Len(h) \in Nat /\ Len(h) >= 1
  BY <1>2, <1>3, <1>5, HeadsAre
<1>7. ASSUME NEW k \in 1..n, k \in 1..Len(h) PROVE message[k].field = h[k]
  <2>1. Fields(d, r + 1)[k] = h[k]
    BY <1>2, <1>3, <1>5, <1>7, FieldsAre
  <2>2. message[k] = [of |-> r + 1, field |-> Fields(d, r + 1)[k]]
    BY <1>3
  <2> HIDE DEF h, n, r, d
  <2> QED
    BY <2>1, <2>2
<1>8. ASSUME n < Len(h) PROVE h[n + 1] \in PacketStream!NextFields
  <2>1. \A k \in 1..n : k \in 1..Len(h)
    BY <1>3, <1>6, <1>8
  <2>2. h \in after
    BY <1>6, <1>7, <1>8, <2>1
  <2> HIDE DEF after, h
  <2> QED
    BY <1>4, <2>2
<1>9. ASSUME n >= Len(h) PROVE PacketStream!NextFields = {} /\ message # <<>>
  <2>1. message # <<>>
    BY <1>3, <1>6, <1>9
  <2>2. \A k \in 1..Len(h) : k \in 1..n
    BY <1>3, <1>6, <1>9
  <2>3. ASSUME NEW e \in after PROVE FALSE
    <3>1. PICK b \in PacketStream!Datagrams : e = HeadFields(b, r + 1)
      OBVIOUS
    <3>2. Len(e) \in Nat
      BY <1>2, <1>3, <3>1, HeadsAre
    <3>3. Len(e) > n /\ \A k \in 1..n : message[k].field = e[k]
      OBVIOUS
    <3>4. Len(h) < Len(e)
      BY <1>3, <1>6, <1>9, <3>2, <3>3
    <3>5. PICK k \in 1..Len(h) : h[k] # e[k]
      <4>1. Len(HeadFields(d, r + 1)) < Len(HeadFields(b, r + 1))
        BY <1>5, <3>1, <3>4
      <4>2. \E k \in 1..Len(HeadFields(d, r + 1)) :
              HeadFields(d, r + 1)[k] # HeadFields(b, r + 1)[k]
        BY <1>2, <1>3, <4>1, NoHeadGoesOn
      <4> HIDE DEF h
      <4> QED
        BY <1>5, <3>1, <4>2
    <3> HIDE DEF h, after, n
    <3> QED
      BY <1>7, <2>2, <3>3, <3>5
  <2>4. after = {}
    BY <2>3
  <2> HIDE DEF after
  <2> QED
    BY <1>4, <2>1, <2>4
<1> QED
  BY <1>8, <1>9
=============================================================================
