-------------------------------- MODULE Headers --------------------------------
(* The requests and replies of the proxy protocols and of the http headers *)
(* around them: what one side writes, and what the other reads and in      *)
(* which order.  A field is one token, whatever its length; a field of     *)
(* which only a part has arrived has not arrived.                          *)
(*                                                                         *)
(* The writer's half of a conversation is a sequence of rounds, each a     *)
(* sequence of field names; before the next round it waits for an answer.  *)
(* The reader's half is a sequence of rounds [min, fields]: fewer than min *)
(* tokens are refused before any is looked at, and a field is              *)
(*   short   the verdict when the bytes end before it, where "unnoticed"   *)
(*           is a reader that does not notice it;                          *)
(*   wrong   the verdicts on a value that is not as it should be.          *)
EXTENDS Naturals, Sequences

F(name, short, wrong) == [name |-> name, short |-> short, wrong |-> wrong]

Round(min, fields) == [min |-> min, fields |-> fields]

-----------------------------------------------------------------------------
(* Addresses, by the code that reads them.                                 *)
V2rayAddr(v) == <<F("port", v, {v}), F("atyp", v, {v}), F("addr", v, {v})>>
TrojanAddr(v) == <<F("atyp", v, {v}), F("addr", v, {v}), F("port", v, {v})>>
SimpleAddr(v) == <<F("atyp", v, {v}), F("addr", v, {v}), F("port", v, {v})>>
ShadowAddr(v) == <<F("atyp", v, {v}), F("addr", v, {v}), F("port", v, {v})>>

(* and by the code that writes them.                                       *)
AddressBytes == <<"atyp", "addr">>
TrojanTarget == AddressBytes \o <<"port", "cr", "lf">>
SimpleTarget == AddressBytes \o <<"port">>
ShadowTarget == AddressBytes \o <<"port">>

-----------------------------------------------------------------------------
(* vless.  The first 17 bytes are the version and the user.  The addon of  *)
(* version 0 has a length of its own; version 1 has one byte of flags.     *)
getBufWithCmd == <<"version", "user", "addon", "cmd">>
(* Variant that writes the address before the port.                        *)
VlessRequestAddrFirst == getBufWithCmd \o AddressBytes \o <<"port">>

VlessRequest == getBufWithCmd \o <<"port">> \o AddressBytes

VlessFields(addonWrong, cmdWrong) ==
  <<F("version", "refused", {"fallback"}),
    F("user", "refused", {"fallback"}),
    F("addon", "refused", addonWrong),
    F("cmd", "fallback", cmdWrong)>>
  \o V2rayAddr("fallback")

Vless0 == VlessFields({"refused"}, {"fallback", "refused"})
Vless1 == VlessFields({}, {"fallback"})

(* The first reply of version 0 starts with a version and an addon length. *)
VlessReply == <<"version", "addon">>
VlessReplyFields == <<F("version", "refused", {}), F("addon", "refused", {})>>

-----------------------------------------------------------------------------
(* trojan.  Less than 17 bytes are refused, which is less than the hash.   *)
TrojanRequest == <<"hash16", "hash17", "hash", "cr", "lf", "cmd">> \o TrojanTarget

TrojanFields ==
  <<F("hash16", "refused", {}),
    F("hash17", "refused", {}),
    F("hash", "fallback", {"fallback"}),
    F("cr", "fallback", {"fallback"}),
    F("lf", "fallback", {"fallback"}),
    F("cmd", "fallback", {"fallback"})>>
  \o TrojanAddr("fallback")
  \o <<F("cr", "fallback", {"fallback"}), F("lf", "fallback", {"fallback"})>>

(* simplesocks refuses less than 4 bytes: the command, the type of the     *)
(* address and what follows it at once.                                    *)
SimpleRequest == <<"cmd">> \o SimpleTarget
SimpleFields == <<F("cmd", "fallback", {"fallback"})>> \o SimpleAddr("fallback")

(* shadowsocks cannot fall back, so its first buffer ends unused.  The     *)
(* client of this repository builds the header and writes an empty buffer. *)
ShadowRequest == ShadowTarget
ShadowOwnRequest == <<>>
ShadowFields == ShadowAddr("refused")

(* vmess: who it is from, then one sealed header.                          *)
VmessRequest == <<"authid", "header">>
VmessFields ==
  <<F("authid", "refused", {"refused"}), F("header", "refused", {"refused"})>>

VmessReply == <<"length", "header">>
VmessReplyFields ==
  <<F("length", "refused", {"refused"}), F("header", "refused", {"refused"})>>

-----------------------------------------------------------------------------
(* http.  The ErrBuffer of this server is not the pointer that             *)
(* extractFirstBufFromErr knows, so what it hands back is refused.         *)
HttpRequest == <<"line", "headers">>
HttpFields ==
  <<F("line", "refused", {"refused"}), F("headers", "refused", {"refused"})>>

(* A preset http header in front of the proxy protocol, here vmess, the    *)
(* one that passes the error of HeaderConn on as it is.                    *)
PresetRequest == <<"line", "headers">>
PresetFields ==
  <<F("line", "fallback", {"fallback"}), F("headers", "fallback", {"fallback"})>>

PresetReply == <<"line", "headers">>
PresetReplyFields == <<F("line", "refused", {}), F("headers", "refused", {})>>

(* The upgrade to a websocket.  early is the data in one of its headers,   *)
(* end the last line; upgrade is what only the upgrader itself looks at.   *)
WsRequest == <<"line", "upgrade", "early", "end">>
WsFields ==
  <<F("line", "refused", {"fallback"}),
    F("upgrade", "fallback", {"drained"}),
    F("early", "fallback", {}),
    F("end", "fallback", {})>>

-----------------------------------------------------------------------------
(* socks5: greeting, password, command, each after the answer to the one   *)
(* before.  A command of 7 bytes counts as whole: the length of the buffer *)
(* is compared with the address, not the number of bytes that were read.   *)
Socks5Client ==
  <<<<"version", "methods">>, <<"password">>, <<"command", "addr">>>>

Socks5Server ==
  <<Round(1, <<F("version", "refused", {"refused"}),
               F("methods", "refused", {"refused"})>>),
    Round(1, <<F("password", "refused", {"refused"})>>),
    Round(1, <<F("command", "refused", {"refused"}),
               F("addr", "unnoticed", {})>>)>>

Socks5Replies ==
  <<<<"version", "method">>, <<"version", "status">>, <<"reply", "bound">>>>

Socks5ReplyFields ==
  <<Round(2, <<F("version", "refused", {"refused"}),
               F("method", "refused", {"refused"})>>),
    Round(2, <<F("version", "refused", {"refused"}),
               F("status", "refused", {"refused"})>>),
    Round(2, <<F("reply", "refused", {"refused"}),
               F("bound", "refused", {})>>)>>
=============================================================================
