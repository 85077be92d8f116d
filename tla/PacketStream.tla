----------------------------- MODULE PacketStream -----------------------------
(* Datagrams carried by a stream.  The downlinks of a relay that dials one *)
(* connection per target (RelayUDP_separate) all write to the connection   *)
(* of the client, one at a time under lc_mutex; the other end takes the    *)
(* stream apart again through a bufio.Reader.  It starts behind the        *)
(* handshake.                                                              *)
EXTENDS Naturals, Sequences

CONSTANTS
  Formats,     (* the protocols to look at                                 *)
  Downlinks,   (* the goroutines that write                                *)
  MaxWritten,  (* how many datagrams they write together                   *)
  MaxSize,     (* how many tokens of data a datagram holds                 *)
  None

VARIABLES
  format,      (* which protocol this is                                   *)
  lc_mutex,    (* the downlink that holds it, or None                      *)
  owed,        (* what each downlink has yet to write of its datagram      *)
  written,     (* the datagrams in the order of their first bytes          *)
  wire,        (* the tokens in the network                                *)
  bufr,        (* the tokens in the bufio.Reader                           *)
  message,     (* the tokens read of the datagram being read               *)
  read,        (* the datagrams read                                       *)
  state        (* "open", "broken" or "mangled"                            *)

vars == <<format, lc_mutex, owed, written, wire, bufr, message, read, state>>

-----------------------------------------------------------------------------
(* The target of the connection is an IPv4 address; answers may come from  *)
(* there or from elsewhere.                                                *)
Addrs == {"target", "ip6", "name"}

Datagrams == [from : Addrs, size : 0 .. MaxSize]

(* A token says of which datagram and which field it is.  An address is    *)
(* two tokens, as it takes more than one byte.                             *)
AddrFields == <<"addr", "addr_end">>

TrojanHead(d) == <<"atyp">> \o AddrFields \o <<"port", "len", "cr", "lf">>

VlessHead(d) == <<"port", "atyp">> \o AddrFields \o <<"len">>

MultiHead(d) ==
  IF d.from = "target" THEN <<"flag_orig", "len">> ELSE <<"flag_new_source">> \o VlessHead(d)

(* Version 0 of vless ignores the address, and starts with two bytes once. *)
Vless0Head(first) == IF first THEN <<"version", "addon", "len">> ELSE <<"len">>

HeadOf(d, first) ==
  CASE format \in {"trojan", "simplesocks"} -> TrojanHead(d)
    [] format = "vless1" -> VlessHead(d)
    [] format = "vless1_multi" -> MultiHead(d)
    [] format = "vless0" -> Vless0Head(first)

Data(d) == [i \in 1 .. d.size |-> "data"]

Tokens(i, fields) == [k \in 1 .. Len(fields) |-> [of |-> i, field |-> fields[k]]]

(* trojan and simplesocks write a datagram at once, vless in two writes.   *)
Writes(d, i) ==
  IF format \in {"trojan", "simplesocks"}
  THEN <<Tokens(i, HeadOf(d, i = 1) \o Data(d))>>
  ELSE <<Tokens(i, HeadOf(d, i = 1)), Tokens(i, Data(d))>>

-----------------------------------------------------------------------------
Init ==
  /\ format \in Formats
  /\ lc_mutex = None
  /\ owed = [w \in Downlinks |-> <<>>]
  /\ written = <<>>
  /\ wire = <<>>
  /\ bufr = <<>>
  /\ message = <<>>
  /\ read = <<>>
  /\ state = "open"

(* Variant without lc_mutex.                                               *)
LockFree(w) == owed[w] = <<>>

Lock(w) == lc_mutex = None

(* relayUDP_rc_toLC: a downlink has a datagram and locks.                  *)
WriteMsg(w) ==
  /\ Lock(w)
  /\ Len(written) < MaxWritten
  /\ \E d \in Datagrams :
       /\ written' = Append(written, d)
       /\ owed' = [owed EXCEPT ![w] = Tail(Writes(d, Len(written) + 1))]
       /\ wire' = wire \o Writes(d, Len(written) + 1)[1]
  /\ lc_mutex' = w
  /\ UNCHANGED <<format, bufr, message, read, state>>

(* The second write, if there is one.                                      *)
WriteRest(w) ==
  /\ owed[w] # <<>>
  /\ wire' = wire \o owed[w][1]
  /\ owed' = [owed EXCEPT ![w] = Tail(owed[w])]
  /\ UNCHANGED <<format, lc_mutex, written, bufr, message, read, state>>

Unlock(w) ==
  /\ lc_mutex = w
  /\ owed[w] = <<>>
  /\ lc_mutex' = None
  /\ UNCHANGED <<format, owed, written, wire, bufr, message, read, state>>

-----------------------------------------------------------------------------
(* The reader knows which field comes next by those it has read.           *)
NextFields ==
  LET n == Len(message)
      heads == {HeadOf(d, read = <<>>) : d \in Datagrams}
      after == {h \in heads : Len(h) > n /\ \A k \in 1 .. n : message[k].field = h[k]}
  IN {h[n + 1] : h \in after}

(* The length read last, of a datagram whose head is complete.             *)
HeadRead == message # <<>> /\ NextFields = {}

SizeRead == written[message[1].of].size

DataRead == Len(message) - Len(HeadOf(written[message[1].of], read = <<>>))

(* One read of the network, when nothing is buffered.                      *)
Fill ==
  /\ state = "open"
  /\ bufr = <<>>
  /\ \E n \in 1 .. Len(wire) :
       /\ bufr' = SubSeq(wire, 1, n)
       /\ wire' = SubSeq(wire, n + 1, Len(wire))
  /\ UNCHANGED <<format, lc_mutex, owed, written, message, read, state>>

(* simplesocks converts the type of the address twice when it writes, so a *)
(* name looks like an IPv6 address and that like nothing known.            *)
Mistyped(token) ==
  format = "simplesocks" /\ token.field = "atyp" /\ written[token.of].from # "target"

(* trojan and simplesocks take a length of zero for an error.              *)
EmptyRefused(token) ==
  /\ format \in {"trojan", "simplesocks"}
  /\ token.field = "len"
  /\ written[token.of].size = 0

(* An address is read with one Read, which returns what is buffered.       *)
ShortRead == bufr[1].field = "addr" /\ Len(bufr) = 1

Take(n) ==
  /\ message' = message \o SubSeq(bufr, 1, n)
  /\ bufr' = SubSeq(bufr, n + 1, Len(bufr))

ReadField ==
  /\ state = "open"
  /\ bufr # <<>>
  /\ ~HeadRead
  /\ IF bufr[1].field \notin NextFields \/ (message # <<>> /\ message[1].of # bufr[1].of)
     THEN state' = "mangled" /\ UNCHANGED <<message, bufr>>
     ELSE IF ShortRead \/ Mistyped(bufr[1]) \/ EmptyRefused(bufr[1])
     THEN state' = "broken" /\ UNCHANGED <<message, bufr>>
     ELSE Take(1) /\ UNCHANGED state
  /\ UNCHANGED <<format, lc_mutex, owed, written, wire, read>>

(* The data, as much as is buffered; io.ReadFull comes back for the rest.  *)
ReadFull ==
  /\ state = "open"
  /\ HeadRead
  /\ DataRead < SizeRead
  /\ bufr # <<>>
  /\ IF bufr[1].field # "data" \/ bufr[1].of # message[1].of
     THEN state' = "mangled" /\ UNCHANGED <<message, bufr>>
     ELSE Take(1) /\ UNCHANGED state
  /\ UNCHANGED <<format, lc_mutex, owed, written, wire, read>>

(* The datagram is complete.  Only the formats that carry an address tell  *)
(* where it is from.                                                       *)
From(tokens) ==
  IF \E k \in 1 .. Len(tokens) : tokens[k].field = "addr"
  THEN written[tokens[1].of].from
  ELSE "target"

ReadMsg ==
  /\ state = "open"
  /\ HeadRead
  /\ DataRead = SizeRead
  /\ read' = Append(read, [from |-> From(message), size |-> DataRead])
  /\ message' = <<>>
  /\ UNCHANGED <<format, lc_mutex, owed, written, wire, bufr, state>>

Next ==
  \/ \E w \in Downlinks : WriteMsg(w) \/ WriteRest(w) \/ Unlock(w)
  \/ Fill
  \/ ReadField
  \/ ReadFull
  \/ ReadMsg

Spec == Init /\ [][Next]_vars

-----------------------------------------------------------------------------
(* Version 0 of vless has one address for all.                             *)
Carried(d) == IF format = "vless0" THEN [d EXCEPT !.from = "target"] ELSE d

(* What is read are the datagrams that were written, in that order, each   *)
(* whole and with its address, and never a piece of one taken for another  *)
(* (ReadMsg and WriteMsg of the protocols, lc_mutex of RelayUDP_separate). *)
DatagramsKept ==
  /\ state # "mangled"
  /\ Len(read) <= Len(written)
  /\ \A i \in 1 .. Len(read) : read[i] = Carried(written[i])
=============================================================================
