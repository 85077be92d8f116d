------------------------------- MODULE Socks5UDP -------------------------------
(* Udp through socks5 (proxy/socks5).  A client asks for an association    *)
(* over tcp and is given a udp port (EstablishUDPChannel); it sends its    *)
(* datagrams there with the target's address in front (Client_RequestUDP), *)
(* and the server answers to where it believes the client is (ReadMsg and  *)
(* WriteMsg of ServerUDPConn).  Datagrams may be lost and overtake each    *)
(* other.                                                                  *)
(*                                                                         *)
(* The program's own client sends from one socket and announces nothing;   *)
(* other clients announce an address, and send from several.               *)
EXTENDS Naturals, Sequences

CONSTANTS
  Sources,     (* the udp addresses that the client's side sends from      *)
  MaxRequests, (* bound: datagrams to the server                           *)
  MaxReplies,  (* bound: datagrams of the targets                          *)
  MaxData,     (* bound: tokens of data in a datagram                      *)
  None

VARIABLES
  association, (* how far the association is                               *)
  supposed,    (* clientSupposedAddr; None when it is nothing              *)
  requests,    (* what was sent, in this order: source, address and size   *)
  toServer,    (* the datagrams under way to the server                    *)
  served,      (* what ReadMsg of the server returned                      *)
  replies,     (* what WriteMsg of the server was given                    *)
  toClient,    (* the datagrams under way to the client                    *)
  answers      (* what Client_ReadUDPResponse returned                     *)

vars == <<association, supposed, requests, toServer, served, replies, toClient, answers>>

-----------------------------------------------------------------------------
(* An IPv4 address is two tokens here, an IPv6 address three, a name one   *)
(* token and its length.  "mapped" is an IPv4 address in 16 bytes, as the  *)
(* net package reads it from a socket.                                     *)
Targets == {"ip4", "ip6", "name"}
Remotes == {"ip4", "mapped", "ip6", "name"}

IPBytes(a) ==
  CASE a = "ip4" -> <<"a1", "a2">>
    [] a = "ip6" -> <<"a1", "a2", "a3">>
    [] a = "mapped" -> <<"zero", "a1", "a2">>
    [] a = "name" -> <<>>

Start == <<"rsv", "rsv", "frag">>
Port == <<"p1", "p2">>
Data(n) == [i \in 1 .. n |-> "data"]

(* Client_RequestUDP, AddressBytes. *)
RequestBytes(r) ==
  LET addr == IF r.addr = "name" THEN <<"atyp_name", "len", "a1">> ELSE <<IF r.addr = "ip4" THEN "atyp_ip4" ELSE "atyp_ip6">> \o IPBytes(r.addr)
  IN Start \o addr \o Port \o Data(r.size)

(* Variant that always writes an IPv4 address. *)
ReplyBytesShort(r) == Start \o <<"atyp_ip4">> \o IPBytes(r.addr) \o Port \o Data(r.size)

(* WriteMsg of the server takes the address for an IPv6 one when it has    *)
(* more than 4 bytes, and writes only its IP.                              *)
ReplyBytes(r) ==
  LET ip == IPBytes(r.addr)
      atyp == IF Len(ip) > 2 THEN "atyp_ip6" ELSE "atyp_ip4"
  IN Start \o <<atyp>> \o ip \o Port \o Data(r.size)

(* Both readers: the kind of the address says where the port is, the rest  *)
(* is data.  What is missing at the end of a datagram is read as zeros.    *)
AddrBytes(atyp) == CASE atyp = "atyp_ip4" -> 2 [] atyp = "atyp_ip6" -> 3 [] atyp = "atyp_name" -> 2

Part(bytes, from, n) ==
  [i \in 1 .. n |-> IF from + i - 1 <= Len(bytes) THEN bytes[from + i - 1] ELSE "zero"]

Parsed(bytes) ==
  LET n == AddrBytes(bytes[4])
  IN [addr |-> Part(bytes, 5, n), port |-> Part(bytes, 5 + n, 2),
      data |-> SubSeq(bytes, 7 + n, Len(bytes))]

(* What should come out: an IPv4 address in either form is the same.       *)
Meant(r) ==
  [addr |-> IF r.addr = "name" THEN <<"len", "a1">> ELSE IPBytes(r.addr),
   port |-> Port, data |-> Data(r.size)]

-----------------------------------------------------------------------------
Init ==
  /\ association = "none"
  /\ supposed = None
  /\ requests = <<>>
  /\ toServer = {}
  /\ served = <<>>
  /\ replies = <<>>
  /\ toClient = {}
  /\ answers = <<>>

data == <<requests, toServer, served, replies, toClient, answers>>

(* The server opens the port and keeps the address that the request names; *)
(* all zeros count as nothing.                                             *)
Associate(announced) ==
  /\ association = "none"
  /\ association' = "bound"
  /\ supposed' = announced
  /\ UNCHANGED data

(* The client has read the port in the reply. *)
EstablishUDPChannel ==
  /\ association = "bound"
  /\ association' = "established"
  /\ UNCHANGED <<supposed, data>>

RequestUDP(s, addr, size) ==
  LET i == Len(requests) + 1
      r == [source |-> s, addr |-> addr, size |-> size]
  IN /\ association = "established"
     /\ i <= MaxRequests
     /\ requests' = Append(requests, r)
     /\ toServer' = toServer \cup {[of |-> i, from |-> s, bytes |-> RequestBytes(r)]}
     /\ UNCHANGED <<association, supposed, served, replies, toClient, answers>>

Lose ==
  /\ \/ \E d \in toServer : toServer' = toServer \ {d} /\ UNCHANGED toClient
     \/ \E d \in toClient : toClient' = toClient \ {d} /\ UNCHANGED toServer
  /\ UNCHANGED <<association, supposed, requests, served, replies, answers>>

(* Variant that keeps the address that was announced. *)
ReadMsgAnnounced(d) ==
  /\ d \in toServer
  /\ toServer' = toServer \ {d}
  /\ served' = Append(served, [of |-> d.of, msg |-> Parsed(d.bytes)])
  /\ supposed' = IF supposed = None THEN d.from ELSE supposed
  /\ UNCHANGED <<association, requests, replies, toClient, answers>>

(* ReadMsg of the server: a datagram from elsewhere than supposed is taken *)
(* all the same, and from then on the client is there.                     *)
ReadMsg(d) ==
  /\ d \in toServer
  /\ toServer' = toServer \ {d}
  /\ served' = Append(served, [of |-> d.of, msg |-> Parsed(d.bytes)])
  /\ supposed' = d.from
  /\ UNCHANGED <<association, requests, replies, toClient, answers>>

(* The relay has an answer once a request was passed on.  asker is where   *)
(* the datagram that was served last came from.                            *)
WriteMsg(addr, size) ==
  LET r == [addr |-> addr, size |-> size]
      i == Len(replies) + 1
      asker == requests[served[Len(served)].of].source
  IN /\ served # <<>>
     /\ i <= MaxReplies
     /\ replies' = Append(replies, [addr |-> addr, size |-> size, asker |-> asker])
     /\ toClient' = toClient \cup {[of |-> i, to |-> supposed, bytes |-> ReplyBytes(r)]}
     /\ UNCHANGED <<association, supposed, requests, toServer, served, answers>>

ReadUDPResponse(d) ==
  /\ d \in toClient
  /\ toClient' = toClient \ {d}
  /\ answers' = Append(answers, [of |-> d.of, at |-> d.to, msg |-> Parsed(d.bytes)])
  /\ UNCHANGED <<association, supposed, requests, toServer, served, replies>>

Next ==
  \/ \E a \in Sources \cup {None} : Associate(a)
  \/ EstablishUDPChannel
  \/ \E s \in Sources, a \in Targets, n \in 0 .. MaxData : RequestUDP(s, a, n)
  \/ \E d \in toServer : ReadMsg(d)
  \/ \E a \in Remotes, n \in 0 .. MaxData : WriteMsg(a, n)
  \/ \E d \in toClient : ReadUDPResponse(d)
  \/ Lose

-----------------------------------------------------------------------------
(* The server passes on what a client sent, to the target it named; a      *)
(* client reads what was answered, with the address of who answered, and   *)
(* it is the client whose request the server had read last.  An answer     *)
(* that names its sender by a name only is not kept: ReplyBytes has no     *)
(* room for it.                                                            *)
DatagramsKept ==
  /\ \A i \in 1 .. Len(served) : served[i].msg = Meant(requests[served[i].of])
  /\ \A i \in 1 .. Len(answers) :
       LET r == replies[answers[i].of]
       IN /\ answers[i].at = r.asker
          /\ r.addr # "name" => answers[i].msg = Meant(r)
=============================================================================
