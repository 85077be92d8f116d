------------------------------ MODULE SelfListen ------------------------------
(***************************************************************************)
(* The servers that listen on a udp socket themselves: shadowsocks         *)
(* (proxy/shadowsocks/server.go, StartListen; udp.go) and tproxy           *)
(* (netLayer/tproxy, HandshakeUDP; proxy/tproxy/server_linux.go).  One     *)
(* goroutine reads the socket, keeps a map from the sender to its          *)
(* connection, puts the datagram into the connection's channel and, for a  *)
(* new connection, starts a handler: main's dialClient_andRelay, which     *)
(* dials and lets RelayUDP copy in both directions.  The handler's two     *)
(* goroutines close the connection, which takes it out of the map.         *)
(*                                                                         *)
(* A connection has the number of the datagram it was made for.            *)
(***************************************************************************)
EXTENDS Naturals, Sequences

CONSTANTS
  Senders,   (* the addresses                                              *)
  Arrivals,  (* bound: the socket is read 1..n times                       *)
  ReadCap,   (* the capacity of readChan, 5 in the code                    *)
  None

VARIABLES
  kind,        (* "shadowsocks" or "tproxy"                                *)
  fullcone,    (* both ends of the relay are; never for shadowsocks        *)
  mapMade,     (* udpMsgConnMap is not nil                                 *)
  listening,   (* "open", "stopped": tm.closed is set, "closed": socket    *)
  loop,        (* where the goroutine of the socket is                     *)
  cur,         (* its variables: number, sender, connection, found         *)
  connOf,      (* udpMsgConnMap                                            *)
  srcOf,       (* the hash a connection has                                *)
  readChan,    (* the channel of each connection                           *)
  gone,        (* the connections whose closeChan is closed                *)
  handler,     (* where the handler of each connection is                  *)
  side,        (* where the two goroutines of RelayUDP are                 *)
  rcOpen,      (* the connection's dialed end is open                      *)
  crashed      (* a write to a nil map, a second close of a channel        *)

vars == <<kind, fullcone, mapMade, listening, loop, cur, connOf, srcOf, readChan, gone,
          handler, side, rcOpen, crashed>>

config == <<kind, fullcone>>
ofLoop == <<loop, cur, connOf, srcOf>>
ofHandlers == <<gone, handler, side, rcOpen>>

Sides == {"up", "down"}
Closing == {"test", "close", "remove"}
NoDatagram == [n |-> 0, src |-> None, conn |-> None, found |-> FALSE]

Init ==
  /\ kind \in {"shadowsocks", "tproxy"}
  /\ fullcone \in BOOLEAN
  /\ kind = "shadowsocks" => ~fullcone
  /\ mapMade = (kind = "shadowsocks")
  /\ listening = "open"
  /\ loop = "read"
  /\ cur = NoDatagram
  /\ connOf = [p \in Senders |-> None]
  /\ srcOf = [c \in Arrivals |-> None]
  /\ readChan = [c \in Arrivals |-> <<>>]
  /\ gone = {}
  /\ handler = [c \in Arrivals |-> "none"]
  /\ side = [c \in Arrivals |-> [s \in Sides |-> "off"]]
  /\ rcOpen = [c \in Arrivals |-> FALSE]
  /\ crashed = FALSE

-----------------------------------------------------------------------------
(* The loop.  The goroutine of tproxy runs before StartListen has made the *)
(* map.                                                                    *)
MakeMap ==
  /\ ~mapMade
  /\ mapMade' = TRUE
  /\ UNCHANGED <<config, listening, ofLoop, readChan, ofHandlers, crashed>>

ReadFrom(p) ==
  /\ loop = "read"
  /\ listening # "closed"
  /\ cur.n + 1 \in Arrivals
  /\ cur' = [n |-> cur.n + 1, src |-> p, conn |-> None, found |-> FALSE]
  /\ loop' = "lookup"
  /\ UNCHANGED <<config, mapMade, listening, connOf, srcOf, readChan, ofHandlers, crashed>>

(* The socket was closed, or a datagram has no original destination. *)
ReadFails ==
  /\ loop = "read"
  /\ listening = "closed" \/ kind = "tproxy"
  /\ loop' = "ended"
  /\ UNCHANGED <<config, mapMade, listening, cur, connOf, srcOf, readChan, ofHandlers, crashed>>

(* What comes after the connection is in the map. *)
AfterInsert == IF kind = "shadowsocks" THEN "parse" ELSE "send"

Lookup ==
  LET c == connOf[cur.src]
  IN /\ loop = "lookup"
     /\ cur' = [cur EXCEPT !.conn = c, !.found = (c # None)]
     /\ loop' = IF c # None THEN AfterInsert ELSE "insert"
     /\ UNCHANGED <<config, mapMade, listening, connOf, srcOf, readChan, ofHandlers, crashed>>

Insert ==
  /\ loop = "insert"
  /\ crashed' = ~mapMade
  /\ cur' = [cur EXCEPT !.conn = cur.n]
  /\ connOf' = IF mapMade THEN [connOf EXCEPT ![cur.src] = cur.n] ELSE connOf
  /\ srcOf' = [srcOf EXCEPT ![cur.n] = cur.src]
  /\ loop' = AfterInsert
  /\ UNCHANGED <<config, mapMade, listening, readChan, ofHandlers>>

(* The target address in front of the data.  A datagram that has none is   *)
(* skipped, the connection it made stays without a handler.                *)
Parse(good) ==
  /\ loop = "parse"
  /\ loop' = IF good THEN "send" ELSE "read"
  /\ handler' = IF good \/ cur.found THEN handler ELSE [handler EXCEPT ![cur.conn] = "missing"]
  /\ UNCHANGED <<config, mapMade, listening, cur, connOf, srcOf, readChan, gone, side, rcOpen, crashed>>

Send ==
  /\ loop = "send"
  /\ Len(readChan[cur.conn]) < ReadCap
  /\ readChan' = [readChan EXCEPT ![cur.conn] = Append(@, cur.n)]
  /\ loop' = IF cur.found THEN "read" ELSE "start"
  /\ UNCHANGED <<config, mapMade, listening, cur, connOf, srcOf, ofHandlers, crashed>>

(* The loop of tproxy ends here when the machine was stopped. *)
Start ==
  /\ loop = "start"
  /\ \/ /\ kind = "tproxy" /\ listening # "open"
        /\ loop' = "ended"
        /\ UNCHANGED handler
     \/ /\ kind = "shadowsocks" \/ listening = "open"
        /\ loop' = "read"
        /\ handler' = [handler EXCEPT ![cur.conn] = "payload"]
  /\ UNCHANGED <<config, mapMade, listening, cur, connOf, srcOf, readChan, gone, side, rcOpen, crashed>>

(* Stop of tproxy marks the machine first; the closer of shadowsocks is    *)
(* the socket.                                                             *)
Stop ==
  /\ listening # "closed"
  /\ listening' = IF kind = "tproxy" /\ listening = "open" THEN "stopped" ELSE "closed"
  /\ UNCHANGED <<config, mapMade, ofLoop, readChan, ofHandlers, crashed>>

-----------------------------------------------------------------------------
(* The handler.  The datagram that made the connection is in its channel,  *)
(* so the first payload is read at once.                                   *)
ReadFirstPayload(c) ==
  /\ handler[c] = "payload"
  /\ readChan[c] # <<>>
  /\ readChan' = [readChan EXCEPT ![c] = Tail(@)]
  /\ handler' = [handler EXCEPT ![c] = "dial"]
  /\ UNCHANGED <<config, mapMade, listening, ofLoop, gone, side, rcOpen, crashed>>

(* A dial that failed returns and closes nothing. *)
DialFails(c) ==
  /\ handler[c] = "dial"
  /\ handler' = [handler EXCEPT ![c] = "failed"]
  /\ UNCHANGED <<config, mapMade, listening, ofLoop, readChan, gone, side, rcOpen, crashed>>

(* The reject client closes the connection itself. *)
DialRejected(c) ==
  /\ handler[c] = "dial"
  /\ handler' = [handler EXCEPT ![c] = "rejected"]
  /\ side' = [side EXCEPT ![c]["down"] = "test"]
  /\ UNCHANGED <<config, mapMade, listening, ofLoop, readChan, gone, rcOpen, crashed>>

DialSucceeds(c) ==
  /\ handler[c] = "dial"
  /\ handler' = [handler EXCEPT ![c] = "relay"]
  /\ side' = [side EXCEPT ![c] = [s \in Sides |-> "run"]]
  /\ rcOpen' = [rcOpen EXCEPT ![c] = TRUE]
  /\ UNCHANGED <<config, mapMade, listening, ofLoop, readChan, gone, crashed>>

-----------------------------------------------------------------------------
(* The two goroutines of RelayUDP.  Each closes the dialed end when it     *)
(* leaves its loop; a full cone keeps the client's end unless the error    *)
(* was the client's.                                                       *)
LeaveLoop(c, s, clientsError) ==
  /\ rcOpen' = [rcOpen EXCEPT ![c] = FALSE]
  /\ side' = [side EXCEPT ![c][s] = IF ~fullcone \/ clientsError THEN "test" ELSE "ended"]
  /\ UNCHANGED gone

Upload(c, ok) ==
  /\ side[c]["up"] = "run"
  /\ readChan[c] # <<>>
  /\ ok => rcOpen[c]
  /\ readChan' = [readChan EXCEPT ![c] = Tail(@)]
  /\ IF ok THEN UNCHANGED <<gone, side, rcOpen>> ELSE LeaveLoop(c, "up", FALSE)
  /\ UNCHANGED <<config, mapMade, listening, ofLoop, handler, crashed>>

(* The connection was closed, or nothing came for UDP_timeout. *)
UploadReadFails(c) ==
  /\ side[c]["up"] = "run"
  /\ c \in gone \/ readChan[c] = <<>>
  /\ LeaveLoop(c, "up", TRUE)
  /\ UNCHANGED <<config, mapMade, listening, ofLoop, readChan, handler, crashed>>

(* The dialed end fails, or writing to the client does: on the shared      *)
(* socket, or on the one that tproxy dials for every answer.               *)
DownloadEnds(c, clientsError) ==
  /\ side[c]["down"] = "run"
  /\ clientsError => kind = "tproxy" \/ listening = "closed"
  /\ LeaveLoop(c, "down", clientsError)
  /\ UNCHANGED <<config, mapMade, listening, ofLoop, readChan, handler, crashed>>

-----------------------------------------------------------------------------
(* Close of the connection: tests closeChan, closes it, and removes the    *)
(* entry of its sender.                                                    *)
TestClosed(c, s) ==
  /\ side[c][s] = "test"
  /\ side' = [side EXCEPT ![c][s] = IF c \in gone THEN "ended" ELSE "close"]
  /\ UNCHANGED <<config, mapMade, listening, ofLoop, readChan, gone, handler, rcOpen, crashed>>

CloseChan(c, s) ==
  /\ side[c][s] = "close"
  /\ crashed' = (c \in gone)
  /\ gone' = gone \cup {c}
  /\ side' = [side EXCEPT ![c][s] = "remove"]
  /\ UNCHANGED <<config, mapMade, listening, ofLoop, readChan, handler, rcOpen>>

(* Variant that leaves the entry. *)
RemoveNothing(c, s) ==
  /\ side[c][s] = "remove"
  /\ side' = [side EXCEPT ![c][s] = "ended"]
  /\ UNCHANGED <<config, mapMade, listening, loop, cur, connOf, srcOf, readChan, gone, handler,
                 rcOpen, crashed>>

(* shadowsocks deletes under the Mutex of its Base, and inserts under one  *)
(* of its own: each is one step here, as if they excluded each other.      *)
RemoveUDPByHash(c, s) ==
  /\ side[c][s] = "remove"
  /\ connOf' = [connOf EXCEPT ![srcOf[c]] = None]
  /\ side' = [side EXCEPT ![c][s] = "ended"]
  /\ UNCHANGED <<config, mapMade, listening, loop, cur, srcOf, readChan, gone, handler, rcOpen,
                 crashed>>

Next ==
  /\ ~crashed
  /\ \/ MakeMap \/ ReadFails \/ Lookup \/ Insert \/ Send \/ Start \/ Stop
     \/ \E p \in Senders : ReadFrom(p)
     \/ \E good \in BOOLEAN : Parse(good)
     \/ \E c \in Arrivals :
          \/ ReadFirstPayload(c) \/ DialFails(c) \/ DialRejected(c) \/ DialSucceeds(c)
          \/ UploadReadFails(c)
          \/ \E ok \in BOOLEAN : Upload(c, ok) \/ DownloadEnds(c, ok)
          \/ \E s \in Sides : TestClosed(c, s) \/ CloseChan(c, s) \/ RemoveUDPByHash(c, s)

-----------------------------------------------------------------------------
(* Somebody reads the connection, or is about to take it out of the map.   *)
Served(c) ==
  \/ loop \in {"parse", "send", "start"} /\ cur.conn = c /\ ~cur.found
  \/ handler[c] \in {"payload", "dial"}
  \/ side[c]["up"] = "run"
  \/ ~fullcone /\ side[c]["down"] = "run"
  \/ \E s \in Sides : side[c][s] \in Closing

(* What the code leaves in the map for ever: the dial failed, the first    *)
(* datagram had no address, or a full cone lost its dialed end while the   *)
(* client was still sending.                                               *)
LeftAlone(c) ==
  \/ handler[c] \in {"failed", "missing"}
  \/ fullcone /\ handler[c] = "relay" /\ side[c]["up"] = "ended" /\ ~rcOpen[c]

(* Every connection that the next datagram of a sender would go to is      *)
(* served, and so is the one the loop sends to, unless it has been closed  *)
(* since the lookup.                                                       *)
NoOrphan ==
  listening = "open" /\ ~crashed =>
    /\ \A p \in Senders : connOf[p] # None => Served(connOf[p]) \/ LeftAlone(connOf[p])
    /\ loop = "send" => \/ ~cur.found
                        \/ Served(cur.conn) \/ LeftAlone(cur.conn) \/ cur.conn \in gone
=============================================================================
