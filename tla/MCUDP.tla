-------------------------------- MODULE MCUDP --------------------------------
(* The udp connections of netLayer, UDPListener, UDPMsgConn and UDPConn,   *)
(* and the servers that keep such connections themselves, SelfListen.      *)
(* They share no state, and nothing is learned from their product: part    *)
(* says which of them a behaviour is about, the variables of the others    *)
(* keep the value None.  Variables of one name are declared once.          *)
EXTENDS Naturals, Sequences

CONSTANTS
  Peers, Datagrams, Backlog, Addrs, Writes, Base, ChanCap,
  Writers, Closers, MaxSets, InCap, Senders, Arrivals, ReadCap, None

(* Connections and sockets have the number of what made them.              *)
ASSUME NumbersAssumption == Datagrams \cup Writes \cup Arrivals \subseteq Nat
ASSUME NamesAssumption ==
  None \notin Datagrams \cup Writes \cup Arrivals \cup {Base} /\ Base \notin Writes

VARIABLES
  part, crashed, closer, at, reader,
  isclosed, connMap, newConns, newClosed, inMsgs, inClosed, from, oldConn,
  accepted, left,
  open, symmetricMap, closed, chan, chanClosed, raddr, theConn,
  sockOpen, firstFlag, firstClosed, msgs, msgsFlag, msgsClosed, pump,
  writer, timer, cancel, timedOut, sets, waits,
  kind, fullcone, mapMade, listening, loop, cur, connOf, srcOf, readChan,
  gone, handler, side, rcOpen

Listener == INSTANCE UDPListener
MsgConn == INSTANCE UDPMsgConn
Conn == INSTANCE UDPConn
Self == INSTANCE SelfListen

ofListener ==
  <<isclosed, connMap, newConns, newClosed, inMsgs, inClosed, from, oldConn,
    accepted, left>>

ofMsgConn == <<open, symmetricMap, closed, chan, chanClosed, raddr, theConn>>

ofConn ==
  <<sockOpen, firstFlag, firstClosed, msgs, msgsFlag, msgsClosed, pump, writer,
    timer, cancel, timedOut, sets, waits>>

ofSelf ==
  <<kind, fullcone, mapMade, listening, loop, cur, connOf, srcOf, readChan, gone,
    handler, side, rcOpen>>

vars == <<part, crashed, closer, at, reader, ofListener, ofMsgConn, ofConn, ofSelf>>

NoListener ==
  /\ isclosed = None /\ connMap = None /\ newConns = None /\ newClosed = None
  /\ inMsgs = None /\ inClosed = None /\ from = None /\ oldConn = None
  /\ accepted = None /\ left = None

NoMsgConn ==
  /\ open = None /\ symmetricMap = None /\ closed = None /\ chan = None
  /\ chanClosed = None /\ raddr = None /\ theConn = None

NoConn ==
  /\ sockOpen = None /\ firstFlag = None /\ firstClosed = None /\ msgs = None
  /\ msgsFlag = None /\ msgsClosed = None /\ pump = None /\ writer = None
  /\ timer = None /\ cancel = None /\ timedOut = None /\ sets = None
  /\ waits = None

NoSelf ==
  /\ kind = None /\ fullcone = None /\ mapMade = None /\ listening = None
  /\ loop = None /\ cur = None /\ connOf = None /\ srcOf = None
  /\ readChan = None /\ gone = None /\ handler = None /\ side = None
  /\ rcOpen = None

Init ==
  \/ /\ part = "listener" /\ Listener!Init
     /\ reader = None /\ NoMsgConn /\ NoConn /\ NoSelf
  \/ /\ part = "msgconn" /\ MsgConn!Init
     /\ NoListener /\ NoConn /\ NoSelf
  \/ /\ part = "conn" /\ Conn!Init
     /\ at = None /\ NoListener /\ NoMsgConn /\ NoSelf
  \/ /\ part = "self" /\ Self!Init
     /\ closer = None /\ at = None /\ reader = None
     /\ NoListener /\ NoMsgConn /\ NoConn

(* A step of the part this behaviour is about. *)
OfListener(A) ==
  part = "listener" /\ A /\ UNCHANGED <<part, reader, ofMsgConn, ofConn, ofSelf>>

OfMsgConn(A) ==
  part = "msgconn" /\ A /\ UNCHANGED <<part, ofListener, ofConn, ofSelf>>

OfConn(A) ==
  part = "conn" /\ A /\ UNCHANGED <<part, at, ofListener, ofMsgConn, ofSelf>>

OfSelf(A) ==
  /\ part = "self" /\ A
  /\ UNCHANGED <<part, closer, at, reader, ofListener, ofMsgConn, ofConn>>

Next ==
  \/ OfListener(Listener!Next)
  \/ OfMsgConn(MsgConn!Next)
  \/ OfConn(Conn!Next)
  \/ OfSelf(Self!Next)

(* The fairness of the two parts that have liveness properties. *)
Fairness ==
  /\ WF_vars(OfMsgConn(~crashed /\ MsgConn!CloseStep))
  /\ \A w \in Writes :
       /\ WF_vars(OfMsgConn(~crashed /\ MsgConn!WriteStep(w)))
       /\ WF_vars(OfMsgConn(~crashed /\ MsgConn!ReaderStep(w)))
       /\ WF_vars(OfMsgConn(~crashed /\ MsgConn!Send(w)))
  /\ WF_vars(OfConn(~crashed /\ Conn!PumpStep))
  /\ WF_vars(OfConn(~crashed /\ Conn!Fire))
  /\ WF_vars(OfConn(~crashed /\ Conn!ReaderStep))
  /\ \A c \in Closers \cup {"pump"} : WF_vars(OfConn(~crashed /\ Conn!CloseStep(c)))
  /\ \A w \in Writers : WF_vars(OfConn(~crashed /\ (Conn!Signal(w) \/ Conn!Flag(w))))

Spec == Init /\ [][Next]_vars /\ Fairness

-----------------------------------------------------------------------------
(* The listener hands out every connection that can hold a datagram        *)
(* (udplistener.go, run); the connections that a self listening server     *)
(* keeps have a reader (shadowsocks/server.go, StartListen;                *)
(* tproxy_linux.go, HandshakeUDP).                                         *)
NoOrphan ==
  /\ part = "listener" => Listener!NoOrphan
  /\ part = "self" => Self!NoOrphan

(* Channels that others send on are closed by Close alone (udplistener.go, *)
(* closeClients; msgconn.go, Close); without it only the goroutine of a    *)
(* read that failed panics, over its nil address (udplistener.go, run).    *)
CrashOnlyWhenClosed ==
  /\ part = "listener" => Listener!CrashOnlyWhenClosed
  /\ part = "msgconn" => MsgConn!CrashOnlyWhenClosed

(* No two addresses share a socket (msgconn.go, WriteMsg).                 *)
MapInjective == part = "msgconn" => MsgConn!MapInjective

(* Close is not the end before all is released: the sockets of a closed    *)
(* connection are closed in the end (msgconn.go, readSymmetricMsgFromConn), *)
(* and Close releases the reader or the pump (udpConn.go, CloseMsgChan).   *)
Leaking == part = "msgconn" /\ closed /\ open # {} /\ ~crashed

BothStuck ==
  /\ part = "conn" /\ ~crashed
  /\ \E c \in Closers : Conn!CloseAt(c, "done")
  /\ reader = "waiting" /\ pump # "ended"

Released == (Leaking ~> ~Leaking) /\ (BothStuck ~> ~BothStuck)

(* A reader that waits when its deadline passes wakes up, also when the    *)
(* deadline is set anew before it runs (pipedeadline.go, Set).             *)
Waiting == part = "conn" /\ reader = "waiting" /\ ~crashed

DeadlineWakes == (Waiting /\ timedOut) ~> ~Waiting
=============================================================================
