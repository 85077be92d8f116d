-------------------------------- MODULE MCWire --------------------------------
(* What goes over a connection: its opening (Handshakes), datagrams in a   *)
(* stream (PacketStream) and through socks5 (Socks5UDP), TLS inside TLS    *)
(* (TlsLazy), copying below the layers (Copy), the frames of the           *)
(* transports (Frames) and shadowTls (ShadowTls).  They share no state;    *)
(* part says which of them a behaviour is about.  The variables of the     *)
(* others keep the value None, those of Handshakes that of one initial     *)
(* state, so that the refinement speaks of every behaviour.                *)
EXTENDS Naturals, Sequences

CONSTANTS
  Convs, Payload, ReadMax,
  Formats, Downlinks, MaxWritten, MaxSize,
  MaxPackets, MaxRecords,
  Total, CopyRoom, BufLen, BufCount,
  Framings, MaxTokens, MaxFrame, MaxBuffer, Counters, PrefixRoom,
  Sources, MaxRequests, MaxReplies, MaxData,
  MaxApps, MaxTickets,
  None

(* The bounds are numbers; the formats are those PacketStream knows; and    *)
(* nobody holds lc_mutex when it is None.                                  *)
ASSUME DataAssumption ==
  MaxData \in Nat /\ MaxPackets \in Nat /\ MaxRecords \in Nat /\ MaxSize \in Nat

(* A first buffer holds something. *)
ASSUME CopyAssumption ==
  Total \in Nat \ {0} /\ CopyRoom \in Nat /\ BufLen \in Nat /\ BufCount \in Nat

ASSUME FormatsAssumption ==
  Formats \subseteq {"vless0", "vless1", "vless1_multi", "trojan", "simplesocks"}

ASSUME HandshakesAssumption ==
  /\ Convs \subseteq
       {"vless0", "vless1", "trojan", "simplesocks", "shadowsocks", "shadowsocks_own",
        "vmess", "http_connect", "http_get", "http_auth", "preset", "ws", "socks5",
        "socks5http", "vless0_reply", "vmess_reply", "preset_reply", "socks5_reply"}
  /\ Payload \in Nat \ {0}

(* The checksum of shadowTls and what fits behind it are one frame.         *)
ASSUME FramesAssumption ==
  /\ MaxTokens \in Nat /\ MaxFrame \in Nat /\ MaxBuffer \in Nat
  /\ Counters \in Nat \ {0}
  /\ PrefixRoom \in Nat /\ PrefixRoom < MaxFrame

ASSUME DownlinksAssumption == None \notin Downlinks

VARIABLES
  part,
  conv, wrong, sent, got, answered, stage, buf, heap, fit, verdict, rest, out,
  format, lc_mutex, owed, written, wire, bufr, message, read, state,
  dir, known, taken, writing, cut, announced, sender, sentCount, net, rawInput, last,
  writeCount, receiver, gotCount, found, forwarded,
  reader, writer, useReadv, arrived, pos, left, headDue, lost, replyDue, big, method,
  output, inside,
  framing, wrote, firstDue, toCut, inFlight, delivered, remain, leftover, sealCount,
  openCount, handedOut, merged,
  association, supposed, requests, toServer, served, replies, toClient, answers,
  mode, tls, who, extra, flight, client, clientRead, clientSent, data, copier, step,
  apps, forwardedUp, seen, targetSent, fakeConn, fakeOpen, hashW, hashed, tunnel

Handshakes == INSTANCE Handshakes
PacketStream == INSTANCE PacketStream
TlsLazy == INSTANCE TlsLazy
Copy == INSTANCE Copy
Frames == INSTANCE Frames
Socks5UDP == INSTANCE Socks5UDP
ShadowTls == INSTANCE ShadowTls WITH forwarded <- forwardedUp

handshakeVars ==
  <<conv, wrong, sent, got, answered, stage, buf, heap, fit, verdict, rest, out>>
packetsVars == <<format, lc_mutex, owed, written, wire, bufr, message, read, state>>
lazyVars ==
  <<dir, known, taken, writing, cut, announced, sender, sentCount, net, rawInput, last,
    writeCount, receiver, gotCount, found, forwarded>>

copyVars ==
  <<reader, writer, useReadv, arrived, pos, left, headDue, lost, replyDue, big, method, output,
    inside>>
framesVars ==
  <<framing, wrote, firstDue, toCut, inFlight, delivered, remain, leftover, sealCount,
    openCount, handedOut, merged>>

socksVars == <<association, supposed, requests, served, replies, answers>>
shadowVars ==
  <<mode, tls, who, extra, flight, client, clientRead, clientSent, data, copier, step,
    apps, forwardedUp, seen, targetSent, fakeConn, fakeOpen, hashW, hashed, tunnel>>

(* These two name what is under way the same. *)
underWay == <<toServer, toClient>>

vars ==
  <<part, handshakeVars, packetsVars, lazyVars, copyVars, framesVars, socksVars,
    shadowVars, underWay>>

NoPackets ==
  /\ format = None /\ lc_mutex = None /\ owed = None /\ written = None /\ wire = None
  /\ bufr = None /\ message = None /\ read = None /\ state = None

NoLazy ==
  /\ dir = None /\ known = None /\ taken = None /\ writing = None /\ cut = None
  /\ announced = None /\ sender = None
  /\ sentCount = None /\ net = None /\ rawInput = None /\ last = None
  /\ writeCount = None /\ receiver = None /\ gotCount = None /\ found = None
  /\ forwarded = None

NoCopy ==
  /\ reader = None /\ writer = None /\ useReadv = None /\ arrived = None /\ pos = None
  /\ left = None /\ headDue = None /\ lost = None /\ replyDue = None /\ big = None
  /\ method = None /\ output = None /\ inside = None

NoFrames ==
  /\ framing = None /\ wrote = None /\ firstDue = None /\ toCut = None /\ inFlight = None
  /\ delivered = None /\ remain = None /\ leftover = None /\ sealCount = None
  /\ openCount = None /\ handedOut = None /\ merged = None

NoSocks ==
  /\ association = None /\ supposed = None /\ requests = None /\ served = None
  /\ replies = None /\ answers = None

NoShadow ==
  /\ mode = None /\ tls = None /\ who = None /\ extra = None /\ flight = None
  /\ client = None /\ clientRead = None /\ clientSent = None /\ data = None
  /\ copier = None /\ step = None /\ apps = None /\ forwardedUp = None
  /\ seen = None /\ targetSent = None /\ fakeConn = None /\ fakeOpen = None
  /\ hashW = None /\ hashed = None /\ tunnel = None

Init ==
  /\ Handshakes!Init
  /\ part \in {"handshake", "packets", "lazy", "copy", "frames", "socks5udp", "shadow"}
  /\ part # "handshake" => conv = "vmess" /\ wrong = None
  /\ IF part = "packets" THEN PacketStream!Init ELSE NoPackets
  /\ IF part = "lazy" THEN TlsLazy!Init ELSE NoLazy
  /\ IF part = "copy" THEN Copy!Init ELSE NoCopy
  /\ IF part = "frames" THEN Frames!Init ELSE NoFrames
  /\ IF part = "socks5udp" THEN Socks5UDP!Init ELSE NoSocks
  /\ IF part = "shadow" THEN ShadowTls!Init ELSE NoShadow
  /\ part \notin {"socks5udp", "shadow"} => toServer = None /\ toClient = None

(* A step of the part p, which leaves the others alone. *)
Of(p, A) ==
  /\ part = p /\ A
  /\ UNCHANGED part
  /\ IF p = "handshake" THEN TRUE ELSE UNCHANGED handshakeVars
  /\ IF p = "packets" THEN TRUE ELSE UNCHANGED packetsVars
  /\ IF p = "lazy" THEN TRUE ELSE UNCHANGED lazyVars
  /\ IF p = "copy" THEN TRUE ELSE UNCHANGED copyVars
  /\ IF p = "frames" THEN TRUE ELSE UNCHANGED framesVars
  /\ IF p = "socks5udp" THEN TRUE ELSE UNCHANGED socksVars
  /\ IF p = "shadow" THEN TRUE ELSE UNCHANGED shadowVars
  /\ IF p \in {"socks5udp", "shadow"} THEN TRUE ELSE UNCHANGED underWay

Next ==
  \/ Of("handshake", Handshakes!Next)
  \/ Of("packets", PacketStream!Next)
  \/ Of("lazy", TlsLazy!Next)
  \/ Of("copy", Copy!Next)
  \/ Of("frames", Frames!Next)
  \/ Of("socks5udp", Socks5UDP!Next)
  \/ Of("shadow", ShadowTls!Next)

Spec == Init /\ [][Next]_vars

-----------------------------------------------------------------------------
(* What the layer above a handshake or a fallback reads is the stream of   *)
(* the peer from the right byte on (Handover), wherever it was cut.        *)
ImplementsHandover == Handshakes!ImplementsHandover

(* A request is understood as it was written, and a wrong one never taken  *)
(* (Handshake of the clients and servers).                                 *)
RequestUnderstood == Handshakes!RequestUnderstood

(* Datagrams in a stream stay whole, in order, and keep their addresses    *)
(* (ReadMsg and WriteMsg, lc_mutex of RelayUDP_separate); those through    *)
(* socks5 keep their addresses and come back to who asked (ServerUDPConn). *)
DatagramsKept ==
  /\ part = "packets" => PacketStream!DatagramsKept
  /\ part = "socks5udp" => Socks5UDP!DatagramsKept

(* The two ends of a lazily encrypted connection switch at the same byte   *)
(* (tls_lazy.go, GetTlsRecordNextIndex).                                   *)
SwitchedAtOnce == part = "lazy" => TlsLazy!SwitchedAtOnce

(* What was read is what arrives, once and in order: a relay that changes  *)
(* to the connections below its layers never does so too early or too late *)
(* (TryCopy, TryReadFrom_withSplice), and a frame that is read in pieces   *)
(* loses nothing (Read of ws.Conn, aeadReader and the others); and the     *)
(* records of a copied handshake stay apart from the tunnel that follows   *)
(* (shadowTls2, CopyTls12Handshake).                                       *)
StreamKept ==
  /\ part = "copy" => Copy!StreamKept
  /\ part = "frames" => Frames!StreamKept
  /\ part = "shadow" => ShadowTls!StreamKept
===============================================================================
