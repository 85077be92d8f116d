------------------------------- MODULE Inbound -------------------------------
(***************************************************************************)
(* What happens to one accepted connection, from ListenSer to the end of   *)
(* the relay: the handshakes of the layers below the proxy protocol, the   *)
(* sub-connections a multiplexing layer makes of it, the handshake of the  *)
(* proxy server, the fallback, the first payload, the dialing and the      *)
(* relay.  Base is the accepted connection and Subs are the handlers, one  *)
(* goroutine each.  A handler works on a connection: Base itself, its own  *)
(* sub-connection, or its own UDP socket; a connection of a handler        *)
(* carries the name of the handler.                                        *)
(*                                                                         *)
(* Data is a sequence of chunks: chunk 0 of a connection holds the header  *)
(* of the proxy protocol, or is the whole first read of whoever reads it   *)
(* first.  tls lazy mode is left out; so are the sessions of the client's  *)
(* own inner mux (module InnerMux).                                        *)
(***************************************************************************)
EXTENDS Naturals, Sequences, FiniteSets

CONSTANTS
  Subs,      (* the handlers                                        *)
  Base,      (* the accepted connection, baseLocalConn              *)
  None,      (* the nil pointer                                     *)
  Carriers,  (* the kinds of listener: a subset of AllCarriers      *)
  Chunks     (* bound: the number of chunks a client sends, minus 1 *)

(* plain: one handler per accepted connection (with or without tls, ws).   *)
(* grpc:  a handler per http2 stream, all made from one captured iics.     *)
(* quic:  a handler per stream, each with an iics of its own and no base.  *)
(* smux:  a handler per stream of the server's inner mux.                  *)
(* self:  tproxy, tun and shadowsocks, which come with a known target.     *)
AllCarriers == {"plain", "grpc", "quic", "smux", "self"}

Conns == Subs \cup {Base}

ASSUME SubsAssumption == IsFiniteSet(Subs)
ASSUME CarriersAssumption == Carriers \subseteq AllCarriers
ASSUME ConnsAssumption == None \notin Conns /\ Base \notin Subs
ASSUME ChunksAssumption == Chunks \in Nat

VARIABLES
  carrier,   (* the kind of listener                                       *)
  stage,     (* of the goroutine that accepted Base                        *)
  captured,  (* iics.wrappedConn of the iics the grpc callbacks share      *)
  h,         (* the handlers, each with its copy of iics: see Handler      *)
  open,      (* the inbound connections this process has not closed        *)
  read,      (* how many chunks have been taken from each of them          *)
  active     (* GlobalInfo.ActiveConnectionCount                           *)

vars == <<carrier, stage, captured, h, open, read, active>>

PCs == {"idle", "handoff", "handshake", "assoc", "fallback", "h2", "payload",
        "dial", "relay", "done"}

(* udp: datagrams carried by the connection; assoc: by a socket of its own, *)
(* which the socks5 server makes.                                           *)
Kinds == {"none", "tcp", "udp", "assoc"}

Ends == {"off", "on", "ended"}

Chunk == Conns \X (0..Chunks)

Handler == [
  pc      : PCs,
  wrapped : Conns \cup {None},  (* iics.wrappedConn                           *)
  lc      : Conns \cup {None},  (* wlc or udp_wlc                             *)
  kind    : Kinds,
  inner   : BOOLEAN,            (* iics.isInner                               *)
  fb      : BOOLEAN,            (* it is a fallback                           *)
  held    : Seq(Chunk),         (* fallbackFirstBuffer, then firstPayload     *)
  mux     : BOOLEAN,            (* the client that failed has an inner mux    *)
  cone    : BOOLEAN,            (* both ends of the relay are fullcone        *)
  out     : {"none", "open", "closed"},  (* the outbound connection           *)
  up      : Seq(Chunk),         (* what was written to it                     *)
  failed  : BOOLEAN,            (* dialClient has failed                      *)
  upDir   : Ends,               (* the goroutine that copies lc to out        *)
  downDir : Ends ]              (* the handler itself, copying out to lc      *)

TypeOK ==
  /\ carrier \in Carriers
  /\ stage \in {"setup", "serving", "over"}
  /\ captured \in Conns \cup {None}
  /\ h \in [Subs -> Handler]
  /\ open \subseteq Conns
  /\ read \in [Conns -> 0..(Chunks + 1)]
  /\ active \in 0..Cardinality(Subs)

Idle ==
  [pc |-> "idle", wrapped |-> None, lc |-> None, kind |-> "none", inner |-> FALSE,
   fb |-> FALSE, held |-> <<>>, mux |-> FALSE, cone |-> FALSE, out |-> "none",
   up |-> <<>>, failed |-> FALSE, upDir |-> "off", downDir |-> "off"]

Init ==
  /\ carrier \in Carriers
  /\ stage = "setup"
  /\ captured = None
  /\ h = [s \in Subs |-> Idle]
  /\ open = {Base}
  /\ read = [c \in Conns |-> 0]
  /\ active = 0

-----------------------------------------------------------------------------
Shared == carrier \in {"grpc", "smux"}

(* A stream ends with the connection that carries it. *)
Alive(c) == c \in open /\ (Shared => Base \in open)

CanRead(c) == Alive(c) /\ read[c] <= Chunks

Take(c) == read' = [read EXCEPT ![c] = @ + 1]

NextOf(c) == <<<<c, read[c]>>>>

At(s, l) == h[s].pc = l

Becomes(s, n) == h' = [h EXCEPT ![s] = n]

(* The connections that the proxy server's handshake reads. *)
Source(s) == IF carrier = "smux" THEN s ELSE h[s].wrapped

(* Hang up: the handler closes connection c and returns. *)
HangUp(s, c) ==
  /\ open' = open \ {c}
  /\ Becomes(s, [h[s] EXCEPT !.pc = "done"])

-----------------------------------------------------------------------------
(* handleNewIncomeConnection and what stands for it in the other listeners. *)

AcceptPlain(s) ==
  /\ carrier = "plain"
  /\ stage = "setup"
  /\ stage' = "over"
  /\ \/ /\ Becomes(s, [h[s] EXCEPT !.pc = "handshake", !.wrapped = Base])
        /\ UNCHANGED read
     \/ /\ Becomes(s, [h[s] EXCEPT !.pc = "fallback", !.wrapped = Base,
                                   !.fb = TRUE, !.held = NextOf(Base)])
        /\ Take(Base)
  /\ UNCHANGED <<carrier, captured, open, active>>

(* A failed tls or ws handshake closes the connection, except when shadow  *)
(* tls has answered ErrDoNotClose and goes on copying it elsewhere.        *)
RefusePlain ==
  /\ carrier = "plain"
  /\ stage = "setup"
  /\ stage' = "over"
  /\ open' \in {open, open \ {Base}}
  /\ UNCHANGED <<carrier, captured, h, read, active>>

(* StartHandle of grpcSimple: what the first bytes of the connection are.  *)
(* Reading them may fail, and the connection is then left open.            *)
GrpcPreface ==
  /\ carrier = "grpc"
  /\ stage = "setup"
  /\ stage' \in {"serving", "over"}
  /\ UNCHANGED <<carrier, captured, h, open, read, active>>

GrpcNotH2(s) ==
  /\ carrier = "grpc"
  /\ stage = "setup"
  /\ stage' = "over"
  /\ Becomes(s, [h[s] EXCEPT !.pc = "fallback", !.wrapped = Base, !.fb = TRUE,
                             !.held = NextOf(Base)])
  /\ Take(Base)
  /\ UNCHANGED <<carrier, captured, open, active>>

(* The callback for a new stream stores it in the captured iics and then   *)
(* passes that iics on by value; streams are served concurrently.          *)
GrpcStream(s) ==
  /\ carrier = "grpc"
  /\ stage = "serving"
  /\ At(s, "idle")
  /\ Base \in open
  /\ open' = open \cup {s}
  /\ captured' = s
  /\ Becomes(s, [h[s] EXCEPT !.pc = "handoff"])
  /\ UNCHANGED <<carrier, stage, read, active>>

GrpcHandoff(s) ==
  /\ At(s, "handoff")
  /\ Becomes(s, [h[s] EXCEPT !.pc = "handshake", !.wrapped = captured])
  /\ UNCHANGED <<carrier, stage, captured, open, read, active>>

(* A stream with a wrong path gets a copy of the iics before the write. *)
GrpcWrongPath(s) ==
  /\ carrier = "grpc"
  /\ stage = "serving"
  /\ At(s, "idle")
  /\ Base \in open
  /\ open' = open \cup {s}
  /\ Becomes(s, [h[s] EXCEPT !.pc = "h2", !.wrapped = s, !.fb = TRUE])
  /\ UNCHANGED <<carrier, stage, captured, read, active>>

(* The outer handshake of an inner mux has already been made: it returned  *)
(* ErrHandled and left a loop behind that accepts the streams.             *)
SmuxServe ==
  /\ carrier = "smux"
  /\ stage = "setup"
  /\ stage' = "serving"
  /\ UNCHANGED <<carrier, captured, h, open, read, active>>

SmuxStream(s) ==
  /\ carrier = "smux"
  /\ stage = "serving"
  /\ At(s, "idle")
  /\ Base \in open
  /\ open' = open \cup {s}
  /\ Becomes(s, [h[s] EXCEPT !.pc = "handshake", !.wrapped = Base])
  /\ UNCHANGED <<carrier, stage, captured, read, active>>

(* The handlers of these two listeners share nothing: one stands for all.  *)
QuicStream(s) ==
  /\ carrier = "quic"
  /\ stage = "setup"
  /\ stage' = "over"
  /\ open' = open \cup {s}
  /\ Becomes(s, [h[s] EXCEPT !.pc = "handshake", !.wrapped = s])
  /\ UNCHANGED <<carrier, captured, read, active>>

(* The chunk of a self listener that would hold the header was consumed by *)
(* the listener, which knows the target from it or from the kernel.        *)
SelfRequest(s) ==
  /\ carrier = "self"
  /\ stage = "setup"
  /\ stage' = "over"
  /\ open' = open \cup {s}
  /\ \/ Becomes(s, [h[s] EXCEPT !.pc = "payload", !.wrapped = s, !.lc = s,
                                !.kind = "tcp"])
     \/ Becomes(s, [h[s] EXCEPT !.pc = "payload", !.lc = s, !.kind = "udp"])
  /\ Take(s)
  /\ UNCHANGED <<carrier, captured, active>>

(* ServeConn of http2 returns, or AcceptStream of smux fails: the carrier  *)
(* is closed.                                                              *)
ServeEnds ==
  /\ stage = "serving"
  /\ stage' = "over"
  /\ open' = open \ {Base}
  /\ UNCHANGED <<carrier, captured, h, read, active>>

-----------------------------------------------------------------------------
(* handshakeInserver. *)

HandshakeOk(s) ==
  /\ At(s, "handshake")
  /\ CanRead(Source(s))
  /\ Take(Source(s))
  /\ \/ /\ \E k \in {"tcp", "udp"} :
             Becomes(s, [h[s] EXCEPT !.pc = "payload", !.lc = Source(s),
                                     !.kind = k, !.inner = (carrier = "smux")])
        /\ UNCHANGED open
     \/ /\ carrier = "plain"
        /\ Becomes(s, [h[s] EXCEPT !.pc = "assoc", !.lc = s, !.kind = "assoc"])
        /\ open' = open \cup {s}
  /\ UNCHANGED <<carrier, stage, captured, active>>

(* socks5 returns before the client's first datagram; wait for it.  When   *)
(* it does not come the tcp connection is closed and the socket is not.    *)
AssocFirst(s) ==
  /\ At(s, "assoc")
  /\ \/ /\ CanRead(s)
        /\ Take(s)
        /\ Becomes(s, [h[s] EXCEPT !.pc = "payload", !.held = NextOf(s)])
        /\ UNCHANGED open
     \/ /\ HangUp(s, h[s].wrapped)
        /\ UNCHANGED read
  /\ UNCHANGED <<carrier, stage, captured, active>>

(* Variant that forgets to put what was read into the first buffer.        *)
HandshakeInvalidNoBuffer(s) ==
  /\ At(s, "handshake")
  /\ CanRead(Source(s))
  /\ Take(Source(s))
  /\ Becomes(s, [h[s] EXCEPT !.pc = "fallback", !.fb = TRUE])
  /\ UNCHANGED <<carrier, stage, captured, open, active>>

(* The proxy protocol was not recognised: an ErrBuffer with what was read, *)
(* or any error after an http header that was accepted.                    *)
HandshakeInvalid(s) ==
  /\ At(s, "handshake")
  /\ CanRead(Source(s))
  /\ Take(Source(s))
  /\ Becomes(s, [h[s] EXCEPT !.pc = "fallback", !.fb = TRUE,
                             !.held = NextOf(Source(s))])
  /\ UNCHANGED <<carrier, stage, captured, open, active>>

(* Variant that leaves the closing to the caller, which does not do it.    *)
HandshakeFailedNoClose(s) ==
  /\ At(s, "handshake")
  /\ Becomes(s, [h[s] EXCEPT !.pc = "done"])
  /\ UNCHANGED <<carrier, stage, captured, open, read, active>>

(* Any other error, or a server that cannot fall back: extractFirstBufFromErr *)
(* closes the wrapped connection, which for a stream of smux is its carrier.  *)
HandshakeFailed(s) ==
  /\ At(s, "handshake")
  /\ HangUp(s, h[s].wrapped)
  /\ \/ UNCHANGED read
     \/ CanRead(Source(s)) /\ Take(Source(s))
  /\ UNCHANGED <<carrier, stage, captured, active>>

-----------------------------------------------------------------------------
(* passToOutClient. *)

(* checkfallback: relay to the fallback address, or answer and hang up.    *)
Fallback(s) ==
  /\ At(s, "fallback")
  /\ \/ /\ Becomes(s, [h[s] EXCEPT !.pc = "payload", !.lc = h[s].wrapped,
                                   !.kind = "tcp"])
        /\ UNCHANGED open
     \/ HangUp(s, h[s].wrapped)
  /\ UNCHANGED <<carrier, stage, captured, read, active>>

(* An http2 request is passed on whole by a round trip of its own; with a  *)
(* fallback address or without one, the stream is closed afterwards.       *)
FallbackH2(s) ==
  /\ At(s, "h2")
  /\ HangUp(s, h[s].wrapped)
  /\ UNCHANGED <<carrier, stage, captured, read, active>>

(* The first payload is what is already held, or is read with a deadline:  *)
(* a timeout leaves it empty and any other error hangs up.                 *)
FirstPayload(s) ==
  /\ At(s, "payload")
  /\ \/ /\ h[s].held # <<>>
        /\ Becomes(s, [h[s] EXCEPT !.pc = "dial"])
        /\ UNCHANGED <<open, read>>
     \/ /\ h[s].held = <<>>
        /\ CanRead(h[s].lc)
        /\ Take(h[s].lc)
        /\ Becomes(s, [h[s] EXCEPT !.pc = "dial", !.held = NextOf(h[s].lc)])
        /\ UNCHANGED open
     \/ /\ h[s].held = <<>>
        /\ Alive(h[s].lc)
        /\ Becomes(s, [h[s] EXCEPT !.pc = "dial"])
        /\ UNCHANGED <<open, read>>
     \/ /\ h[s].held = <<>>
        /\ HangUp(s, h[s].lc)
        /\ UNCHANGED read
  /\ UNCHANGED <<carrier, stage, captured, active>>

-----------------------------------------------------------------------------
(* dialClient_andRelay. *)

(* Variant without the exception for tcp over a multiplexing listener.     *)
ClosesBaseAlways(s) ==
  /\ carrier \in {"plain", "grpc", "smux"}
  /\ ~h[s].inner
  /\ h[s].kind \in {"tcp", "udp"}

(* shouldCloseInSerBaseConnWhenFinish && !isInner && baseLocalConn != nil. *)
ClosesBase(s) ==
  /\ carrier \in {"plain", "grpc", "smux"}
  /\ ~h[s].inner
  /\ \/ h[s].kind = "udp"
     \/ h[s].kind = "tcp" /\ carrier # "grpc"

(* The connections its deferred calls close, given HasInnerMux of the client. *)
Deferred(s, mux) ==
  {c \in Conns :
    /\ ~mux
    /\ \/ c = Base /\ ClosesBase(s)
       \/ c = h[s].lc /\ h[s].kind = "tcp"}

(* Routed to reject: the client answers on lc and closes it. *)
Reject(s) ==
  /\ At(s, "dial")
  /\ Becomes(s, [h[s] EXCEPT !.pc = "done", !.failed = TRUE])
  /\ open' = open \ (Deferred(s, FALSE) \cup {h[s].lc})
  /\ UNCHANGED <<carrier, stage, captured, read, active>>

(* Variant that counts the connection out although it was never counted in. *)
DialFailedUncounted(s) ==
  /\ At(s, "dial")
  /\ Becomes(s, [h[s] EXCEPT !.pc = "done", !.failed = TRUE])
  /\ open' = open \ Deferred(s, FALSE)
  /\ active' = active - 1
  /\ UNCHANGED <<carrier, stage, captured, read>>

(* dialClient fails before or after it has an outbound connection, which it *)
(* never closes; a failed DialSubConn of grpc closes the base connection.   *)
DialFailed(s) ==
  /\ At(s, "dial")
  /\ \E mux \in BOOLEAN, o \in {"none", "open"} :
       /\ Becomes(s, [h[s] EXCEPT !.pc = "done", !.failed = TRUE, !.mux = mux,
                                  !.out = o])
       /\ \/ open' = open \ Deferred(s, mux)
          \/ /\ o = "open"
             /\ carrier \in {"plain", "grpc", "smux"}
             /\ open' = open \ (Deferred(s, mux) \cup {Base})
  /\ UNCHANGED <<carrier, stage, captured, read, active>>

(* The outbound proxy handshake, on the inner mux stream if there is one,  *)
(* carries the first payload.                                              *)
DialOk(s) ==
  /\ At(s, "dial")
  /\ \E cone \in BOOLEAN :
       Becomes(s, [h[s] EXCEPT !.pc = "relay",
                               !.cone = (cone /\ h[s].kind # "tcp"),
                               !.out = "open", !.up = h[s].held, !.held = <<>>,
                               !.upDir = "on", !.downDir = "on"])
  /\ active' = active + 1
  /\ UNCHANGED <<carrier, stage, captured, open, read>>

(* Relay and RelayUDP: one goroutine for each direction, each of which     *)
(* closes both connections when it ends, except that a fullcone lc is only *)
(* closed by an error of its own.                                          *)
RelayUp(s) ==
  /\ h[s].upDir = "on"
  /\ h[s].out = "open"
  /\ CanRead(h[s].lc)
  /\ Take(h[s].lc)
  /\ Becomes(s, [h[s] EXCEPT !.up = @ \o NextOf(h[s].lc)])
  /\ UNCHANGED <<carrier, stage, captured, open, active>>

CloseLc(s, lcErr) ==
  open' = IF h[s].cone /\ ~lcErr THEN open ELSE open \ {h[s].lc}

(* Variant of the relay that leaves closing out to the other direction.    *)
RelayUpEndHalf(s) ==
  /\ h[s].upDir = "on"
  /\ Becomes(s, [h[s] EXCEPT !.upDir = "ended"])
  /\ CloseLc(s, TRUE)
  /\ UNCHANGED <<carrier, stage, captured, read, active>>

RelayUpEnd(s) ==
  /\ h[s].upDir = "on"
  /\ Becomes(s, [h[s] EXCEPT !.upDir = "ended", !.out = "closed"])
  /\ \/ /\ CloseLc(s, TRUE)
        /\ UNCHANGED read
     \/ /\ CanRead(h[s].lc)
        /\ Take(h[s].lc)
        /\ CloseLc(s, FALSE)
  /\ UNCHANGED <<carrier, stage, captured, active>>

(* Variant in which the download direction never closes lc. *)
RelayDownEndKeepsLc(s) ==
  /\ h[s].downDir = "on"
  /\ Becomes(s, [h[s] EXCEPT !.downDir = "ended", !.out = "closed"])
  /\ UNCHANGED <<carrier, stage, captured, open, read, active>>

(* Variant in which only the upload direction closes out. *)
RelayDownEndKeepsOut(s) ==
  /\ h[s].downDir = "on"
  /\ Becomes(s, [h[s] EXCEPT !.downDir = "ended"])
  /\ \E lcErr \in BOOLEAN : CloseLc(s, lcErr)
  /\ UNCHANGED <<carrier, stage, captured, read, active>>

RelayDownEnd(s) ==
  /\ h[s].downDir = "on"
  /\ Becomes(s, [h[s] EXCEPT !.downDir = "ended", !.out = "closed"])
  /\ \E lcErr \in BOOLEAN : CloseLc(s, lcErr)
  /\ UNCHANGED <<carrier, stage, captured, read, active>>

(* Variant that counts only the tcp connections out. *)
ReturnCountsTcp(s) ==
  /\ At(s, "relay")
  /\ h[s].downDir = "ended"
  /\ Becomes(s, [h[s] EXCEPT !.pc = "done"])
  /\ \E mux \in BOOLEAN : open' = open \ Deferred(s, mux)
  /\ active' = IF h[s].kind = "tcp" THEN active - 1 ELSE active
  /\ UNCHANGED <<carrier, stage, captured, read>>

(* The relay returns with its download direction; the deferred calls run.  *)
(* Whether the client has an inner mux matters to nothing before them.     *)
Return(s) ==
  /\ At(s, "relay")
  /\ h[s].downDir = "ended"
  /\ Becomes(s, [h[s] EXCEPT !.pc = "done"])
  /\ \E mux \in BOOLEAN : open' = open \ Deferred(s, mux)
  /\ active' = active - 1
  /\ UNCHANGED <<carrier, stage, captured, read>>

-----------------------------------------------------------------------------
Terminated ==
  /\ \A s \in Subs : h[s].pc \in {"idle", "done"} /\ h[s].upDir # "on"
  /\ UNCHANGED vars

Accept(s) ==
  \/ AcceptPlain(s)
  \/ GrpcNotH2(s)
  \/ GrpcStream(s)
  \/ GrpcWrongPath(s)
  \/ QuicStream(s)
  \/ SmuxStream(s)
  \/ SelfRequest(s)

(* Steps bounded by a deadline of this process, or that wait for nothing.  *)
Prompt(s) ==
  \/ GrpcHandoff(s)
  \/ HandshakeOk(s)
  \/ HandshakeInvalid(s)
  \/ HandshakeFailed(s)
  \/ AssocFirst(s)
  \/ Fallback(s)
  \/ FirstPayload(s)
  \/ Return(s)

Dial(s) == Reject(s) \/ DialFailed(s) \/ DialOk(s)

Next ==
  \/ RefusePlain \/ GrpcPreface \/ SmuxServe \/ ServeEnds
  \/ \E s \in Subs :
       \/ Accept(s) \/ Prompt(s) \/ FallbackH2(s) \/ Dial(s)
       \/ RelayUp(s) \/ RelayUpEnd(s) \/ RelayDownEnd(s)
  \/ Terminated

Spec == Init /\ [][Next]_vars

(* A read of a connection that is closed here returns at once, and so does *)
(* the direction that was blocked in it.  Every read before the dialing    *)
(* has a deadline; dialing waits for peers and has no fairness, nor has a  *)
(* relay whose two connections are open.                                   *)
FairSpec ==
  /\ Spec
  /\ \A s \in Subs :
       /\ WF_vars(Prompt(s))
       /\ WF_vars(~Alive(h[s].lc) /\ RelayUpEnd(s))
       /\ WF_vars(h[s].out = "closed" /\ RelayDownEnd(s))

-----------------------------------------------------------------------------
(* Two handlers of a grpc listener may have been given the same stream.    *)
SharesItsConn(s) == \E t \in Subs \ {s} : h[s].lc \in {h[t].wrapped, h[t].lc}

(* The position in lc of the first chunk that belongs to the target.       *)
FirstChunk(s) == IF h[s].fb \/ h[s].kind = "assoc" THEN 0 ELSE 1

(* Whatever the layers in between have read ahead, what is written to the  *)
(* outbound connection is what the client sent, in order, with no gap and  *)
(* nothing twice: all of it for a fallback, and all that follows the       *)
(* header otherwise.  Not so for a stream that two handlers read, nor for  *)
(* the fallback of an inner mux stream, which goes on with the bytes of    *)
(* the carrier (proxy/simplesocks/server.go:41 says it should not happen). *)
PayloadFaithful ==
  \A s \in Subs :
    \/ SharesItsConn(s)
    \/ carrier = "smux" /\ h[s].fb
    \/ \A i \in DOMAIN h[s].up : h[s].up[i] = <<h[s].lc, FirstChunk(s) + i - 1>>

(* A handler that has come to its end has closed the connection it worked  *)
(* on.  The exceptions are the ways to leave it open that the code has:    *)
(* the dialing failed and nothing was deferred, or the relay was fullcone  *)
(* and ended by its outbound side, or socks5 never got a first datagram.   *)
InboundReleased ==
  \A s \in Subs :
    At(s, "done") /\ h[s].upDir # "on" =>
      LET c == IF h[s].lc = None THEN h[s].wrapped ELSE h[s].lc
      IN  \/ ~Alive(c)
          \/ h[s].failed /\ (h[s].mux \/ h[s].kind # "tcp")
          \/ h[s].cone
          \/ h[s].kind = "assoc" /\ h[s].out = "none"

(* An outbound connection outlives its handler only when dialClient failed *)
(* after making it.                                                        *)
OutboundReleased ==
  \A s \in Subs : At(s, "done") /\ h[s].out = "open" => h[s].failed

(* ActiveConnectionCount, which the program shows and hot loading reads,   *)
(* is the number of handlers that are relaying.                            *)
ActiveCounted == active = Cardinality({s \in Subs : At(s, "relay")})

(* The end of one tcp relay does not take the other streams of the carrier *)
(* with it (the comments at main.go:1150 and main.go:1693).                *)
RelayEndSparesCarrier ==
  [][\A s \in Subs :
       /\ Shared
       /\ At(s, "relay")
       /\ h[s].kind = "tcp"
       /\ h[s].lc # Base
       /\ h[s] # h'[s]
       /\ Base \in open
       => Base \in open']_vars

(* Once the upload direction of a relay has ended, the handler ends too.   *)
RelayTornDown ==
  \A s \in Subs : (At(s, "relay") /\ h[s].upDir = "ended") ~> At(s, "done")

(* The other way round, unless lc is left open on purpose: the goroutine   *)
(* of the upload direction does not outlive a relay of tcp.                *)
NoUploadLeftBehind ==
  \A s \in Subs :
    (h[s].kind = "tcp" /\ h[s].downDir = "ended") ~> (h[s].upDir = "ended")

(* iics.go:60: "several incomingInserverConnState may be made, which share *)
(* one baseLocalConn, but whose wrappedConn differ from each other".       *)
SubConnsKeptApart ==
  carrier = "grpc" =>
    \A s, t \in Subs :
      s # t /\ h[s].wrapped \in Subs => h[s].wrapped # h[t].wrapped
=============================================================================
