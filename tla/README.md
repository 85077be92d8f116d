# A verification of verysimple (v2ray_simple)

verysimple is a proxy: it accepts connections, takes the layers of a client's
traffic apart (tls, http header, ws/grpc/quic, proxy protocol, inner mux),
decides where the traffic goes, dials there through as many layers, and relays.
This directory models its concurrent and stateful parts in TLA+, checks them
with TLC on small instances, and proves the central statements with TLAPS.

Paths below are relative to the repository's `src/`.

## 1. Inventory

### 1.1 Connection pipeline: `main.go`, `iics.go`, `proxy/reject.go`

*State.* One `incomingInserverConnState` (iics) per handler, passed by value:
the accepted connection `baseLocalConn`, the connection handed to the proxy
protocol `wrappedConn`, the bytes already read (`fallbackFirstBuffer`, then
`firstPayload`), the flags that decide who closes what. One global counter,
`GlobalInfo.ActiveConnectionCount`.

*Operations.* `ListenSer`, `handleNewIncomeConnection`, `handshakeInserver`,
`passToOutClient` (fallback, first payload, sniffing, DNS, routing),
`dialClient`, `dialClient_andRelay`.

*Hard.* A multiplexing layer makes many handlers of one connection. Bytes are
read ahead by four different layers and must be handed on exactly once. A dozen
error returns have to close the right connections and not the shared ones.

*Correct when* the target gets exactly the client's bytes, every connection is
released, and one stream's end does not hurt another.

### 1.2 Inner mux of a client: `main.go` dialClient/dialInnerProxy, `proxy/base.go`

*State.* `Base.Innermux` (a smux session), the client's mutex.

*Hard.* The mutex covers some accesses to the field and not others; the check
"is there a session" is relied on after the unlock; a failed inner dialing
closes whatever session is in the field and dials again without the lock.

*Correct when* there is one session, it runs over a dialled connection, and the
lock is always given back.

### 1.3 Relay: `netLayer/relay.go`, `netLayer/relay_udp.go`

*State.* Two connections, two goroutines; for `RelayUDP_separate` a map from
addresses to channels with its mutex, and one shared variable `rc`.

*Operations.* `TryCopy` chooses per direction between splice, readv, the
connection's own `ReadFrom` and buffers, and may change its mind once a layer
has become bare.

*Hard.* Closing is the only way one direction stops the other, and fullcone
UDP forbids some of the closings. `rc` is captured by goroutines while the loop
reassigns it. Copying below a layer is right only from the byte on at which the
layer has nothing more to add, to strip or to hand out.

*Correct when* both directions end once one does, every channel is closed, a
datagram goes through the channel of its address, and what is read is what is
written, whichever way it is copied.

### 1.4 Advanced layers: `advLayer/`

* grpcSimple: the server starts a goroutine per http2 stream and calls back
  into the pipeline; the client keeps one cached transport, unsynchronised, and
  waits for the response in a goroutine while a pipe takes what is written.
* quic: the client keeps a pool of connections, counts the streams of each and
  learns the server's limit from the first refusal.
* ws: one connection each, with early data; frames that are read in pieces, and
  a `ReadFrom` that announces one endless frame and then copies below.

### 1.5 UDP connections: `netLayer/msgconn.go`, `udpConn.go`, `udplistener.go`, `pipedeadline.go`

`UDPMsgConn` spawns a socket and a reader for each symmetric peer;
`UDPListener` turns datagrams of one socket into connections with one goroutine
per datagram; `UDPConn` signals its first write by closing a channel, and
`PipeDeadline` its timeouts. shadowsocks and tproxy keep such connections
themselves, in one loop that reads the socket and feeds every client.
*Hard:* check-then-create, closing channels that others send on, a channel that
nobody reads any more.
*Correct when* who is sent to reads, who waits is woken, and Close releases
every socket.

### 1.6 DNS: `netLayer/dns.go`

Cache, policies, one connection with a mutex per server, redialing after a read
error, promotion of a backup when the default server is gone.
*Hard:* a mark read outside the lock that guards what it decides on.

### 1.7 Routing: `netLayer/route.go`, `geoip.go`, `geosite.go`

`CalcuOutTag` returns the tag of the first rule set that matches. Pure.

### 1.8 Machine and hot loading: `machine/`

Start, Stop, hot load and deletion of servers and clients, with a list of
listeners that is addressed by the index of another list, and a map of tags
that routes lead to. Clients and servers are shared and loaded by url
(`proxy/config_url.go`). A tun server changes the routes and the name server of
the system, and has to put them back (`proxy/tun`).
*Correct when* a stopped machine listens for nothing, a tag leads to a client
that is loaded, a url says what the conf said, and the system is as it was.

### 1.9 Proxy protocols: `proxy/*`

vless, trojan, vmess, socks5, socks5http, http, simplesocks, shadowsocks,
dokodemo, tproxy, tun, direct. Each has a server handshake, whose failures are
either "fall back with what I read" or "hang up", a client handshake, and a
framing for UDP. vmess keeps replay filters; socks5 associates UDP lazily.

### 1.10 TLS layer and tls lazy: `tlsLayer/`, `tls_lazy.go`

Records the raw bytes of a tls connection and changes, in the middle of it, to
copying the inner tls stream without encrypting it a second time; two ends that
have to agree on the moment, one of which counts packets where the other counts
records.

### 1.11 Http layer and fallback: `httpLayer/`, `iics.go`

The list of fallbacks, each with up to four conditions, and the search for the
one that fits a request best. Header presets in front of another protocol.

### 1.12 The rest

The parsing of a ClientHello, configuration files, sockets and their options,
the command line, the configuration adapters and most utilities: conversions
and I/O without a protocol of their own. PROJECT.json says of each what is
modelled and what is not.

### 1.13 Interactions

Listeners call `handleNewIncomeConnection` in a goroutine per connection; grpc,
quic and smux call back in a goroutine per stream; `passToOutClient` calls
routing and DNS, which are shared by all; `dialClient` uses the client's mutex,
its inner mux session and its transport pool, shared by all requests that are
routed to it; the relays share nothing but the two connections, and the closing
of these is how goroutines signal each other. The machine starts and stops
listeners and clients while all this goes on, without waiting for it.

## 2. Modules

| module | models | composed of |
| --- | --- | --- |
| `InnerMux` | the inner mux of one client, used by any number of requests | |
| `InnerMux_proofs` | theorems about it | extends `InnerMux` |
| `Inbound` | a listener of one of five kinds and the handlers of its connections, from acceptance to the deferred closes | |
| `Inbound_proofs` | theorems about it | extends `Inbound` |
| `UDPSeparate` | `RelayUDP_separate` with the dialing function that `main.go` gives it | |
| `UDPSeparate_proofs` | theorems about it | extends `UDPSeparate` |
| `QuicPool` | the quic client: its pool of connections, stream counts and learned limit, and `StreamConn.Close` | |
| `QuicPool_proofs` | theorems about it | extends `QuicPool` |
| `UDPListener`, `UDPMsgConn`, `UDPConn` | the udp connections of netLayer, with the read deadline | |
| `SelfListen` | the udp loops of shadowsocks and tproxy, the handlers and relays behind them | |
| `Dns` | `DNSMachine`: cache, exchange, redials, promotion of a backup | |
| `Machine` | the machine's lists of servers, listeners, clients and tags | |
| `Routes`, `Fallback` | `CalcuOutTag`; `CheckFallback`: choices as operators | |
| `AntiReplay` | vmess's tables of authids and sessions | |
| `GrpcClient` | the grpc client: cached transport, handshake goroutine, pipe | |
| `ConfUrl` | a conf, its client or server, its url, and back | |
| `Tun` | what a tun server changes of a linux system | |
| `Headers` | the requests and replies of the proxy protocols, field by field | |
| `Handover` | abstract: what a handshake promises to who reads next | |
| `Handshakes` | the opening of a connection in 18 conversations | extends `Headers`, implements `Handover` |
| `PacketStream` | datagrams in a stream: five formats | |
| `Socks5UDP` | datagrams through a socks5 association | |
| `TlsLazy` | the switch from outer to inner tls | |
| `ShadowTls` | shadowTls 1 and 2 with client, server and fake target | |
| `Copy` | one direction of a relay: `TryCopy` and the layers' `ReadFrom` | |
| `Frames` | the frames of ws, grpc, vmess and shadowTls | |
| `MCInnerMux`, `MCInbound`, `MCUDPSeparate`, `MCQuicPool` | instances for TLC | extend the module |
| `MCUDP`, `MCControl`, `MCWire` | instances of several modules that share no state | instantiate their modules |
| `MCUDP_proofs` | theorems about `UDPListener`, `UDPMsgConn`, `SelfListen` | extends `MCUDP` |
| `MCControl_proofs` | theorems about all the modules of `MCControl` | extends `MCControl` |
| `MCWireOpening_proofs` | theorems about `Handshakes`, `Handover`, `ShadowTls`; the invariant of `PacketStream` | extends `MCWire` |
| `MCWire_proofs` | theorems about `PacketStream`, `Socks5UDP`, `TlsLazy`, `Copy`, `Frames`, and all of `StreamKept` | extends `MCWireOpening_proofs` |

`MCUDP`, `MCControl` and `MCWire` are unions: a variable `part` says which module a behaviour is
about, and the variables of the others keep one value. Their modules are
independent of each other in the code as well, so nothing is lost: the product
of their states would say nothing more. A property of such a run is the
conjunction of what the parts owe under it.

### 2.1 InnerMux

The program counter of a request follows `dialClient`: `lock`, `check`
(`InnerMuxEstablished`), `dial` (everything from the address to the proxy
handshake, one step: only its outcome matters to the session), `get`, `load`
and `store` (`GetClientInnerMuxSession`), `open` (`OpenStream`), `shake` (the
inner proxy), and the three steps of `CloseInnerMuxSession`. `path` says how it
got there, which is what decides about the deferred `Unlock` and about
redialing. A request makes at most one connection, which is named after it, and
two sessions: one over it, and one over the nil that is passed for it on the
reuse path. The latter is stored and found by others like any session until one
of its goroutines dereferences the nil (`NilPanics`). Sessions die at any time
(the peer, the keepalive), and `Base.Stop` closes the one in the field.
`trouble` is a history variable: a session has died or an inner dialing has
failed. `crashed` is a nil dereference: the process is gone.

Every load and store of `Base.Innermux` is a step of its own, because half of
them are made without the mutex; the two loads in `InnerMuxEstablished` are one
step.

### 2.2 Inbound

`carrier` is the kind of listener; the *handlers* `Subs` are goroutines. A
handler is a record: where it is (`pc`), its copy of the iics (`wrapped`,
`inner`, `fb`, `held`) and what the relay has done (`out`, `up`, `upDir`,
`downDir`). Data is abstracted to chunks numbered per connection: the number of
a chunk is all that "in order, no gap, nothing twice" needs. The first chunk of
a connection holds the proxy protocol's header.

| carrier | code |
| --- | --- |
| plain | one handler per accepted connection, with or without tls, header and ws |
| grpc | `StartHandle`; its callback stores the stream in the one captured iics (`captured`) and then passes that iics by value: two steps, as other streams do the same |
| quic | one iics per stream, no base connection |
| smux | the streams of a server's inner mux, after its outer handshake |
| self | tproxy, tun, shadowsocks: the target is known, the handler starts at the first payload |

Handlers of `quic` and `self` listeners share nothing, so one of them stands
for all. Outcomes (a handshake succeeds, falls back or fails; there is a
fallback address or not; the dialing succeeds, fails before or after it has a
connection; the route is `reject`; both ends are fullcone) are
nondeterministic, and each has its own effects. The dialing client's inner mux
decides whether anything is deferred at all; it is chosen where it is first
seen, when the handler returns.

A connection "alive" here means not closed by this process, and, for a stream,
that its carrier is not either.

### 2.3 UDPSeparate

The loop reads a datagram, looks its address up, dials a channel if there is
none, stores it, starts a reader and writes. `rc` is the captured parameter:
the loop assigns it, a reader reads it when it starts and again when it closes,
each in a step of its own. The critical sections on the map are steps. `hash`
is the key a reader deletes. Datagrams are their addresses. The target of a
channel is what `EstablishUDPChannel` is given, which for a handler that holds
a first payload is not the address being dialled for.

### 2.4 QuicPool

A request follows `getCommonConn` (`get`, `dial`, `insert`) and `dialSubConn`
(`open`, then `count` when a stream was opened, or `full?`, `learn?`, `learn`,
`get` again and `mark` when it was refused). The recursion of `dialSubConn` is
the way back from `mark` to `open`; `again` tells which caller `getCommonConn`
returns to. Everything done with `connMapMutex` held is one step.
`knownServerMaxStreamCount`, `redialing` and `isclosed` are read and written
without it, so their tests and assignments are separate steps. The server is
external: it refuses a stream when it counts `MaxStreams` in the connection,
and gives a stream back at some time after the opening (an end may close it at
once); a connection dies at any time. `calls`, `closing` and `leaving` count the
goroutines that close a stream: before the test of `isclosed`, between it and the
assignment, and between that and the decrement of the count, where `CancelRead`
and `CancelWrite` run.

### 2.5 UDP: UDPListener, UDPMsgConn, UDPConn, SelfListen

`UDPListener` has the loop on the socket, a goroutine per datagram (`lookup`,
`create`, `check`, `offer`, `deliver`), `Accept`, the handlers' ends and the
steps of `Close`. The two critical sections on `connMap` are steps, which is
how two datagrams of one peer both find no connection. A read that fails starts
a goroutine too, with the nil sender `None` (`udplistener.go:120`).

`UDPMsgConn` is its symmetric mode: a write looks its socket up, makes one and
starts a reader; the readers put datagrams into one channel, and delete and
close their socket at the end. `closed` and the channel are used without a
lock, so their steps are separate.

`UDPConn` has the pump between socket and channel, writers that close
`clientFirstWriteChan`, any number of closers, and the deadline: `Set` makes a
new channel when the timer has closed the old one.

`SelfListen` has the one loop of shadowsocks or tproxy, the map from senders to
connections, and for each connection the handler and the two goroutines of
`RelayUDP`, whose closing takes it out of the map. What keeps the loop from
blocking for everybody is that each connection in the map has a reader, and so
has one that the loop has found there and not yet sent to: `NoOrphan`.

### 2.6 Control: Dns, Machine, Routes, Fallback, AntiReplay, GrpcClient, ConfUrl, Tun

`Dns`: a query goes from its lookup in the cache to the choice of a server, the
exchange under that connection's mutex, redials, and the deferred part: lock,
promotion, cache. The read-write lock is Go's: who waits to write keeps new
readers out. A promotion moves a connection from one `DnsConn` to another.

`Machine`: each method is a step. The lists are sequences, as they are
addressed by index; a load passes its clients one by one, so a tag leads to the
last of those that have it. Which listens of a load or a start succeed is any
subset, in the order of the list.

`Routes` and `Fallback` have no actions: every list of two rules or entries, and
every target or request, from the sets in `MCControl` is an initial state, and
the invariant compares the code's search with a declarative reading.

`AntiReplay`: the table of authids is read and written in two critical
sections, that of sessions in one; both are cleaned by tickers. The clock
stands still while a handshake is being checked.

`GrpcClient`: the dialing of a request, its handshake goroutine, and the reads,
writes and Close of its user, which may all run at once, with every access to
`cachedTransport`, `shouldClose`, `response` and `err` a step, as nothing locks
them. `sawError` is a history: which calls told the user of an error. `underlay` may be a typed nil: `GetCommonConn` reads the
cached transport twice.

`ConfUrl` compares what is built from a conf (`ConfigCommon`, `InitAdvLayer`,
`PrepareTLS`, `Creator`) with what is built from its url.

`Tun`: routes, device and name server of the system, and the commands, of which
any may fail; a failure stops the list (`ExecCmdList`): `After` is the system
after the first commands of a list. A device that is down or gone has no routes.
What has to be put back is remembered in globals.

### 2.7 Wire: Headers, Handshakes, PacketStream, Socks5UDP, TlsLazy, ShadowTls, Copy, Frames

A stream is a sequence of tokens. One token stands for one field, whatever its
length; it has arrived or not. Writers write in pieces, the network delivers
pieces, readers read with buffers: every cut is a step.

`Headers` has for each protocol what one end writes and what the other expects,
in its order, with the verdict on each field that is short or wrong (fallback,
refusal, unnoticed). `Handshakes` runs these tables: reads in one go, by line,
in full, or as an upgrade; it keeps what was read too much and what an earlier
read left in the buffer. Tokens are named by their places in the stream, so
"from the right byte on, once" is an equality. At most one value is wrong.

`PacketStream`: datagrams of several downlinks, written under `lc_mutex`, some
in two writes; the reader is a `bufio.Reader`. `Socks5UDP`: association,
requests and replies with their headers; datagrams are lost and overtake.

`TlsLazy` is one direction between the two ends: the sniffers' counts, the
command, the Recorder's last buffer. A packet is written by the outer tls as one
record or several (`WriteRecord`), and `cut` remembers whether any was. `ShadowTls` has the client, the real
target and both copying loops, the hash in a goroutine of its own.

`Copy`: a reader and a writer, each of one of several layers, and the way
`TryCopy` takes. The far end is part of it: `inside` is how much of a websocket
frame is still to come to it, and what is written outside of a frame, or with a
head where data was announced, is noise there. A read has the room of its
caller's buffer (`PacketRoom`, or `CopyRoom` for io.Copy), which matters to the
first read of vless 0 only (`lost`). `Frames`: five framings, with
what each reader remembers of an unfinished frame. A writer that chunks goes
through its loop one round at a time (`toCut`); the checksum of shadowTls is one
token at the beginning of its first frame.

`Handshakes!Contract` is `INSTANCE Handover WITH ...`: the detailed model
implements the abstract promise, that the layer above reads the body and a
fallback reads the whole, from the first byte on. Where the code breaks the
promise the mapping raises `lossy`; `Lossy` names these places, and section 5
says what they are.

## 3. Runs

| run | instance | shows |
| --- | --- | --- |
| `innermux` | 3 requests | types; the lock is held exactly from the check to the end of a first dial, and returned; until the first failure there is one session, over a dialled connection; who waits for the lock waits for a peer |
| `innermux_one` (violation) | 3 requests | after a failed inner dialing there can be two open sessions |
| `inbound` | 2 handlers, all five carriers, 3 chunks per connection | payloads, releases, the counter, streams spared, both directions of a relay end |
| `inbound_grpc` (violation) | 2 handlers, grpc | two handlers on one stream |
| `udpseparate` | 2 addresses, 3 channels | without a first payload every datagram goes to a channel of its address; a nil channel only after a failed dialing; until something fails the end closes everything and the readers end |
| `udpseparate_target` (violation) | 2 addresses, 3 channels | with a first payload a datagram for the second address goes to the first |
| `quicpool` | 2 requests, 3 connections, 1 stream in each, 2 calls of Close | no live connection is lost; none looks fuller than its streams in use and those being closed; every request ends |
| `quicpool_full` (violation) | the same | a refused request is given the same connection again |
| `udp` | 2 peers, 3 datagrams, channels of capacity 1; 2 addresses, 2 writes; 2 writers, 1 closer, 2 deadlines; 1 sender, 3 datagrams | a connection that can hold a datagram was handed out, or is read; channels are closed under their senders by Close alone; no two addresses share a socket; Close releases; a deadline wakes |
| `control` | see the bounds below | one exchange at a time on a dns connection; a lost default server is replaced; every query ends; stopped means closed and restored; tags lead to loaded clients; a vmess header is taken once; the first rule that is met and the fallback that fits best; no grpc transport of whose loss a Write has told for a later request; a url keeps what it can say |
| `control_delete` (violation) | the same | deleting a server closes another one's listener |
| `wire` | see the bounds below | the refinement of `Handover`; requests are understood and wrong ones not taken; datagrams keep their bytes, order and addresses; tls lazy switches at one byte; what is copied, framed or passed through shadowTls comes out once and in order |

### Bounds

*innermux, inbound, udpseparate, quicpool.* Three requests are what it takes
for one to dial, one to reuse the session and fail, and one to dial while the
second redials. Two handlers are enough for what handlers do to each other: all
interference is pairwise, through the captured iics, the carrier and the
counter. `Chunks = 2` gives a header, a chunk that is read ahead and one that is
relayed. Two addresses and three channels give every order of a first channel,
a second one and a dialing again after either failed. With one stream in a
connection two requests fill and refuse each other at once; three connections
let each request dial, be refused, and dial again, and two calls of Close are
the two directions of a relay.

*udp.* Capacities of 100, 20, 50 and 5 in the code are 1: a channel is full
after one datagram and blocks the second. Three datagrams of two peers give two
that race for one connection and one that overtakes. The relays have one writer
and one reader for a `UDPMsgConn`. In `SelfListen` one sender with three
datagrams has a connection made, closed and made again under its loop.

*control.* Two queries, the default server and one backup, so that both queries
meet the lost server and one of them its successor; `MaxRecursion` is 1 instead
of 2. Cache entries live for ever or expire at any time; the address types are
tried in the orders 6 and 40. Two addresses, one tag, three loads and two
starts: a load after a failed listen, and after a stop. One header on three
connections: a replay while the first is being checked and one after its
entries expired; times are a few units with the code's order
(`MaxTimeGap`, `AuthidDuration` < `SessionDuration`, and a clock that outlasts
all). Two grpc requests (three were checked once, 4.7 million states). Two
rules and two fallback entries, in every combination of their conditions: the
searches compare entries pairwise. Confs with up to three fields given, every
choice of them: what a field of a url is read from depends on two others at
most. A tun server is started up to three times.

*wire.* Three tokens of data behind each header, of which one may come with the
header and one later; `ReadMax = 14` is trojan's buffer, a little more than its
header. Two downlinks with a datagram each of up to two tokens. The limits of
tls lazy are 2 packets and 3 records (8 and 50 in the code), a stream of three
inner records each way, packets of any number of tokens and records of any part of
a packet. Copies have five tokens in buffers of two and two
buffers for a readv, so that a read is short, full, and continued; io.Copy has
room for two of them, less than may come with a reply. Frames hold
up to two of four tokens and are read with buffers of one to three; a counter
of nonces wraps after two. Socks5 has two sources, two requests and one answer.
One token fits behind the checksum of shadowTls, so that
buffers of one are merged wrong and buffers of two are not. ShadowTls keeps its real limits (3 records of data, 8 and 6 records) with up to
four records of data and one ticket.

### Fairness

Goroutines that do not wait for anything are run by the scheduler: weak
fairness on those steps. Reads before the dialing have deadlines in the code
(the first payload, the handshakes). Nothing makes a peer answer, so dialing,
inner handshakes and an open relay have no fairness; a direction of a relay is
fair only once a connection it uses has been closed here. A stream of a closed
channel is read with an error, so a reader is fair once its channel is closed.
`FallbackH2` waits for another server and has none. The dialing of a quic
connection is fair, as `HandshakeIdleTimeout` bounds it, and `OpenStream` does
not block; nobody has to close a stream or give one back.

In `udp` the steps of the pump, the timer, the reader, the closers and of a
write that has begun are fair: goroutines that wait for channels and timers of
this process only. Nobody has to call Close, Write or Set. In `control` the
steps of a query are fair: an exchange is bounded by the 4 seconds of
miekg/dns (an exchange that fails is one of its outcomes), and a dialing by
the dialer's timeout. `wire` has safety properties only: a peer may stop at any byte.

### Deadlock

It is checked in the runs of `InnerMux`, `Inbound`, `UDPSeparate` and
`QuicPool`, where the ends that are meant are the `Terminated` actions. `MCUDP`,
`MCControl` and `MCWire` say `CHECK_DEADLOCK FALSE`: a machine may be left alone,
a conversation may stop at any byte, and `Routes`, `Fallback` and `ConfUrl` take
no step at all. What must not get stuck there is said by `Released`,
`DeadlineWakes`, `NoOrphan` and `QueryEnds`.

### Type invariants

`TypeOK` is checked by `innermux`, `udpseparate` and `quicpool` and proved for
these modules and for `Inbound`. `Dns`, `Machine`, `AntiReplay` and the udp
modules state theirs; TLC finds them true on the instances of this section, but
the configurations do not list them, as they say little: the other invariants
would fail first. The proofs about these modules start from types of their own
(`ReplayTypes`, `DnsTypes`, `ListenerTypes` and so on), which hold for constants
of any size.

## 4. Proofs

Every theorem is about `Spec` and holds for any values of the constants. The
assumptions are named, in the module that declares the constants, and TLC
evaluates them in the runs:

| assumption | what it says |
| --- | --- |
| `NoneAssumption` of the other modules, `NamesAssumption`, `DownlinksAssumption`, `TagsAssumption`, `RequestsAssumption` of `MCControl`, parts of `ConnsAssumption`, `RcsAssumption` and `ServersAssumption` | nil, or a fixed name, is not the name of a request, a connection, an address, a tag or a server |
| `FirstAssumption`, the rest of `RcsAssumption` | the first address and the first channel are among the addresses and channels |
| `NoneAssumption` of `MCControl` | `None` is no number, no string and no set of http headers. `Words` is `STRING` with the strings of the instance named once more: the installed provers do not know that `"tcp"` is a string |
| `CarriersAssumption`, `FormatsAssumption` | the kinds of listener and the formats of datagrams are those of the code |
| `HandshakesAssumption` | the conversations are those of the tables of `Headers`; at least one token of data follows a request |
| `ChunksAssumption`, `DataAssumption`, `ClosersAssumption`, `MaxStreamsAssumption`, `TimesAssumption` | bounds and durations are natural numbers |
| `CopyAssumption` | there is something to copy; the buffers of a readv are counted |
| `FramesAssumption` | sizes are natural numbers; a counter has a value; the checksum of shadowTls and what is merged behind it are one frame, as 16 bytes and 16384 are |
| `NumbersAssumption` | datagrams, writes and arrivals are numbered, as the code has an order of them |
| `SubsAssumption`, `AddrsAssumption`, `RequestsAssumption` of `QuicPool` | there are finitely many handlers, addresses or requests: they are counted, or listed |

No theorem bounds how many of anything there are: requests, handlers,
datagrams, connections, records, commands, rules, tokens of data are as many as
one likes. The exceptions say so: one direction of one tls lazy connection, one
conversation at a time.

### `InnerMux_proofs`

* `TypeCorrect`, `LockSafe`: `LockDiscipline` is inductive over typed states.
* `OneSession`: from `HealthyUntilTrouble`. Until the first failure nobody is on
  the failing paths; a first dial keeps the field empty up to its store because
  it holds the lock; from then on the field is never cleared, so every later
  request reuses it. `LockDiscipline` is used to exclude a second first dial.

### `Inbound_proofs`

A step of one handler is first shown to be an *advance* of its record
(`HandlerAdvances`): what the record may become, and what that does to the
relations below. The invariants are then proved about advances and not about
the code's steps again.

* `OutboundIsReleased`, `RelaySparesCarrier`, `TypeCorrect`: from `IControl`:
  `Fits` says at each place of the code what a handler has: whose connection it
  works on, whether it has read ahead, how far the relay is. That the end of a
  relay spares the carrier needs the part of it about smux: who relays a stream
  has the stream, and not the carrier, to close.
* `ActiveIsCounted`: the count is the cardinality of the handlers that relay;
  it needs that the handlers are finitely many (`SubsAssumption`).
* `InboundIsReleased`: from `IClosed`: a direction that ended has closed the
  inbound connection (`Ended`), a handler that never relayed has dropped it
  (`Dropped`), and a connection that is closed is not opened again, as only a
  handler that has not begun makes one of its name (`Named`).
* `PayloadIsFaithful`: from `IHave`: what was read of a connection is what the
  handler holds and has passed on, for the connections it has to itself, and
  what nobody has to do with was not read. The grpc callbacks, which share one
  iics, are why it speaks of these only.

### `UDPSeparate_proofs`

* `TypeCorrect`: `LoopHasAddr` and `LoopHasRc` of `TypeOK` say that the loop knows
  its address and channel where it uses them.
* `OwnTargetSafe`: from `MapOnTarget`: each channel in the map, and the one the
  loop is about to store or write to, was established for its address. It uses
  that a dialled channel is fresh.
* `NilSafe`: inductive over typed states.
* `NoneLeft`: from `OpenIsMapped` (an open channel is in the map or just
  dialled), `DialledIsAbsent` (storing overwrites nothing) and
  `ReaderLeavesInTrouble` (only failures take channels out of the map).

### `QuicPool_proofs`

* `TypeCorrect`: typing needs `HasConn`, `CloseBudget`, `FlaggedFirst` and
  `ClosedAfterOpened` (only a stream that was returned is closed).
* `NeverForgotten`: inductive over typed states: trimming takes dead
  connections only, and a new map is made only for an empty one.
* `CountIsNoOverestimate`: inductive over typed states, by cardinalities. The
  count grows when a stream comes into use. Between its flag and its decrement a
  stream is no longer in use and still counted, so the bound is the streams in
  use and those that are leaving; a stream is out of the bound with the last of
  its `Close` calls, each of which takes one from the count.

### `MCUDP_proofs`

* `CrashNeedsClose`, and `NobodyIsOrphaned` for `UDPListener`: a crash comes from
  a channel that Close has closed or from the nil sender of a failed read; from
  `ListenerInv`: whoever will send to a connection, or has sent to it, knows one
  that `Accept` returned or will return (`ListenerReach`). That two goroutines
  make a connection for one peer does not break it: the one that is overwritten
  in the map is still in the queue of `Accept`.
* `SocketsAreNotShared`: a socket has the number of the write that made it;
  writes come one after the other (`OneAfterTheOther`), so one that has not put
  its socket into the map finds none there that has it (`OwnSockets`).
* `NobodyIsOrphaned` for `SelfListen`: from `LoopInv` (what the loop is doing with
  the connection it has just made), `HandlerInv` (how far the handler and the
  goroutines of its relay are), `MapInv` (a connection in the map has a handler,
  or is about to get one or to leave) and `FoundInv` (what the loop has found
  had a handler). Between finding a connection and sending to it the loop holds
  one that may have left the map: hence the second part of the property, and
  `FoundInv`.

### `MCControl_proofs`

* `HeadersAreTakenOnce`: a header is checked at one moment of the clock
  (`CheckedInTime`), and what was accepted is in the table of sessions for as
  long as a session is remembered (`Remembered`).
* `ConnsAreNotShared`, `BackupsArePromoted`: nobody moves a `dns.Conn` while a
  query uses one, so who exchanges has the mutex that belongs to its connection
  (`UsesOwn`, `Holding`). The read-write lock is why: a promotion waits for the
  queries to leave.
* `FailedTransportsGo`: a transport has the number of the request that made it,
  which is past its dialing (`MadeBefore`); an error is known when the pipe is
  closed with it (`ErrorsKnown`), and a Write that told of it has cleared what it
  came from (`Told`), whatever the reads and the Close of the same request do.
* `TagsLeadToLoaded`: `Routed`: a tag leads to a client of the list that has this
  tag. Deleting by index needs that the other tags lead to other clients, which
  follows from the tags being different.
* `StopLeavesNothing`: for `Machine` from `Closable`: every listener is in the
  list that `Stop` goes through, also after a failed listen. For `Tun` from
  `Untroubled`: while no command failed, the device is held exactly while the
  server runs, and only then does the system differ from what it was. The lists
  of commands are run by a recursive function; `AfterEach` unfolds it for the
  lengths the code has.

* `RoutesAreSound` is stated of any sequence of rules and any target, any sequence
  of entries and any request, whatever `Init` chooses; `RoutesOfSpec` is its
  consequence for `Spec`. A target is in the set of a rule exactly when it meets the rule
  (`InSetOfRule`): `CalcuOutTag`'s early returns say the same as the declarative
  reading. For any list of entries and any request, `TestAllSubSets` finds a part
  of the request's conditions that comes before all others; a set that comes
  before another is not a part of it, as it is no smaller, so an entry that asks
  for more is tried first. `SeenFits` and `FittingSeen` say that what the search
  sees of an entry is what it asks for, unless `Overlooked` names it.
* `UrlsKeepConfs`: the run gives up to three fields of a conf. The theorem is
  stated of confs with any combination of them (`Typed` and `OfKind` say only
  which values a field may have, and which a dial or a listen has), `UrlsOfSpec`
  of the specification. It goes field by field: what is built from the conf
  (`BuiltIs`), what the url makes of it (`CopyIs`) and what is built from that.

### `MCWireOpening_proofs`

`OpeningInv` is the inductive invariant behind both promises of a handshake:

| part | says | why it is needed |
| --- | --- | --- |
| `OpeningTypes` | how far writer, reader and verdict are | the reader is never ahead of the writer |
| `InTurn` | who waits for an answer writes nothing before it | so a read of one round cannot reach into the next |
| `Reading` | what the reader holds before its verdict, one line for each way of reading | an upgrade, trojan and a vmess reply read on, a header preset and socks5http hand what they read to the protocol behind them |
| `Handing` | what is out, what is left over, and what is still on the network are, one behind the other, what is due | what is left over is what the layer above reads first |
| `WrongAhead` | a wrong value is in a round yet to be read, or was objected to | a wrong value of the second round passes the first |
| `Understood` | a right request is not refused | |

* `RequestsUnderstood`: from `WrongAhead` and `Understood`. Which fields a table
  has, and at which place of the stream they are, is proved for each of the
  eighteen conversations, for any amount of data behind them.
* `HandshakesImplementHandover`: the refinement, step by step. The first state
  is one of the contract (`StartsAsDue`); a write is its write, or nothing for
  the client of shadowsocks (`WritesAsDue`); a read is its judgement, or nothing,
  or leaves it where `Lossy` says so (`ReadsAsDue`); what is given on is what is
  due next and was written (`GivesAsDue`, from `Handing`). `StepsAsDue` puts them
  together. One state is not what `Handing` says of the others: a ws upgrade that
  is refused after it has read all that was written has nothing left to give
  (`Drained`), and its client sends nothing more.
* `HandshakesStayApart`: `StreamKept` of `ShadowTls`, from `ShadowInv`.

  For our own clients that is `OwnInv`, as long as no ticket of TLS 1.3 was sent.
  What the client and what the target will ever write is settled once version,
  flight and certificate are (`UpStream`, `DownStream`), so each queue is a
  stretch of one of the two (`OwnStreams`), and where it begins and ends is what
  has to be kept:

  | part | says | why it is needed |
  | --- | --- | --- |
  | `OwnTarget` | the target gets the handshake and nothing behind it, and has answered what it has seen | what is passed to the client is bounded by what the client has sent |
  | `OwnClient` | how far the client is, by what it has sent and read | it sends its checksum only after the last record of the handshake |
  | `OwnSecond` | version 2: the hash has what was taken from the target, the client has it or is about to | with the above, the checksum that arrives is the one the server has |
  | `OwnFirst` | version 1: each direction is where the count of its records says | it leaves the handshake at its last record |

  For ordinary clients it is `PassingInv`: no record of theirs is a checksum, so
  the connection is never taken over and the target never closed; what the
  HashWriter has in its hands belongs between what is on its way to the client
  and what was not read from the target. And `OtherCounts`: without a certificate
  they have at most four records before their data, so that the copier does not
  count nine before the fourth record of data.

### `MCWire_proofs`

* `DatagramsAreKept`: for `PacketStream` from `PacketInv` (which is defined in
  `MCWireOpening_proofs`). What the reader has of
  the current datagram, its buffer, the network and what the holder of
  `lc_mutex` has yet to write are, one behind the other, the datagrams that were
  not read, each in one piece (`Woven`). To step over a datagram it needs that
  no head of a format is the beginning of another (`NoHeadGoesOn`), proved for
  each of the five formats; and that only the holder of the lock owes a second
  write (`OwedByHolder`). For `Socks5UDP` from `SocksInv`: a datagram under way
  is that of the request or reply whose number it has.
* `EndsSwitchTogether`: from `LazyInv`. What has not come out of the receiver is
  whole records, then the one of the command, then bare bytes (`Laid`), and what
  the outer tls has yet to write of a packet comes behind them (`Pending`). While
  no packet was cut the two sniffers count the same (`Counted`, `Synced`), so the
  receiver still sniffs when it meets the command: it misses one only when a
  packet was cut. Once one was, their counts have nothing to do with each other,
  and what is left (`Apart`) is enough for the order. When the last read of the
  raw connection begins with the record of the command, it is all that is left
  to read (`LastIsLeft`).

* `BytesKeepTheirOrder`: `StreamKept` as the run has it; for `ShadowTls` it is
  `HandshakesStayApart`. For `Copy` from `CopyInv`: what the far end has is what it was due, one piece after
  the other; the ways below the layers are taken only when reader and writer
  have nothing more to add, strip or hand out (`ReadsBelow`, `WritesBelow`); a
  websocket frame is open only under the endless head (`FrameOpen`); and only
  io.Copy to a writer without a proxy layer has too little room for what comes
  with a reply (`Losing`), after which the order is given up. For `Frames`
  from `FramesInv`: what is handed out, left over, delivered, in flight and still
  to be cut are, one behind the other, the tokens in their order, each in a frame
  whose head says its length (`FramesRead`), or in a record whose nonce is the
  one the reader has come to (`RecordsRead`). A frame may have been cut anywhere
  by the network, so that the first thing delivered is a head exactly when the
  reader knows of no rest.

### What the proofs changed in the models

* `fit'` in `Handshakes` was a CASE of which two guards could hold at once, for
  a read that completes a round an earlier one had cut. Which arm applies is left
  open by TLA+, and TLC took the first. The cases exclude each other now.
  The same was true of `Counted` in `ShadowTls`, for a record at two limits, as one
  of another type behind the change of ciphers; it asks in the order of the code
  now.
* `TestAllSubSets` in `Fallback` quantified over `SUBSET condition \ {{}}`, two
  operators of the same precedence, which TLC and the proof system read in two
  ways. It has its parentheses now.
* Folds, searches and minima in `Handshakes` became `Upto`, which goes through
  the at most three rounds there are, `Early` and `Objection`; and `@@` in
  `ConfUrl` became `Joint`. The first would have needed an induction over data,
  the second is an operator of TLC's own module.
* `Copy` kept what was written and took the frames apart in the end, by a fold,
  and `Frames` cut what is written into a sequence of frames, flattened and
  filtered it. Both go step by step now: the far end of a copy takes each piece
  as it comes (`WriteBare`, `WriteFrame`), `MergeBuffers` looks at lengths, and the
  loop of a chunking writer is an action (`WriteChunk`). This is closer to the
  code, and leaves no induction over data to the proof.

### Only model-checked, and why

* Liveness under fairness is out of the prover's reach: `LockHeldOnlyForPeers`,
  `RelayTornDown`, `NoUploadLeftBehind`, `RelayReturns`, `RequestEnds`, `Released`,
  `DeadlineWakes`, `QueryEnds`.

## 5. Findings

PROJECT.json lists all of them with their lines. Five are shown by a run that
TLC ends with a violation:

1. **Two inner mux sessions** (`main.go:1232`, run `innermux_one`). The redial
   after a failed inner dialing is not locked.
2. **Shared captured iics** (`main.go:401`, run `inbound_grpc`). Two streams of
   one grpc connection may be handled with one `wrappedConn`.
3. **Wrong target of a separate channel** (`main.go:1783`, run
   `udpseparate_target`). The dialing for a second address sends the first
   payload again and takes the first target.
4. **Same connection again** (`advLayer/quic/client.go:209`, run
   `quicpool_full`). The message says that another connection is opened; the
   limit may have been learned too low, 0 included, or not yet apply.
5. **The wrong listener** (`machine/load.go:144`, run `control_delete`). The
   index of the server is used for the list of listeners.

Three of the others show in the models as well, in states that no property
forbids: a session that dies between the check of a request and its use is
replaced by one over nil, which others find before it panics (`main.go:1220`,
`NilPanics` of `InnerMux`); two calls of Close take one stream from the count
twice (`advLayer/quic/conn.go:54`, `CloseFlag` and `CloseCount` of `QuicPool`);
and a receiver that counts the records of cut packets gives up before the sender
and forwards the command as data (`tlsLayer/sniff.go:522`, `found = "missed"` in
`TlsLazy`).

The others were met while modelling. They are part of the models as they are in
the code, and the properties name them as their exceptions, each by an operator
or a conjunct of its own:

| property | does not speak of |
| --- | --- |
| `OneSessionUntilTrouble` | what follows the first failure: the redials without the lock (`main.go:1232`), and the sessions over nil (`main.go:1220`), which `OneInnerMux` does not count either |
| `InboundReleased` | a failed dialing for UDP or through a client with an inner mux |
| `OutboundReleased` | a dialing that fails after the transport was dialled |
| `RelayEndSparesCarrier` | a UDP relay over grpc, which closes the base connection |
| `PayloadFaithful` | fallbacks of an inner stream (`iics.go:114`) |
| `CountNeverHigh` | counts below the truth: two concurrent `Close` (`conn.go:54`) |
| `CrashOnlyWhenClosed` | a send that races with Close; `NilSender`: a read that failed while the listener was open (`udplistener.go:120`) |
| `FailedNotReused` | a transport of whose loss only a Read told (`client.go:99`), or that was lost with another error than that of a closed connection (`client.go:161`) |
| `NoOrphan` of `SelfListen` | `LeftAlone`: a failed dialing, a datagram without an address, a fullcone whose dialled end is lost |
| `BackupPromoted` | the second demotion by a query that saw the lost server (`dns.go:282`) |
| `RouteSound` | rules of which `IsNoLimitForNetworkLayer` sees no item (`route.go:189`); entries that `Overlooked` lists |
| `UrlKept` | what `Sharable` (among it a sendThrough with tcp or udp, which panics, `creator.go:145`), `NeverKept` and `NotKept` list |
| `StopCloses` of `Tun` | `disturbed`: a command or the listening failed, a running server was started again |
| `ImplementsHandover` | `Lossy`: a socks5 command that is cut; data behind the last reply of a socks5 server; the first buffer of an authenticated http request; the second of two reads behind a header preset or an upgrade |
| `RequestUnderstood` | the tcp client of shadowsocks, which writes no request |
| `DatagramsKept` of `Socks5UDP` | answers that name their sender by a name only |
| `SwitchedAtOnce` | a command that is not in the record at which the last buffer begins; what comes out after one that was missed, when a packet was cut |
| `StreamKept` of `Copy` | a ws server over tls that is copied to by its `ReadFrom`; what comes out after a first read of vless 0 that io.Copy had no room for (`vless/tcpconn.go:246`) |
| `StreamKept` of `Frames` | a first write of shadowTls that was put together from buffers |
| `StreamKept` of `ShadowTls` | tickets of TLS 1.3; more than eight records before the fourth of data; version 1 with TLS 1.3 |

## 6. Not modelled

In the modelled parts: sniffing of the first payload in `Inbound` and the PROXY
protocol header; `RelayUDP_separate` inside `Inbound`; logging. In `QuicPool`
the loop of `trimBadConns` sees the counts of one moment, though streams may be
opened and closed while it runs. A connection that is dropped without `Close`
is counted as open, though the runtime may close it when it is collected.
`UDPMsgConn` is modelled in its symmetric mode: the others keep one socket and
no map. `Dns` does not tell udp, tcp and tls servers apart. In `Handshakes`
clients of socks5, of http CONNECT and of a ws upgrade wait for the answer, as
the program's own do; data holds no CRLF; readers' buffers are large enough,
except trojan's (`Copy` has the first read of a relay); the commands tcp, udp and mux differ only in what wraps the
leftovers. In `PacketStream` and `TlsLazy` the handshake is over. `TlsLazy`
leaves the secure mode (`-ls`) out: there the command is a checked hash. Some steps
are coarser than the code: `TestFlag` of `UDPConn` tests and sets a plain boolean
(`udpConn.go:246`), `SelfListen` lets the two mutexes of shadowsocks
(`server.go:164`, `server.go:215`) exclude each other, and `Machine` does not tell
an old closer of a server that was stopped and started from its new one
(`load.go:144`). `Frames`
has one empty frame or ping under way at most. `Tun` is linux without the direct
list and the manual mode, where a user types the commands.

Cryptography is a token that is right or wrong. The http2, quic, smux, gobwas,
gvisor and tls libraries and the kernel are external, modelled from how the code
uses them.

Whole parts left out, and why:

* `tlsLayer/sniff_hello.go`, `sniff.go` beyond its verdicts: the layout of a
  ClientHello, decoded field by field and without state.
* `configAdapter/`: text conversion for other programs.
* the command line and the gui: input and output; what they call is `Machine`,
  `ConfUrl` and `Tun`.
* `netLayer/addr.go`, dialing and socket options: conversions, and system
  calls of which only success and failure matter.
* geosite and geoip files: a rule's item is hit or not.
* quic's congestion control: numeric code of a third party.

## 7. What is left

1. An abstract pool of connections that promises a stream in one of them,
   refined by `QuicPool`.
2. The composition of `UDPListener` with `Inbound`, whose handlers are its
   `accepted` connections.
