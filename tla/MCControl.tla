------------------------------ MODULE MCControl ------------------------------
(* What decides where a connection goes: Dns, Routes, Fallback, Machine,   *)
(* AntiReplay for the connections of a vmess server, GrpcClient for the    *)
(* transport that a request is given, ConfUrl for the urls that confs are  *)
(* shared by, Tun for the system that a tun server changes.                *)
(*                                                                         *)
(* They share no state; part says which of them a behaviour is about, the  *)
(* variables of the others keep the value None.  Routes, Fallback and      *)
(* ConfUrl have no state: every choice of rules and of a target, of        *)
(* entries and of a request, of a conf, is an initial state.               *)
EXTENDS Naturals, Sequences, FiniteSets

CONSTANTS
  Queries, Default, Backups, MaxRecursion, TTLStrategies, TypeStrategies,
  Addrs, Tags, NoTag, Direct, MaxLoads, MaxStarts,
  Headers, Handshakes, MaxTimeGap, AuthidDuration, SessionDuration, MaxTime,
  Requests, None

(* The names that are used for what is not there are none of the others.   *)
ASSUME TimesAssumption ==
  {MaxTimeGap, AuthidDuration, SessionDuration, MaxTime} \subseteq Nat
ASSUME ServersAssumption ==
  Default \notin Backups /\ None \notin {Default} \cup Backups \cup Queries
ASSUME RequestsAssumption == {"conn", "nil", None} \cap Requests = {}
ASSUME TagsAssumption == NoTag \notin Tags
ASSUME AddrsAssumption == IsFiniteSet(Addrs)
(* The strings of the instance, and any others.                            *)
Words ==
  STRING \cup
  {"", "in", "other", "none", "user", "first", "tcp", "udp", "unix", "dual", "/p", "/q",
   "http/1.1", "h2", "s", "t", "vless", "direct", "1.1.1.1", "example.com", "ws", "grpc",
   "quic", "/", "/a", "name", "/name", "GET", "POST", "one", "joined", "default", "given",
   "closed", "lost"}

(* What is written before and after the headers of http.                   *)
HttpHeaders ==
  [method : Words, path : Words \cup {None}, headers : Words \cup {None},
   response : Words \cup {None}]

ASSUME NoneAssumption == None \notin Nat \cup Words \cup HttpHeaders

VARIABLES
  part,
  strategy, defConn, conns, garbage, holder, waiting, cache, at, domain, types,
  slot, conn, depth, ip,
  m, listening, loads, starts,
  now, born, authidMap, sessionMap, check, header, accepted,
  rules, target,
  entries, request,
  kind, conf,
  server, system, remembered, opens, disturbed, died,
  cachedTransport, place, underlay, transport, dead, handshake, failure, err, pipe,
  shouldClose, response, sawError, panicked

(* One domain has a server of its own, one an address in the hosts.        *)
DnsMachine == INSTANCE Dns WITH
  Policy <- [plain |-> "none", special |-> "backup"],
  Hosts <- [plain |-> {}, special |-> {"A"}]
Machine == INSTANCE Machine
AntiReplay == INSTANCE AntiReplay
Routes == INSTANCE Routes
Fallback == INSTANCE Fallback
GrpcClient == INSTANCE GrpcClient
ConfUrl == INSTANCE ConfUrl
Tun == INSTANCE Tun WITH MaxOpens <- 3

noMachine == <<m, listening, loads, starts>>
noDns ==
  <<strategy, defConn, conns, garbage, holder, waiting, cache, at, domain, types,
    slot, conn, depth, ip>>
noReplay == <<now, born, authidMap, sessionMap, check, header, accepted>>
noRoutes == <<rules, target, entries, request, kind, conf>>
noGrpc ==
  <<cachedTransport, place, underlay, transport, dead, handshake, failure, err, pipe,
    shouldClose, response, sawError, panicked>>
noTun == <<server, system, remembered, opens, disturbed, died>>

vars == <<part, noDns, noMachine, noReplay, noRoutes, noGrpc, noTun>>

DnsIsNone ==
  /\ strategy = None /\ defConn = None /\ conns = None /\ garbage = None
  /\ holder = None /\ waiting = None /\ cache = None /\ at = None /\ domain = None
  /\ types = None /\ slot = None /\ conn = None /\ depth = None /\ ip = None
MachineIsNone == m = None /\ listening = None /\ loads = None /\ starts = None
ReplayIsNone ==
  /\ now = None /\ born = None /\ authidMap = None /\ sessionMap = None
  /\ check = None /\ header = None /\ accepted = None
RoutesAreNone == rules = None /\ target = None
FallbackIsNone == entries = None /\ request = None
UrlIsNone == kind = None /\ conf = None
TunIsNone ==
  /\ server = None /\ system = None /\ remembered = None /\ opens = None
  /\ disturbed = None /\ died = None
GrpcIsNone ==
  /\ cachedTransport = None /\ place = None /\ underlay = None /\ transport = None
  /\ dead = None /\ handshake = None /\ failure = None /\ err = None /\ pipe = None
  /\ shouldClose = None /\ response = None /\ sawError = None /\ panicked = None

(* Rules from one tag or any, of one user or any, for udp or all networks, *)
(* with up to two items; an item that is not a kind cannot be parsed.      *)
Kinds == {"cidr", "full", "regexp", "unparsable"}

RuleSet(tag, networks) ==
  [tag : {tag}, inTags : {{}, {"in"}}, users : {{}, {"user"}}, networks : networks,
   items : {k \in SUBSET Kinds : \E j, l \in Kinds : k \subseteq {j, l}}]

LastRules ==
  {r \in RuleSet("other", {{}}) : r.inTags = {} /\ r.users = {} /\ r.items \subseteq {"full"}}

HitsOf(has) == (IF "ip" \in has THEN {"cidr"} ELSE {}) \cup
               (IF "name" \in has THEN {"full", "regexp"} ELSE {})

Targets ==
  UNION {[inTag : {"none", "in"}, user : {"none", "user"}, network : {"", "tcp", "udp", "other"},
          has : {has}, hits : SUBSET HitsOf(has)] : has \in {{"ip"}, {"name"}, {"ip", "name"}}}

(* Entries of a list of fallbacks, and requests that fall back.            *)
Entries ==
  [from : {{}, {"in"}}, path : {"", "/p"}, alpn : SUBSET {"http/1.1", "h2"}, sni : {"", "s"}]

FallingBack ==
  [tag : {"in", "other"}, path : {"", "/p", "/q"}, alpn : {"", "http/1.1", "h2"},
   sni : {"", "s", "t"}]

(* Confs with up to three things given; some are of a dial or a listen     *)
(* alone.  A target without a network is for tcp.                          *)
Nothing ==
  [protocol |-> "vless", suffixed |-> FALSE, tls |-> FALSE, ip |-> "1.1.1.1", host |-> "",
   network |-> "", fullcone |-> FALSE, tag |-> "", path |-> "", adv |-> "",
   security |-> "", version |-> "", extra |-> "", rest |-> "", alpn |-> {}, http |-> None,
   insecure |-> FALSE, tlsType |-> "", cert |-> "", mux |-> FALSE, sendThrough |-> "",
   noRoute |-> FALSE, fallback |-> "", target |-> "", targetNetwork |-> ""]

Presets ==
  [method : {"", "POST"}, path : {None, "/a"}, headers : {None, "one"},
   response : {None, "other"}]

Options ==
  UNION {
    {"suffixed", "tls", "fullcone", "insecure", "mux", "noRoute"} \X {TRUE},
    {"tag", "security", "version", "extra", "rest", "tlsType", "cert", "sendThrough",
     "fallback"} \X {"given"},
    {"network", "targetNetwork"} \X {"udp"},
    {"adv"} \X {"ws", "grpc", "quic"}, {"path"} \X {"/a", "name"}, {"http"} \X Presets,
    {<<"ip", "">>, <<"host", "example.com">>, <<"network", "unix">>, <<"alpn", {"http/1.1"}>>,
     <<"protocol", "direct">>, <<"target", "1.1.1.1">>}}

OfOther ==
  [dial |-> {"noRoute", "fallback", "target", "targetNetwork"},
   listen |-> {"mux", "sendThrough", "protocol"}]

ConfOf(given) ==
  LET c == [f \in DOMAIN Nothing |->
              IF \E o \in given : o[1] = f THEN (CHOOSE o \in given : o[1] = f)[2]
              ELSE Nothing[f]]
  IN [c EXCEPT !.targetNetwork =
        IF c.target = "" THEN "" ELSE IF @ = "" THEN "tcp" ELSE @]

Init ==
  \/ /\ part = "dns" /\ DnsMachine!Init
     /\ MachineIsNone /\ ReplayIsNone /\ RoutesAreNone /\ FallbackIsNone /\ GrpcIsNone
     /\ UrlIsNone /\ TunIsNone
  \/ /\ part = "machine" /\ Machine!Init
     /\ DnsIsNone /\ ReplayIsNone /\ RoutesAreNone /\ FallbackIsNone /\ GrpcIsNone
     /\ UrlIsNone /\ TunIsNone
  \/ /\ part = "replay" /\ AntiReplay!Init
     /\ DnsIsNone /\ MachineIsNone /\ RoutesAreNone /\ FallbackIsNone /\ GrpcIsNone
     /\ UrlIsNone /\ TunIsNone
  \/ /\ part = "routes"
     /\ \E first \in RuleSet("first", {{}, {"udp"}}), last \in LastRules :
          rules = <<first, last>>
     /\ target \in Targets
     /\ DnsIsNone /\ MachineIsNone /\ ReplayIsNone /\ FallbackIsNone /\ GrpcIsNone
     /\ UrlIsNone /\ TunIsNone
  \/ /\ part = "fallback"
     /\ \E first, second \in Entries : entries = <<first, second>>
     /\ request \in FallingBack
     /\ DnsIsNone /\ MachineIsNone /\ ReplayIsNone /\ RoutesAreNone /\ GrpcIsNone
     /\ UrlIsNone /\ TunIsNone
  \/ /\ part = "grpc" /\ GrpcClient!Init
     /\ DnsIsNone /\ MachineIsNone /\ ReplayIsNone /\ RoutesAreNone /\ FallbackIsNone
     /\ UrlIsNone /\ TunIsNone
  \/ /\ part = "url"
     /\ kind \in {"dial", "listen"}
     /\ \E o1, o2, o3 \in {o \in Options : o[1] \notin OfOther[kind]} :
          conf = ConfOf({o1, o2, o3})
     /\ DnsIsNone /\ MachineIsNone /\ ReplayIsNone /\ RoutesAreNone /\ FallbackIsNone
     /\ GrpcIsNone /\ TunIsNone
  \/ /\ part = "tun" /\ Tun!Init
     /\ DnsIsNone /\ MachineIsNone /\ ReplayIsNone /\ RoutesAreNone /\ FallbackIsNone
     /\ GrpcIsNone /\ UrlIsNone

OfDns(A) ==
  part = "dns" /\ A /\ UNCHANGED <<part, noMachine, noReplay, noRoutes, noGrpc, noTun>>
OfMachine(A) ==
  part = "machine" /\ A /\ UNCHANGED <<part, noDns, noReplay, noRoutes, noGrpc, noTun>>
OfReplay(A) ==
  part = "replay" /\ A /\ UNCHANGED <<part, noDns, noMachine, noRoutes, noGrpc, noTun>>
OfGrpc(A) ==
  part = "grpc" /\ A /\ UNCHANGED <<part, noDns, noMachine, noReplay, noRoutes, noTun>>
OfTun(A) ==
  part = "tun" /\ A /\ UNCHANGED <<part, noDns, noMachine, noReplay, noRoutes, noGrpc>>

Next ==
  \/ OfDns(DnsMachine!Next)
  \/ OfMachine(Machine!Next)
  \/ OfReplay(AntiReplay!Next)
  \/ OfGrpc(GrpcClient!Next)
  \/ OfTun(Tun!Next)

Spec == Init /\ [][Next]_vars /\ \A q \in Queries : WF_vars(OfDns(DnsMachine!Step(q)))

-----------------------------------------------------------------------------
(* Two queries never use one dns.Conn at a time (dns.go, DNSQuery).        *)
OneUserPerConn == part = "dns" => DnsMachine!OneUserPerConn

(* A backup takes the place of a lost default server (dns.go, QueryType).  *)
BackupPromoted == part = "dns" => DnsMachine!BackupPromoted

(* Every query comes to its end (dns.go, QueryType): the deferred part     *)
(* takes the lock that the query itself holds for reading until then.      *)
Asking(q) == part = "dns" /\ at[q] # "done"

QueryEnds == \A q \in Queries : Asking(q) ~> ~Asking(q)

(* A stopped machine listens for nothing (machine.go, Stop); a stopped tun *)
(* server has left the system as it was (proxy/tun/tun.go, Stop).          *)
StopCloses ==
  /\ part = "machine" => Machine!StopCloses
  /\ part = "tun" => Tun!Restored

(* The tags of clients lead to clients that are loaded (load.go,           *)
(* HotDeleteClient).                                                       *)
RoutesToLoaded == part = "machine" => Machine!RoutesToLoaded

(* A server that was deleted is not listened for (load.go,                 *)
(* HotDeleteServer).                                                       *)
ListenersOfServers == part = "machine" => Machine!ListenersOfServers

(* A vmess header is taken once (anti_replay.go).                          *)
AcceptedOnce == part = "replay" => AntiReplay!AcceptedOnce

(* A transport over a closed connection, of which a Write has told its     *)
(* user, is not given to a later request (grpcSimple/client.go, dealErr).  *)
FailedNotReused == part = "grpc" => GrpcClient!FailedNotReused

(* A conf is the same after it was shared by its url (config_url.go).      *)
UrlKept == part = "url" => ConfUrl!UrlKept

(* A target goes where the first rule says that it meets (route.go,        *)
(* CalcuOutTag): the rule's tags, users and networks and, if the rule has  *)
(* items, one of these.  This leaves out rules that have items of which    *)
(* none is seen by IsNoLimitForNetworkLayer.  A request that falls back    *)
(* goes to the entry that fits it best (classicFallback.go).               *)
Meets(rule, td) ==
  /\ rule.inTags = {} \/ td.inTag \in rule.inTags
  /\ rule.users = {} \/ td.user \in rule.users
  /\ rule.networks = {} \/ Routes!NetworkOf(td) \in rule.networks \cup {"other"}
  /\ rule.items = {} \/ rule.items \cap td.hits # {}

Seen(rule) == rule.items = {} \/ ~(rule.items \subseteq {"regexp", "unparsable"})

FirstRuleMet ==
  part = "routes" /\ (\A i \in DOMAIN rules : Seen(rules[i])) =>
    LET tag == Routes!CalcuOutTag([i \in DOMAIN rules |-> Routes!LoadRuleForRouteSet(rules[i])],
                                  target)
    IN \/ /\ \A i \in DOMAIN rules : ~Meets(rules[i], target)
          /\ tag = "proxy"
       \/ \E i \in DOMAIN rules :
            /\ Meets(rules[i], target)
            /\ \A j \in 1..i - 1 : ~Meets(rules[j], target)
            /\ tag = rules[i].tag

RouteSound == FirstRuleMet /\ (part = "fallback" => Fallback!FallbackSound)
===============================================================================
