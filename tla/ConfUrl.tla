------------------------------- MODULE ConfUrl -------------------------------
(* The configuration of one dial or listen, what the program makes of it   *)
(* (proxy/creator.go, base.go, tlsConfig.go), the url that it is shared by *)
(* and what is made of that (proxy/config_url.go, machine/load.go; the     *)
(* getDetailUrl and hotLoadUrl of machine/apiServer.go).                   *)
(*                                                                         *)
(* A conf is a record; "", FALSE and None stand for what is not given.     *)
(* The port and the uuid, always written and read, are left out, and so is *)
(* escaping; rest stands for what no url has: xver, sockopt, lazy, early,  *)
(* users, ca and sniffing.                                                 *)
EXTENDS Naturals

CONSTANT None

VARIABLES
  kind,  (* "dial" or "listen"                                             *)
  conf

-----------------------------------------------------------------------------
(* What newClient and newServer change of the conf: direct gives itself a  *)
(* network, a header preset gets its defaults.                             *)
AssignDefaultValue(h) ==
  [h EXCEPT !.method = IF @ = "" THEN "GET" ELSE @,
            !.path = IF @ = None THEN "/" ELSE @,
            !.headers = IF @ = None THEN "default" ELSE @,
            !.response = IF @ = None THEN "default" ELSE @]

NewDirect(c) == [c EXCEPT !.network = IF c.protocol = "direct" /\ @ = "" THEN "dual" ELSE @]

Built(c) == [NewDirect(c) EXCEPT !.http = IF @ = None THEN None ELSE AssignDefaultValue(@)]

GetAddrStrForListenOrDial(c) ==
  IF c.network # "unix" /\ c.ip # "" THEN c.ip ELSE c.host

(* NewClient, NewServer: a protocol may end in an s, which means tls.      *)
UsesTls(c) == c.tls \/ c.suffixed

(* ConfigCommon, and configCommonForClient, configCommonForServer.  quic   *)
(* is udp.                                                                 *)
Network(c) == IF c.adv = "quic" THEN "udp" ELSE c.network

Common(c) ==
  LET OfHeader(part) == IF c.http = None THEN None ELSE c.http[part]
  IN [addr |-> IF c.protocol = "direct" THEN "" ELSE GetAddrStrForListenOrDial(c),
      network |-> Network(c), tag |-> c.tag, fullcone |-> c.fullcone, adv |-> c.adv,
      header |-> c.http # None, method |-> OfHeader("method"),
      requestPath |-> OfHeader("path"), headers |-> OfHeader("headers"),
      response |-> OfHeader("response"),
      noRoute |-> c.noRoute, fallback |-> c.fallback, rest |-> c.rest]

(* InitAdvLayer: a client or server of the advanced layer, if the address  *)
(* is one; quic has tls of its own, which takes no tls type.               *)
AdvLayer(c) ==
  IF c.adv = "" \/ Common(c).addr = ""
  THEN [advPath |-> None, advHost |-> None, advTls |-> None, advCert |-> None]
  ELSE [advPath |-> c.path, advHost |-> c.host,
        advTls |-> IF c.adv = "quic" THEN c.insecure ELSE None,
        advCert |-> IF c.adv = "quic" THEN c.cert ELSE None]

(* prepareTLS_forClient, prepareTLS_forServer.  grpc wants its alpn.       *)
updateAlpnListByAdvLayer(c) ==
  (IF c.adv = "grpc" /\ AdvLayer(c).advPath # None THEN {"h2"} ELSE {}) \cup c.alpn

PrepareTLS(c) ==
  IF UsesTls(c)
  THEN [tls |-> TRUE, sni |-> c.host, insecure |-> c.insecure, tlsType |-> c.tlsType,
        cert |-> c.cert, alpn |-> updateAlpnListByAdvLayer(c), tlsExtra |-> c.extra]
  ELSE [tls |-> FALSE, sni |-> None, insecure |-> None, tlsType |-> None,
        cert |-> None, alpn |-> None, tlsExtra |-> None]

(* setSendThroughByNetwork: an address to dial from, for a known network.  *)
(* For tcp or udp it panics: see Sharable.                                 *)
SendThrough(c) == IF Network(c) = "dual" THEN c.sendThrough ELSE ""

(* What the protocols take from the conf themselves. *)
Creator(c) ==
  [security |-> c.security, mux |-> c.mux, version |-> c.version,
   target |-> c.target, targetNetwork |-> c.targetNetwork]

(* All fields of two structs.                                              *)
Joint(f, g) == [x \in DOMAIN f \cup DOMAIN g |-> IF x \in DOMAIN f THEN f[x] ELSE g[x]]

Base(c) ==
  Joint(Joint(Common(c), AdvLayer(c)),
        Joint(PrepareTLS(c), Joint(Creator(c), [localAddr |-> SendThrough(c)])))

-----------------------------------------------------------------------------
(* ToStandardUrl.  The several values of one header become one.  The       *)
(* query of a listen is not given some of the keys, nor that of a conf     *)
(* without tls those of tls.                                               *)
Joined(headers) == IF headers = "one" THEN "one" ELSE "joined"

(* A url with a host and a path has a slash between them.                  *)
Slashed(path) == IF path = "name" THEN "/name" ELSE path

(* Variant that prefers the host, as GetAddrStr does. *)
UrlHostFirst(c) == IF c.host # "" THEN c.host ELSE c.ip

UrlHost(c) == IF c.ip # "" THEN c.ip ELSE c.host

ToStandardUrl(c) ==
  [protocol |-> c.protocol,
   suffixes |-> (IF c.tls THEN 1 ELSE 0) + (IF c.suffixed THEN 1 ELSE 0),
   host |-> UrlHost(c), path |-> Slashed(c.path), fragment |-> c.tag,
   network |-> c.network, fullcone |-> c.fullcone,
   target |-> IF kind = "listen" THEN c.target ELSE "",
   mux |-> kind = "dial" /\ c.mux,
   insecure |-> c.tls /\ c.insecure,
   tls_type |-> IF c.tls THEN c.tlsType ELSE "",
   cert |-> IF c.tls THEN c.cert ELSE "",
   http |-> c.http # None,
   http_method |-> IF c.http = None THEN "" ELSE c.http.method,
   header |-> IF c.http = None THEN None ELSE Joined(c.http.headers),
   adv |-> c.adv, security |-> c.security]

(* It takes the tls type of a dial even for a listen, and has no form for  *)
(* the path of a unix socket; of two s the reader trims one.  A client of  *)
(* tcp or udp that is to dial from an address is never made.               *)
Sharable(c) ==
  /\ ~(kind = "listen" /\ c.tls)
  /\ c.network # "unix"
  /\ ~(c.tls /\ c.suffixed)
  /\ c.sendThrough # "" => Network(c) \notin {"tcp", "udp"}

-----------------------------------------------------------------------------
(* GetRealProtocolFromClientUrl and its like for servers trim one s;       *)
(* URLToCommonConf, URLToDialConf and URLToListenConf read the rest.  A    *)
(* direct has no host.                                                     *)
OkTls(u) == u.suffixes = 1

IsIP(host) == host = "1.1.1.1"

URLToCommonConf(u) ==
  LET host == IF u.protocol = "direct" THEN "" ELSE u.host
  IN [protocol |-> u.protocol, suffixed |-> FALSE, tls |-> OkTls(u),
      ip |-> IF IsIP(host) THEN host ELSE "", host |-> IF IsIP(host) THEN "" ELSE host,
      network |-> u.network, fullcone |-> u.fullcone, tag |-> u.fragment, path |-> u.path,
      adv |-> u.adv, security |-> u.security,
      version |-> "", extra |-> "", rest |-> "", alpn |-> {},
      http |-> None, insecure |-> FALSE, tlsType |-> "", cert |-> "",
      mux |-> FALSE, sendThrough |-> "",
      noRoute |-> FALSE, fallback |-> "", target |-> "", targetNetwork |-> ""]

(* The headers of the query are those of a request or of a response. *)
URLToDialConf(u) ==
  [URLToCommonConf(u) EXCEPT
     !.http = IF u.http
              THEN [method |-> u.http_method, path |-> u.path, headers |-> u.header,
                    response |-> None]
              ELSE None,
     !.insecure = OkTls(u) /\ u.insecure,
     !.tlsType = IF OkTls(u) THEN u.tls_type ELSE "",
     !.mux = u.mux]

URLToListenConf(u) ==
  LET network == IF u.target # "" /\ u.network = "" THEN "tcp" ELSE u.network
  IN [URLToCommonConf(u) EXCEPT
        !.http = IF u.http
                 THEN [method |-> "", path |-> None, headers |-> None, response |-> u.header]
                 ELSE None,
        !.insecure = OkTls(u) /\ u.insecure,
        !.cert = IF OkTls(u) THEN u.cert ELSE "",
        !.network = network,
        !.target = u.target,
        !.targetNetwork = IF u.target = "" THEN "" ELSE network]

(* What the api server shows of a client or server, and loads. *)
DetailUrl(c) == ToStandardUrl(Built(c))

HotLoadUrl(u) == IF kind = "dial" THEN URLToDialConf(u) ELSE URLToListenConf(u)

-----------------------------------------------------------------------------
(* What a url does not keep, whatever the values: what is not written or   *)
(* not read.                                                               *)
NeverKept ==
  {"version", "tlsExtra", "rest", "noRoute", "fallback", "localAddr", "response"}

(* What it does not keep of this conf: the host beside an ip; what belongs *)
(* to tls, when the conf's protocol or its quic implies it; the client's   *)
(* certificate; the network of a target; a path without a slash; a         *)
(* header's path that is not that of the conf, its values if they are      *)
(* several, and a server's preset.                                         *)
NotKept(c) ==
  {f \in {"sni", "advHost"} : c.ip # "" /\ c.host # ""}
    \cup {f \in {"insecure", "tlsType", "cert"} : ~c.tls}
    \cup {f \in {"cert", "advCert"} : kind = "dial"}
    \cup {f \in {"advTls", "advCert"} : ~c.tls}
    \cup {f \in {"alpn"} : c.alpn # {}}
    \cup {f \in {"sni", "advHost"} : c.protocol = "direct"}
    \cup {f \in {"network", "targetNetwork"} : c.target # "" /\ c.targetNetwork # c.network}
    \cup {f \in {"advPath"} : c.path # Slashed(c.path)}
    \cup {f \in {"method", "requestPath", "headers"} : kind = "listen"}
    \cup {f \in {"requestPath"} : c.http # None /\ c.http.path # Slashed(c.path)}
    \cup {f \in {"headers"} : c.http # None /\ c.http.headers # "one"}

(* What is made of a shared url does what its origin did, in all that the  *)
(* url keeps.                                                              *)
UrlKept ==
  LET dumped == Built(conf)
      origin == Base(dumped)
      copy == Base(Built(HotLoadUrl(DetailUrl(conf))))
  IN Sharable(dumped) =>
       \A part \in DOMAIN origin \ (NeverKept \cup NotKept(dumped)) : copy[part] = origin[part]
=============================================================================
