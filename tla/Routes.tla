-------------------------------- MODULE Routes --------------------------------
(***************************************************************************)
(* Routing (netLayer/route_conf.go, route.go): the rules of the            *)
(* configuration become a list of sets, and the tag of the first set that  *)
(* a target is in says where it goes.                                      *)
(*                                                                         *)
(* A rule has items for the network layer.  Of an item only its kind and   *)
(* whether it can be understood matter; a target has an ip, a name or      *)
(* both, and says which kinds of items it would be hit by.                 *)
(***************************************************************************)
EXTENDS Naturals, Sequences

(* A RuleConf is a record [tag, inTags, users, networks, items], a         *)
(* TargetDescription is [inTag, user, network, has, hits].                 *)
Absent == "none"
Networks == {"tcp", "udp", "dual", "unix", "ip", "raw", "kcp", "quic"}

IPKinds == {"cidr", "country", "ip"}
NameKinds == {"full", "domain", "match", "regexp", "geosite"}

(* An item that cannot be parsed is dropped. *)
Usable(items) == items \cap (IPKinds \cup NameKinds)

(* A rule without networks gets tcp and udp; "dual" is a network of its    *)
(* own and means neither.                                                  *)
LoadRuleForRouteSet(rule) ==
  [outTag   |-> rule.tag,
   inTags   |-> rule.inTags,
   users    |-> rule.users,
   networks |-> IF rule.networks = {} THEN {"tcp", "udp"} ELSE rule.networks \cap Networks,
   items    |-> Usable(rule.items)]

-----------------------------------------------------------------------------
(* A target without a network is for tcp; a network that is not known is   *)
(* never held back.                                                        *)
NetworkOf(td) == IF td.network = "" THEN "tcp" ELSE td.network

IsAddrNetworkAllowed(rs, td) ==
  NetworkOf(td) \in rs.networks \/ NetworkOf(td) \notin Networks

(* Regular expressions are not looked at. *)
IsNoLimitForNetworkLayer(rs) == rs.items \subseteq {"regexp"}

(* Variant that does not look at the network. *)
IsAddrInAnyNetwork(rs, td) ==
  \/ IsNoLimitForNetworkLayer(rs)
  \/ "ip" \in td.has /\ rs.items \cap td.hits \cap IPKinds # {}
  \/ "name" \in td.has /\ rs.items \cap td.hits \cap NameKinds # {}

IsAddrIn(rs, td) ==
  /\ IsAddrNetworkAllowed(rs, td)
  /\ \/ IsNoLimitForNetworkLayer(rs)
     \/ "ip" \in td.has /\ rs.items \cap td.hits \cap IPKinds # {}
     \/ "name" \in td.has /\ rs.items \cap td.hits \cap NameKinds # {}

(* A target without a tag or a user is in no set that asks for one. *)
IsIn(rs, td) ==
  /\ rs.inTags # {} => td.inTag # Absent /\ td.inTag \in rs.inTags
  /\ rs.users # {} => td.user # Absent /\ td.user \in rs.users
  /\ IsAddrIn(rs, td)

CalcuOutTag(list, td) ==
  LET hit == {i \in DOMAIN list : IsIn(list[i], td)}
  IN IF hit = {} THEN "proxy"
     ELSE list[CHOOSE i \in hit : \A j \in hit : i <= j].outTag
===============================================================================
