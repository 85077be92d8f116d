-------------------------------- MODULE Machine --------------------------------
(***************************************************************************)
(* The machine (machine/machine.go, load.go): the servers and clients that *)
(* are loaded, the listeners of the servers, the tags that routes lead to. *)
(* Its methods are called by main, the command line, the gui and the api   *)
(* server; a call is a step, those of the gui make several calls in a row. *)
(*                                                                         *)
(* A server is the load that made it and its address, a client the load    *)
(* and its tag.  Servers and listeners are two lists: what belongs         *)
(* together is at the same index, or so HotDeleteServer takes it.          *)
(***************************************************************************)
EXTENDS Naturals, Sequences, FiniteSets

INSTANCE SequencesExt

CONSTANTS
  Addrs,    (* the addresses that servers are configured to listen on       *)
  Tags,     (* the tags of clients                                          *)
  NoTag,
  Direct,   (* DirectClient                                                 *)
  MaxLoads, (* bound: how often something is loaded                         *)
  MaxStarts (* bound: how often the machine is started                      *)

VARIABLES
  m,        (* the fields of M                                              *)
  listening,(* the servers that are listened for                            *)
  loads,
  starts

vars == <<m, listening, loads, starts>>

Servers == (1..MaxLoads) \X Addrs
Clients == ((1..MaxLoads) \X (Tags \cup {NoTag})) \cup {Direct}
Addr(s) == s[2]
Tag(c) == c[2]

Elements(list) == {list[i] : i \in DOMAIN list}

TypeOK ==
  /\ m.allServers \in Seq(Servers)
  /\ m.listenCloserList \in Seq(Servers)
  /\ m.allClients \in Seq(Clients)
  /\ m.DefaultOutClient \in Clients
  /\ m.ClientsTagMap \in [Tags -> Clients \cup {NoTag}]
  /\ m.running \in BOOLEAN
  /\ listening \subseteq Servers
  /\ loads \in 0..MaxLoads
  /\ starts \in 0..MaxStarts

Init ==
  /\ m = [allServers |-> <<>>, listenCloserList |-> <<>>, running |-> FALSE,
          allClients |-> <<>>, DefaultOutClient |-> Direct,
          ClientsTagMap |-> [t \in Tags |-> NoTag]]
  /\ listening = {}
  /\ loads = 0
  /\ starts = 0

-----------------------------------------------------------------------------
(* The methods of M as functions of its fields. *)

(* The servers of list that ListenSer gets a listener for, in their order: *)
(* one of an address, none of an address in use; any listen may fail.      *)
Increasing(k, n) == {f \in [1..k -> 1..n] : \A i, j \in 1..k : i < j => f[i] < f[j]}

Listened(list, busy) ==
  {ok \in UNION {{[i \in 1..k |-> list[f[i]]] : f \in Increasing(k, Len(list))} : k \in 0..Len(list)} :
     /\ \A s \in Elements(ok) : \A t \in busy : Addr(s) # Addr(t)
     /\ \A i, j \in DOMAIN ok : i # j => Addr(ok[i]) # Addr(ok[j])}

Started(n, ok) == [n EXCEPT !.running = TRUE, !.listenCloserList = @ \o ok]

(* Variant that closes as many listeners as there are servers. *)
ClosedPerServer(n) == {n.listenCloserList[i] : i \in DOMAIN n.listenCloserList \cap DOMAIN n.allServers}

(* What Stop closes; the list of listeners is not cleared. *)
ClosedByStop(n) == Elements(n.listenCloserList)

Stopped(n) == [n EXCEPT !.running = FALSE]

WithServers(n, list) == [n EXCEPT !.allServers = @ \o list]

WithListener(n, s) ==
  [n EXCEPT !.allServers = Append(@, s), !.listenCloserList = Append(@, s)]

WithoutServer(n, i) == [n EXCEPT !.allServers = RemoveAt(@, i)]

(* HotDeleteServer of a machine that runs. *)
WithoutListener(n, i) ==
  [WithoutServer(n, i) EXCEPT !.listenCloserList = RemoveAt(@, i)]

(* RemoveAllServer deletes the first server, once for each; the gui calls  *)
(* it when the machine does not run.                                       *)
WithoutServers(n) == [n EXCEPT !.allServers = <<>>]

(* LoadDialConf: a later client takes the tag of an earlier one. *)
WithClients(n, list) ==
  [n EXCEPT !.allClients = @ \o list,
            !.DefaultOutClient = Head(n.allClients \o list),
            !.ClientsTagMap = [t \in Tags |->
              LET tagged == {i \in DOMAIN list : Tag(list[i]) = t}
              IN IF tagged = {} THEN @[t] ELSE list[Max(tagged)]]]

(* LoadDialConf of one that cannot be made. *)
WithoutNewClient(n) ==
  [n EXCEPT !.DefaultOutClient = IF n.allClients = <<>> THEN Direct ELSE Head(n.allClients)]

Untagged(map, c) == [t \in Tags |-> IF t = Tag(c) THEN NoTag ELSE map[t]]

(* Variant of HotDeleteClient that forgets the routes. *)
WithoutClientOnly(n, i) == [n EXCEPT !.allClients = RemoveAt(@, i)]

(* HotDeleteClient: the tag leads nowhere then, also when another client   *)
(* with that tag has been loaded since.                                    *)
WithoutClient(n, i) ==
  [n EXCEPT !.allClients = RemoveAt(@, i), !.ClientsTagMap = Untagged(@, n.allClients[i])]

WithoutClients(n) ==
  [n EXCEPT !.allClients = <<>>,
            !.ClientsTagMap = [t \in Tags |->
              IF \E c \in Elements(n.allClients) : Tag(c) = t THEN NoTag ELSE @[t]]]

-----------------------------------------------------------------------------
(* Start, when left is what is listened for; without servers it does       *)
(* nothing.                                                                *)
Restart(n, left) ==
  /\ starts < MaxStarts
  /\ starts' = starts + 1
  /\ \E ok \in Listened(n.allServers, left) :
       /\ m' = IF n.allServers = <<>> THEN n ELSE Started(n, ok)
       /\ listening' = left \cup Elements(ok)

(* By main and by the gui, which may start what is running. *)
Start ==
  /\ m.allServers # <<>>
  /\ Restart(m, listening)
  /\ UNCHANGED loads

Stop ==
  /\ m.running
  /\ m' = Stopped(m)
  /\ listening' = listening \ ClosedByStop(m)
  /\ UNCHANGED <<loads, starts>>

(* LoadListenConf before the start: what is in the configuration. *)
LoadListen ==
  /\ ~m.running
  /\ loads < MaxLoads
  /\ \E order \in SetToSeqs(Addrs) :
       m' = WithServers(m, [i \in DOMAIN order |-> <<loads + 1, order[i]>>])
  /\ loads' = loads + 1
  /\ UNCHANGED <<listening, starts>>

(* LoadListenConf of one server while the machine runs; it is kept if it   *)
(* can be listened for.                                                    *)
HotLoadListen ==
  /\ m.running
  /\ loads < MaxLoads
  /\ \E a \in Addrs :
       LET s == <<loads + 1, a>>
       IN /\ <<s>> \in Listened(<<s>>, listening)
          /\ m' = WithListener(m, s)
          /\ listening' = listening \cup {s}
  /\ loads' = loads + 1
  /\ UNCHANGED starts

LoadDial ==
  /\ loads < MaxLoads
  /\ \E t \in Tags \cup {NoTag} : m' = WithClients(m, <<<<loads + 1, t>>>>)
  /\ loads' = loads + 1
  /\ UNCHANGED <<listening, starts>>

LoadDialFails ==
  /\ m' = WithoutNewClient(m)
  /\ UNCHANGED <<listening, loads, starts>>

HotDeleteClient ==
  /\ \E i \in DOMAIN m.allClients : m' = WithoutClient(m, i)
  /\ UNCHANGED <<listening, loads, starts>>

(* HotDeleteServer: listenCloserList[index] is the listener that is closed. *)
(* A listener goes by its server, so after a Stop and a Start the stale     *)
(* closer of one, which would close nothing, counts as the new one.         *)
HotDeleteServer ==
  /\ \E i \in DOMAIN m.allServers :
       \/ /\ ~m.running
          /\ m' = WithoutServer(m, i)
          /\ UNCHANGED listening
       \/ /\ m.running
          /\ i \in DOMAIN m.listenCloserList
          /\ m' = WithoutListener(m, i)
          /\ listening' = listening \ {m.listenCloserList[i]}
  /\ UNCHANGED <<loads, starts>>

-----------------------------------------------------------------------------
(* The gui applies a change: it stops the machine, loads all servers anew  *)
(* in the place of the old ones, or none if one of them cannot be made,    *)
(* and starts again if the machine was running.                            *)
ApplyListen ==
  LET list == [i \in DOMAIN m.allServers |-> <<loads + 1, Addr(m.allServers[i])>>]
      left == listening \ ClosedByStop(m)
  IN /\ m.allServers # <<>>
     /\ loads < MaxLoads
     /\ loads' = loads + 1
     /\ \E new \in {list, <<>>} :
          LET n == WithServers(WithoutServers(Stopped(m)), new)
          IN \/ /\ ~m.running
                /\ m' = n
                /\ UNCHANGED <<listening, starts>>
             \/ /\ m.running
                /\ Restart(n, left)

(* The same for the clients, one of which gets another tag. *)
ApplyDial ==
  LET left == listening \ ClosedByStop(m)
      tags == [i \in DOMAIN m.allClients |-> Tag(m.allClients[i])]
  IN /\ loads < MaxLoads
     /\ loads' = loads + 1
     /\ \E i \in DOMAIN tags, t \in Tags \cup {NoTag} :
          LET list == [j \in DOMAIN tags |-> <<loads + 1, IF i = j THEN t ELSE tags[j]>>]
              n == WithClients(WithoutClients(Stopped(m)), list)
          IN \/ /\ ~m.running
                /\ m' = n
                /\ UNCHANGED <<listening, starts>>
             \/ /\ m.running
                /\ Restart(n, left)

Next ==
  \/ Start \/ Stop \/ LoadListen \/ HotLoadListen \/ LoadDial \/ LoadDialFails
  \/ HotDeleteClient \/ HotDeleteServer \/ ApplyListen \/ ApplyDial

-----------------------------------------------------------------------------
(* Nothing is listened for when the machine is stopped, although a list of *)
(* listeners may hold old ones and servers come and go.                    *)
StopCloses == ~m.running => listening = {}

(* Routes lead to clients that are loaded.                                 *)
RoutesToLoaded ==
  \A t \in Tags : m.ClientsTagMap[t] # NoTag => m.ClientsTagMap[t] \in Elements(m.allClients)

(* What is listened for belongs to a server that is loaded.                *)
ListenersOfServers == listening \subseteq Elements(m.allServers)
===============================================================================
