----------------------------- MODULE MCUDP_proofs -----------------------------
(***************************************************************************)
(* Proofs about the udp connections of netLayer and of the servers that    *)
(* listen themselves, for any addresses, any number of datagrams, writes   *)
(* and connections and any capacity of the channels: no connection that    *)
(* datagrams go to is without a reader, no two addresses share a socket,   *)
(* a send on a closed channel needs a Close.                               *)
(***************************************************************************)
EXTENDS MCUDP, SequenceTheorems, TLAPS

-----------------------------------------------------------------------------
(* The listener.  What Accept returned or will return stays so, and every  *)
(* goroutine that is about to send on a channel knows a connection that    *)
(* is one of these.                                                        *)
ListenerTypes ==
  /\ newConns \in Seq(Datagrams)
  /\ inMsgs \in [Datagrams -> Seq(Datagrams)]
  /\ connMap \in [Listener!Keys -> Datagrams \cup {None}]
  /\ from \in [Datagrams -> Listener!Keys]
  /\ at \in [Datagrams -> Listener!Places]
  /\ oldConn \in [Datagrams -> Datagrams \cup {None}]
  /\ \A d \in Datagrams :
       /\ at[d] \in {"check", "offer"} => oldConn[d] = d
       /\ at[d] = "deliver" => oldConn[d] # None

ListenerClosing ==
  /\ closer # "open" \/ newClosed \/ inClosed # {} => isclosed
  /\ Listener!CrashOnlyWhenClosed

(* Somebody will send to c, or has sent to it.                             *)
Known(c) ==
  \/ inMsgs[c] # <<>>
  \/ \E k \in Listener!Keys : connMap[k] = c
  \/ \E d \in Datagrams : at[d] = "deliver" /\ oldConn[d] = c

ListenerReach ==
  ~isclosed => \A c \in Datagrams : Known(c) => Listener!Reachable(c)

ListenerInv == ListenerTypes /\ ListenerClosing /\ ListenerReach

-----------------------------------------------------------------------------
(* The sockets of a symmetric UDPMsgConn.  The writes come one after the   *)
(* other; a socket has the number of the write that made it, so a write    *)
(* that has not put its socket into the map finds no address that has it.  *)
MsgConnTypes ==
  /\ symmetricMap \in [Addrs -> Writes \cup {Base, None}]
  /\ at \in [Writes -> {"idle", "first", "store", "lookup", "listen", "map", "write", "done"}]
  /\ theConn \in [Writes -> Writes \cup {Base, None}]
  /\ \A w \in Writes : at[w] # "idle" => raddr[w] \in Addrs
  /\ raddr \in [Writes -> Addrs \cup {None}]
  /\ reader \in [Writes -> {"none", "read", "check", "send", "delete", "close", "ended"}]

OneAfterTheOther ==
  \A v, w \in Writes : v < w /\ at[w] # "idle" => at[v] = "done"

OwnSockets ==
  /\ \A w \in Writes :
       at[w] \in {"idle", "lookup", "listen", "map"} =>
         \A a \in Addrs : symmetricMap[a] # w
  /\ \A w \in Writes : at[w] = "map" => theConn[w] = w
  /\ \A w \in Writes : at[w] \in {"first", "store"} => MsgConn!Mapped = {}

MsgConnClosing == closer # "open" \/ chanClosed \/ crashed => closed

MsgConnInv ==
  /\ MsgConnTypes
  /\ OneAfterTheOther
  /\ OwnSockets
  /\ MsgConn!MapInjective
  /\ MsgConnClosing

-----------------------------------------------------------------------------
(* The servers that listen themselves.  A connection that was not made yet *)
(* is unknown to everybody; one that is in the map is about to be given a  *)
(* handler by the loop, or has one.                                        *)
SelfTypes ==
  /\ kind \in {"shadowsocks", "tproxy"}
  /\ fullcone \in BOOLEAN
  /\ loop \in {"read", "lookup", "insert", "parse", "send", "start", "ended"}
  /\ cur \in [n : Nat, src : Senders \cup {None}, conn : Arrivals \cup {None},
              found : BOOLEAN]
  /\ connOf \in [Senders -> Arrivals \cup {None}]
  /\ srcOf \in [Arrivals -> Senders \cup {None}]
  /\ gone \subseteq Arrivals
  /\ handler \in [Arrivals -> {"none", "missing", "payload", "dial", "failed",
                               "rejected", "relay"}]
  /\ side \in [Arrivals -> [Self!Sides ->
                 {"off", "run", "test", "close", "remove", "ended"}]]
  /\ rcOpen \in [Arrivals -> BOOLEAN]

Unmade(c) ==
  \/ c > cur.n
  \/ c = cur.n /\ loop \in {"lookup", "insert"}

(* The loop has made c and is about to start its handler.                  *)
Starting(c) ==
  loop \in {"parse", "send", "start"} /\ ~cur.found /\ cur.conn = c

LoopInv ==
  /\ loop \in {"lookup", "insert", "parse", "send", "start"} => cur.src \in Senders
  /\ loop \in {"lookup", "insert"} => cur.n \in Arrivals
  /\ loop \in {"parse", "send", "start"} => cur.conn \in Arrivals
  /\ loop \in {"parse", "send", "start"} /\ ~cur.found => cur.conn = cur.n
  /\ loop \in {"lookup", "insert", "start"} => ~cur.found

Off(c) == \A s \in Self!Sides : side[c][s] = "off"

Untouched(c) == c \notin gone /\ handler[c] = "none" /\ Off(c)

(* How far the handler of c and the two goroutines of its relay are.       *)
HandlerInv(c) ==
  /\ Unmade(c) => Untouched(c) /\ \A p \in Senders : connOf[p] # c
  /\ Starting(c) => Untouched(c)
  /\ handler[c] \notin {"rejected", "relay"} => c \notin gone /\ Off(c)
  /\ handler[c] = "rejected" =>
       side[c]["up"] = "off" /\ side[c]["down"] \in {"test", "close", "remove", "ended"}
  /\ handler[c] = "relay" =>
       \A s \in Self!Sides : side[c][s] \in {"run", "test", "close", "remove", "ended"}
  /\ handler[c] = "relay" /\ side[c]["up"] # "run" => ~rcOpen[c]
  /\ \A s \in Self!Sides : side[c][s] = "remove" => c \in gone
  /\ \A s \in Self!Sides :
       side[c][s] = "ended" /\ (~fullcone \/ handler[c] = "rejected") => c \in gone

(* While the server listens, each connection in the map has a handler or   *)
(* is about to be given one; a closed one is about to leave the map.       *)
MapInv ==
  \A p \in Senders, c \in Arrivals :
    connOf[p] = c =>
      /\ srcOf[c] = p
      /\ c \in gone => \E s \in Self!Sides : side[c][s] = "remove"
      /\ listening = "open" /\ handler[c] = "none" => Starting(c)

(* What the loop has found in the map had a handler.                       *)
FoundInv ==
  loop \in {"parse", "send"} /\ cur.found /\ listening = "open" =>
    handler[cur.conn] # "none"

SelfInv ==
  ~crashed =>
    SelfTypes /\ LoopInv /\ (\A c \in Arrivals : HandlerInv(c)) /\ MapInv /\ FoundInv

Inv ==
  /\ part = "listener" => ListenerInv
  /\ part = "msgconn" => MsgConnInv
  /\ part = "self" => SelfInv

-----------------------------------------------------------------------------
LEMMA ListenerStart ==
  ASSUME Listener!Init
  PROVE  ListenerInv
<1> USE DEF Listener!Init
<1>1. ListenerTypes
  BY EmptySeq DEF ListenerTypes, Listener!Places, Listener!Keys
<1>2. ListenerClosing
  BY DEF ListenerClosing, Listener!CrashOnlyWhenClosed
<1>3. ListenerReach
  BY NamesAssumption DEF ListenerReach, Known
<1> QED
  BY <1>1, <1>2, <1>3 DEF ListenerInv

(* A connection that can be reached stays so until the listener is closed. *)
LEMMA ReachableStays ==
  ASSUME ListenerTypes, Listener!Next, ~newClosed, NEW c \in Datagrams, Listener!Reachable(c)
  PROVE  isclosed' \/ Listener!Reachable(c)'
<1> USE DEF Listener!Reachable
<1>1. CASE \E d \in Datagrams : Listener!Receive(d) \/ Listener!Lookup(d)
  BY <1>1 DEF Listener!Receive, Listener!Lookup, Listener!Goto, Listener!chans,
              ListenerTypes
<1>2. CASE \E d \in Datagrams : Listener!NewConn(d) \/ Listener!CheckClosed(d)
  BY <1>2 DEF Listener!NewConn, Listener!CheckClosed, Listener!Goto, Listener!chans,
              Listener!closing, ListenerTypes
<1>3. ASSUME NEW d \in Datagrams, Listener!Offer(d) PROVE Listener!Reachable(c)'
  <2>1. newConns' = Append(newConns, d) /\ newConns \in Seq(Datagrams)
    BY <1>3 DEF Listener!Offer, ListenerTypes
  <2>2. /\ Len(newConns') = Len(newConns) + 1 /\ Len(newConns) \in Nat
        /\ newConns'[Len(newConns) + 1] = d
        /\ \A i \in 1..Len(newConns) : newConns'[i] = newConns[i]
    BY <2>1
  <2>3. \A i \in 1..Len(newConns) : i \in 1..Len(newConns')
    BY <2>2
  <2>4. c # d => at'[c] = at[c]
    BY <1>3 DEF Listener!Offer, Listener!Goto, ListenerTypes
  <2>5. accepted' = accepted
    BY <1>3 DEF Listener!Offer
  <2> QED
    BY <2>2, <2>3, <2>4, <2>5
<1>4. CASE Listener!Accept
  <2>1. /\ newConns \in Seq(Datagrams) /\ newConns # <<>> /\ newConns' = Tail(newConns)
        /\ accepted' = accepted \cup {newConns[1]} /\ at' = at
    BY <1>4 DEF Listener!Accept, ListenerTypes
  <2>2. /\ Len(newConns) \in Nat /\ Len(newConns) >= 1
        /\ Len(newConns') = Len(newConns) - 1
        /\ \A i \in 2..Len(newConns) : newConns'[i - 1] = newConns[i]
    BY <2>1
  <2>3. ASSUME NEW i \in 1..Len(newConns), newConns[i] = c
        PROVE  c \in accepted' \/ \E j \in 1..Len(newConns') : newConns'[j] = c
    <3>1. CASE i = 1
      BY <2>1, <2>3, <3>1
    <3>2. CASE i # 1
      <4>1. i \in 2..Len(newConns) /\ i - 1 \in 1..Len(newConns')
        BY <2>2, <3>2
      <4> QED
        BY <2>2, <2>3, <4>1
    <3> QED
      BY <3>1, <3>2
  <2> QED
    BY <2>1, <2>3
<1>5. CASE \E d \in Datagrams : Listener!Deliver(d) \/ Listener!Read(d) \/ Listener!Leave(d)
  BY <1>5 DEF Listener!Deliver, Listener!Read, Listener!Leave, Listener!Goto,
              Listener!chans, ListenerTypes
<1>6. CASE Listener!Close \/ Listener!CloseNewConns \/ Listener!CloseClients
  BY <1>6 DEF Listener!Close, Listener!CloseNewConns, Listener!CloseClients,
              Listener!chans
<1> QED
  BY <1>1, <1>2, <1>3, <1>4, <1>5, <1>6 DEF Listener!Next

LEMMA ListenerStep ==
  ASSUME ListenerInv, Listener!Next
  PROVE  ListenerInv'
<1> USE NamesAssumption DEF ListenerInv
<1>1. ListenerTypes'
  <2> USE DEF ListenerTypes, Listener!Goto, Listener!chans, Listener!Places
  <2>1. ASSUME NEW d \in Datagrams, Listener!Receive(d) PROVE ListenerTypes'
    BY <2>1 DEF Listener!Receive
  <2>2. ASSUME NEW d \in Datagrams, Listener!Lookup(d) PROVE ListenerTypes'
    BY <2>2 DEF Listener!Lookup
  <2>3. ASSUME NEW d \in Datagrams, Listener!NewConn(d) PROVE ListenerTypes'
    BY <2>3 DEF Listener!NewConn
  <2>4. ASSUME NEW d \in Datagrams, Listener!CheckClosed(d) PROVE ListenerTypes'
    BY <2>4 DEF Listener!CheckClosed
  <2>5. ASSUME NEW d \in Datagrams, Listener!Offer(d) PROVE ListenerTypes'
    BY <2>5 DEF Listener!Offer
  <2>6. ASSUME NEW d \in Datagrams, Listener!Deliver(d) PROVE ListenerTypes'
    BY <2>6 DEF Listener!Deliver
  <2>7. ASSUME NEW d \in Datagrams, Listener!Read(d) PROVE ListenerTypes'
    BY <2>7 DEF Listener!Read
  <2>8. ASSUME NEW d \in Datagrams, Listener!Leave(d) PROVE ListenerTypes'
    BY <2>8 DEF Listener!Leave
  <2>9. CASE Listener!Accept
    BY <2>9 DEF Listener!Accept
  <2>10. CASE Listener!Close \/ Listener!CloseNewConns \/ Listener!CloseClients
    BY <2>10 DEF Listener!Close, Listener!CloseNewConns, Listener!CloseClients
  <2> QED
    BY <2>1, <2>2, <2>3, <2>4, <2>5, <2>6, <2>7, <2>8, <2>9, <2>10 DEF Listener!Next
<1>2. ListenerClosing'
  <2> ~crashed
    BY DEF Listener!Next
  <2>1. CASE /\ UNCHANGED <<closer, isclosed, newClosed, inClosed>>
             /\ crashed' => newClosed \/ inClosed # {} \/ Listener!NilSender'
    BY <2>1 DEF ListenerClosing, Listener!CrashOnlyWhenClosed
  <2>2. ASSUME NEW d \in Datagrams, Listener!Deliver(d) PROVE ListenerClosing'
    <3>1. /\ UNCHANGED <<closer, isclosed, newClosed, inClosed>>
          /\ crashed' => from[d] = None \/ oldConn[d] \in inClosed
          /\ at'[d] = "done" /\ from' = from
      BY <2>2 DEF Listener!Deliver, Listener!closing, Listener!Goto, ListenerTypes
    <3>2. crashed' => inClosed # {} \/ Listener!NilSender'
      BY <3>1 DEF Listener!NilSender
    <3> QED
      BY <2>1, <3>1, <3>2
  <2>3. CASE Listener!Close \/ Listener!CloseNewConns \/ Listener!CloseClients
    <3>1. isclosed' /\ crashed' = crashed
      BY <2>3 DEF ListenerClosing, Listener!Close, Listener!CloseNewConns,
                  Listener!CloseClients, Listener!chans
    <3> QED
      BY <3>1 DEF ListenerClosing, Listener!CrashOnlyWhenClosed
  <2>4. ASSUME NEW d \in Datagrams,
               Listener!Receive(d) \/ Listener!Lookup(d) \/ Listener!NewConn(d)
                 \/ Listener!CheckClosed(d) \/ Listener!Offer(d) \/ Listener!Read(d)
                 \/ Listener!Leave(d)
        PROVE  ListenerClosing'
    BY <2>1, <2>4 DEF Listener!Receive, Listener!Lookup, Listener!NewConn,
                      Listener!CheckClosed, Listener!Offer, Listener!Read,
                      Listener!Leave, Listener!chans, Listener!closing
  <2>5. CASE Listener!Accept
    BY <2>1, <2>5 DEF Listener!Accept, Listener!closing
  <2> QED
    BY <2>2, <2>3, <2>4, <2>5 DEF Listener!Next
<1>3. ListenerReach'
  <2> SUFFICES ASSUME ~isclosed', NEW c \in Datagrams, Known(c)'
               PROVE  Listener!Reachable(c)'
    BY DEF ListenerReach
  <2>1. ~isclosed /\ ~newClosed
    BY <1>2 DEF ListenerClosing, Listener!Next, Listener!Close, Listener!CloseNewConns,
                Listener!Receive, Listener!Lookup, Listener!NewConn, Listener!closing,
                Listener!CheckClosed, Listener!Offer, Listener!Deliver, Listener!Read,
                Listener!Leave, Listener!Accept, Listener!CloseClients
  <2>2. Listener!Reachable(c) => Listener!Reachable(c)'
    BY <2>1, ReachableStays
  <2>3. Known(c) => Listener!Reachable(c)
    BY <2>1 DEF ListenerReach
  <2>4. Known(c) \/ Listener!Reachable(c) \/ Listener!Reachable(c)'
    <3> USE DEF Known
    <3>1. ASSUME NEW d \in Datagrams, Listener!Lookup(d) PROVE Known(c)
      BY <3>1 DEF Listener!Lookup, Listener!Goto, Listener!chans, ListenerTypes
    <3>2. ASSUME NEW d \in Datagrams, Listener!NewConn(d)
          PROVE  Known(c) \/ Listener!Reachable(c)'
      BY <3>2 DEF Listener!NewConn, Listener!Goto, Listener!chans, ListenerTypes,
                  Listener!Reachable
    <3>3. ASSUME NEW d \in Datagrams, Listener!Offer(d)
          PROVE  Known(c) \/ Listener!Reachable(c)
      BY <3>3 DEF Listener!Offer, Listener!Goto, ListenerTypes, Listener!Reachable
    <3>4. ASSUME NEW d \in Datagrams, Listener!Deliver(d) PROVE Known(c)
      BY <3>4 DEF Listener!Deliver, Listener!Goto, ListenerTypes
    <3>5. ASSUME NEW d \in Datagrams,
                 Listener!Receive(d) \/ Listener!CheckClosed(d) \/ Listener!Leave(d)
          PROVE  Known(c)
      BY <3>5 DEF Listener!Receive, Listener!CheckClosed, Listener!Leave,
                  Listener!Goto, Listener!chans, ListenerTypes
    <3>6. ASSUME NEW d \in Datagrams, Listener!Read(d) PROVE Known(c)
      BY <3>6 DEF Listener!Read, ListenerTypes
    <3>7. CASE Listener!Accept \/ Listener!Close \/ Listener!CloseNewConns
      BY <3>7 DEF Listener!Accept, Listener!Close, Listener!CloseNewConns,
                  Listener!chans
    <3>8. CASE Listener!CloseClients
      BY <3>8, NamesAssumption DEF Listener!CloseClients
    <3> QED
      BY <3>1, <3>2, <3>3, <3>4, <3>5, <3>6, <3>7, <3>8 DEF Listener!Next
  <2> QED
    BY <2>2, <2>3, <2>4
<1> QED
  BY <1>1, <1>2, <1>3

-----------------------------------------------------------------------------
LEMMA MsgConnStart ==
  ASSUME MsgConn!Init
  PROVE  MsgConnInv
BY NamesAssumption
   DEF MsgConn!Init, MsgConnInv, MsgConnTypes, OneAfterTheOther, OwnSockets,
       MsgConn!MapInjective, MsgConn!Mapped, MsgConnClosing

(* Two writes are never on their way at the same time.                     *)
LEMMA OneWrites ==
  ASSUME OneAfterTheOther, NEW v \in Writes, NEW w \in Writes,
         at[v] \notin {"idle", "done"}, at[w] \notin {"idle", "done"}
  PROVE  v = w
<1>1. v \in Nat /\ w \in Nat
  BY NumbersAssumption
<1>2. v < w \/ w < v \/ v = w
  BY <1>1
<1> QED
  BY <1>2 DEF OneAfterTheOther

LEMMA MsgConnStep ==
  ASSUME MsgConnInv, MsgConn!Next
  PROVE  MsgConnInv'
<1> USE NamesAssumption DEF MsgConnInv, MsgConn!Goto, MsgConn!Use, MsgConn!Reader,
        MsgConn!closing
<1> DEFINE Sockets == MsgConnTypes /\ OneAfterTheOther /\ OwnSockets /\ MsgConn!MapInjective
<1>1. ASSUME NEW w \in Writes, MsgConn!Write(w) PROVE Sockets'
  <2> USE <1>1 DEF MsgConn!Write
  <2>1. MsgConnTypes'
    BY DEF MsgConnTypes
  <2>2. OneAfterTheOther'
    BY DEF OneAfterTheOther, MsgConnTypes
  <2>3. OwnSockets'
    BY DEF OwnSockets, MsgConn!Mapped, MsgConnTypes
  <2>4. MsgConn!MapInjective'
    BY DEF MsgConn!MapInjective, MsgConn!Mapped
  <2> QED
    BY <2>1, <2>2, <2>3, <2>4
<1>2. ASSUME NEW w \in Writes,
             \/ MsgConn!WriteFirst(w) \/ MsgConn!Lookup(w) \/ MsgConn!Listen(w)
             \/ MsgConn!WriteTo(w)
      PROVE  Sockets'
  <2> USE <1>2 DEF MsgConn!WriteFirst, MsgConn!Lookup, MsgConn!Listen, MsgConn!WriteTo
  <2>1. MsgConnTypes'
    BY DEF MsgConnTypes
  <2>2. OneAfterTheOther'
    BY DEF OneAfterTheOther, MsgConnTypes
  <2>3. OwnSockets'
    BY DEF OwnSockets, MsgConn!Mapped, MsgConnTypes
  <2>4. MsgConn!MapInjective'
    BY DEF MsgConn!MapInjective, MsgConn!Mapped
  <2> QED
    BY <2>1, <2>2, <2>3, <2>4
<1>3. ASSUME NEW w \in Writes, MsgConn!StoreFirst(w) PROVE Sockets'
  <2> USE <1>3 DEF MsgConn!StoreFirst
  <2>1. MsgConnTypes'
    BY DEF MsgConnTypes
  <2>2. OneAfterTheOther'
    BY DEF OneAfterTheOther, MsgConnTypes
  <2>3. \A v \in Writes : at'[v] \notin {"first", "store"}
    BY OneWrites DEF MsgConnTypes
  <2>4. OwnSockets'
    BY <2>3 DEF OwnSockets, MsgConnTypes
  <2>5. \A a \in Addrs : symmetricMap[a] = None
    BY DEF OwnSockets, MsgConn!Mapped
  <2>6. MsgConn!MapInjective'
    BY <2>5 DEF MsgConn!MapInjective, MsgConn!Mapped, MsgConnTypes
  <2> QED
    BY <2>1, <2>2, <2>4, <2>6
<1>4. ASSUME NEW w \in Writes, MsgConn!MapSocket(w) PROVE Sockets'
  <2> USE <1>4 DEF MsgConn!MapSocket
  <2>1. MsgConnTypes'
    BY DEF MsgConnTypes
  <2>2. OneAfterTheOther'
    BY DEF OneAfterTheOther, MsgConnTypes
  <2>3. \A v \in Writes : at'[v] \notin {"first", "store"}
    BY OneWrites DEF MsgConnTypes
  <2>4. symmetricMap' = [symmetricMap EXCEPT ![raddr[w]] = w]
    BY DEF OwnSockets
  <2>5. \A a \in Addrs : symmetricMap[a] # w
    BY DEF OwnSockets
  <2>6. OwnSockets'
    BY <2>3, <2>4 DEF OwnSockets, MsgConnTypes
  <2>7. MsgConn!MapInjective'
    BY <2>4, <2>5 DEF MsgConn!MapInjective, MsgConn!Mapped, MsgConnTypes
  <2> QED
    BY <2>1, <2>2, <2>6, <2>7
<1>5. ASSUME NEW a, symmetricMap' = [symmetricMap EXCEPT ![a] = None],
             UNCHANGED <<at, raddr, theConn>>, MsgConnTypes'
      PROVE  Sockets'
  <2>1. \A b \in Addrs : symmetricMap'[b] \in {symmetricMap[b], None}
    BY <1>5 DEF MsgConnTypes
  <2>2. OneAfterTheOther'
    BY <1>5 DEF OneAfterTheOther
  <2>3. OwnSockets'
    BY <1>5, <2>1 DEF OwnSockets, MsgConn!Mapped
  <2>4. MsgConn!MapInjective'
    BY <2>1 DEF MsgConn!MapInjective, MsgConn!Mapped
  <2> QED
    BY <1>5, <2>2, <2>3, <2>4
<1>6. ASSUME NEW w \in Writes, MsgConn!Delete(w) PROVE Sockets'
  <2>1. MsgConnTypes'
    BY <1>6 DEF MsgConn!Delete, MsgConnTypes
  <2> QED
    BY <1>5, <1>6, <2>1 DEF MsgConn!Delete
<1>7. ASSUME NEW a \in Addrs, MsgConn!CloseConnWithRaddr(a) PROVE Sockets'
  <2>1. MsgConnTypes'
    BY <1>7 DEF MsgConn!CloseConnWithRaddr, MsgConnTypes
  <2> QED
    BY <1>5, <1>7, <2>1 DEF MsgConn!CloseConnWithRaddr
<1>8. ASSUME UNCHANGED <<symmetricMap, at, raddr, theConn>>, MsgConnTypes'
      PROVE  Sockets'
  BY <1>8 DEF OneAfterTheOther, OwnSockets, MsgConn!MapInjective, MsgConn!Mapped
<1>9. ASSUME NEW w \in Writes,
             \/ MsgConn!ReadDatagram(w) \/ MsgConn!CheckClosed(w) \/ MsgConn!Send(w)
             \/ MsgConn!ReadFails(w) \/ MsgConn!CloseSocket(w)
      PROVE  Sockets'
  <2> USE <1>9 DEF MsgConn!ReadDatagram, MsgConn!CheckClosed, MsgConn!Send,
                   MsgConn!ReadFails, MsgConn!CloseSocket
  <2>1. MsgConnTypes'
    BY DEF MsgConnTypes
  <2>2. UNCHANGED <<symmetricMap, at, raddr, theConn>>
    OBVIOUS
  <2> QED
    BY <1>8, <2>1, <2>2
<1>10. ASSUME MsgConn!ReadMsg \/ MsgConn!Close \/ MsgConn!CloseChan \/ MsgConn!CloseBase
       PROVE  Sockets'
  <2> USE <1>10 DEF MsgConn!ReadMsg, MsgConn!Close, MsgConn!CloseChan, MsgConn!CloseBase
  <2>1. MsgConnTypes'
    BY DEF MsgConnTypes
  <2>2. UNCHANGED <<symmetricMap, at, raddr, theConn>>
    OBVIOUS
  <2> QED
    BY <1>8, <2>1, <2>2
<1>11. Sockets'
  BY <1>1, <1>2, <1>3, <1>4, <1>6, <1>7, <1>9, <1>10
     DEF MsgConn!Next, MsgConn!WriteStep, MsgConn!ReaderStep, MsgConn!CloseStep
<1>12. MsgConnClosing'
  <2> USE DEF MsgConnClosing
  <2>1. ASSUME NEW w \in Writes,
               MsgConn!Write(w) \/ MsgConn!WriteStep(w) \/ MsgConn!ReadDatagram(w)
                 \/ MsgConn!ReaderStep(w)
        PROVE  MsgConnClosing'
    BY <2>1 DEF MsgConn!Write, MsgConn!WriteStep, MsgConn!WriteFirst, MsgConn!StoreFirst,
                MsgConn!Lookup, MsgConn!Listen, MsgConn!MapSocket, MsgConn!WriteTo,
                MsgConn!ReadDatagram, MsgConn!ReaderStep, MsgConn!CheckClosed,
                MsgConn!ReadFails, MsgConn!Delete, MsgConn!CloseSocket
  <2>2. ASSUME NEW w \in Writes, MsgConn!Send(w) PROVE MsgConnClosing'
    BY <2>2 DEF MsgConn!Send
  <2>3. CASE MsgConn!ReadMsg \/ \E a \in Addrs : MsgConn!CloseConnWithRaddr(a)
    BY <2>3 DEF MsgConn!ReadMsg, MsgConn!CloseConnWithRaddr
  <2>4. CASE MsgConn!Close \/ MsgConn!CloseStep
    BY <2>4 DEF MsgConn!Close, MsgConn!CloseStep, MsgConn!CloseChan, MsgConn!CloseBase
  <2> QED
    BY <2>1, <2>2, <2>3, <2>4 DEF MsgConn!Next
<1> QED
  BY <1>11, <1>12

-----------------------------------------------------------------------------
LEMMA SelfStart ==
  ASSUME Self!Init
  PROVE  SelfInv
<1> USE DEF Self!Init, Self!NoDatagram, Self!Sides
<1>1. SelfTypes
  BY DEF SelfTypes
<1>2. LoopInv
  BY DEF LoopInv
<1>3. \A c \in Arrivals : HandlerInv(c)
  BY NamesAssumption DEF HandlerInv, Untouched, Off, Starting
<1>4. MapInv /\ FoundInv
  BY NamesAssumption DEF MapInv, FoundInv
<1> QED
  BY <1>1, <1>2, <1>3, <1>4 DEF SelfInv

SelfPart ==
  SelfTypes /\ LoopInv /\ (\A c \in Arrivals : HandlerInv(c)) /\ MapInv /\ FoundInv

(* What the handlers know is about connections the loop has made.          *)
LEMMA HandlersAreMade ==
  ASSUME SelfPart, NEW c \in Arrivals,
         handler[c] # "none" \/ \E s \in Self!Sides : side[c][s] # "off"
  PROVE  ~Unmade(c) /\ ~Starting(c)
BY DEF SelfPart, HandlerInv, Untouched, Off

(* The goroutine that reads the socket.                                    *)
LEMMA LoopSteps ==
  ASSUME SelfPart, ~crashed',
         \/ Self!MakeMap \/ Self!ReadFails \/ Self!Lookup \/ Self!Insert \/ Self!Send
         \/ Self!Start \/ Self!Stop
         \/ \E p \in Senders : Self!ReadFrom(p)
         \/ \E good \in BOOLEAN : Self!Parse(good)
  PROVE  SelfPart'
<1> USE NamesAssumption, NumbersAssumption
    DEF SelfPart, Self!config, Self!ofLoop, Self!ofHandlers, Self!AfterInsert
<1>1. CASE Self!MakeMap \/ Self!Stop
  <2> USE <1>1 DEF Self!MakeMap, Self!Stop
  <2>1. SelfTypes' /\ LoopInv'
    BY DEF SelfTypes, LoopInv
  <2>2. ASSUME NEW c \in Arrivals PROVE HandlerInv(c)'
    BY DEF HandlerInv, Unmade, Starting, Untouched, Off
  <2>3. MapInv' /\ FoundInv'
    BY DEF MapInv, FoundInv, Starting
  <2> QED
    BY <2>1, <2>2, <2>3
<1>2. CASE Self!ReadFails
  <2> USE <1>2 DEF Self!ReadFails
  <2>1. SelfTypes' /\ LoopInv'
    BY DEF SelfTypes, LoopInv
  <2>2. ASSUME NEW c \in Arrivals PROVE HandlerInv(c)'
    BY DEF HandlerInv, Unmade, Starting, Untouched, Off
  <2>3. MapInv' /\ FoundInv'
    BY DEF MapInv, FoundInv, Starting
  <2> QED
    BY <2>1, <2>2, <2>3
<1>3. ASSUME NEW p \in Senders, Self!ReadFrom(p) PROVE SelfPart'
  <2> USE <1>3 DEF Self!ReadFrom
  <2>1. SelfTypes' /\ LoopInv'
    BY DEF SelfTypes, LoopInv
  <2>2. ASSUME NEW c \in Arrivals PROVE HandlerInv(c)'
    <3>1. Unmade(c)' => Unmade(c)
      BY DEF Unmade, SelfTypes
    <3>2. ~Starting(c)'
      BY DEF Starting
    <3> QED
      BY <3>1, <3>2 DEF HandlerInv, Untouched, Off
  <2>3. MapInv' /\ FoundInv'
    BY DEF MapInv, FoundInv, Starting
  <2> QED
    BY <2>1, <2>2, <2>3
<1>4. CASE Self!Lookup
  <2> USE <1>4 DEF Self!Lookup
  <2> DEFINE c0 == connOf[cur.src]
  <2>1. /\ cur'.n = cur.n /\ cur'.src = cur.src /\ cur'.conn = c0
        /\ cur'.found = (c0 # None)
        /\ cur.src \in Senders /\ cur.n \in Nat /\ c0 \in Arrivals \cup {None}
    BY DEF SelfTypes, LoopInv
  <2>2. SelfTypes'
    <3>1. CASE c0 = None
      BY <3>1 DEF SelfTypes, LoopInv
    <3>2. CASE c0 # None
      BY <3>2 DEF SelfTypes, LoopInv
    <3> QED
      BY <3>1, <3>2
  <2>3. LoopInv'
    BY <2>1 DEF LoopInv
  <2>4. ASSUME NEW c \in Arrivals PROVE HandlerInv(c)'
    <3>1. Unmade(c)' => Unmade(c)
      BY <2>1 DEF Unmade
    <3>2. ~Starting(c)'
      BY <2>1 DEF Starting
    <3> QED
      BY <3>1, <3>2 DEF HandlerInv, Untouched, Off
  <2>5. MapInv'
    BY DEF MapInv, Starting
  <2>6. FoundInv'
    BY <2>1 DEF FoundInv, MapInv, Starting
  <2> QED
    BY <2>2, <2>3, <2>4, <2>5, <2>6
<1>5. CASE Self!Insert
  <2> USE <1>5 DEF Self!Insert
  <2> DEFINE n == cur.n
  <2>1. /\ cur'.n = n /\ cur'.src = cur.src /\ cur'.conn = n /\ cur'.found = FALSE
        /\ cur.src \in Senders /\ n \in Arrivals /\ n \in Nat /\ ~cur.found
        /\ mapMade
    BY DEF SelfTypes, LoopInv
  <2>2. SelfTypes'
    BY <2>1 DEF SelfTypes
  <2>3. LoopInv'
    BY <2>1 DEF LoopInv
  <2>4. Untouched(n) /\ \A p \in Senders : connOf[p] # n
    BY <2>1 DEF HandlerInv, Unmade
  <2>5. ASSUME NEW c \in Arrivals PROVE HandlerInv(c)'
    <3>1. Unmade(c)' => Unmade(c) /\ c # n
      BY <2>1 DEF Unmade
    <3>2. Starting(c)' => c = n
      BY <2>1 DEF Starting
    <3>3. c # n => \A p \in Senders : connOf[p] # c => connOf'[p] # c
      BY <2>1 DEF SelfTypes
    <3> QED
      BY <2>4, <3>1, <3>2, <3>3 DEF HandlerInv, Untouched, Off
  <2>6. MapInv'
    <3> SUFFICES ASSUME NEW p \in Senders, NEW c \in Arrivals, connOf'[p] = c
                 PROVE  /\ srcOf'[c] = p
                        /\ c \in gone' => \E s \in Self!Sides : side'[c][s] = "remove"
                        /\ listening' = "open" /\ handler'[c] = "none" => Starting(c)'
      BY DEF MapInv
    <3>1. CASE p = cur.src
      <4>1. c = n /\ srcOf'[c] = p
        BY <2>1, <3>1 DEF SelfTypes
      <4>2. Starting(c)'
        BY <2>1, <4>1 DEF Starting
      <4> QED
        BY <2>4, <4>1, <4>2 DEF Untouched
    <3>2. CASE p # cur.src
      <4>1. connOf[p] = c /\ c # n
        BY <2>1, <2>4, <3>2 DEF SelfTypes
      <4>2. srcOf'[c] = srcOf[c]
        BY <2>1, <4>1 DEF SelfTypes
      <4> QED
        BY <4>1, <4>2 DEF MapInv, Starting
    <3> QED
      BY <3>1, <3>2
  <2>7. FoundInv'
    BY <2>1 DEF FoundInv
  <2> QED
    BY <2>2, <2>3, <2>5, <2>6, <2>7
<1>6. ASSUME NEW good \in BOOLEAN, Self!Parse(good) PROVE SelfPart'
  <2> USE <1>6 DEF Self!Parse
  <2>1. SelfTypes' /\ LoopInv'
    BY DEF SelfTypes, LoopInv
  <2>2. cur.conn \in Arrivals /\ (~cur.found => cur.conn = cur.n /\ Starting(cur.conn))
    BY DEF LoopInv, Starting
  <2>3. ~cur.found => Untouched(cur.conn)
    BY <2>2 DEF HandlerInv
  <2>4. ASSUME NEW c \in Arrivals PROVE HandlerInv(c)'
    <3>1. (Unmade(c)' => Unmade(c)) /\ (Starting(c)' => Starting(c) /\ good)
      BY DEF Unmade, Starting
    <3>2. Unmade(c) => ~Starting(c)
      BY <2>2 DEF Unmade, Starting, SelfTypes
    <3> QED
      BY <2>2, <2>3, <3>1, <3>2 DEF HandlerInv, Untouched, Off, SelfTypes
  <2>5. MapInv'
    BY <2>2 DEF MapInv, Starting, SelfTypes
  <2>6. FoundInv'
    BY DEF FoundInv
  <2> QED
    BY <2>1, <2>4, <2>5, <2>6
<1>7. CASE Self!Send
  <2> USE <1>7 DEF Self!Send
  <2>1. SelfTypes' /\ LoopInv'
    BY DEF SelfTypes, LoopInv
  <2>2. ASSUME NEW c \in Arrivals PROVE HandlerInv(c)'
    BY DEF HandlerInv, Unmade, Starting, Untouched, Off
  <2>3. MapInv' /\ FoundInv'
    BY DEF MapInv, FoundInv, Starting
  <2> QED
    BY <2>1, <2>2, <2>3
<1>8. CASE Self!Start
  <2> USE <1>8 DEF Self!Start
  <2>1. SelfTypes' /\ LoopInv'
    BY DEF SelfTypes, LoopInv
  <2>2. cur.conn \in Arrivals /\ cur.conn = cur.n /\ Starting(cur.conn)
    BY DEF LoopInv, Starting
  <2>3. Untouched(cur.conn)
    BY <2>2 DEF HandlerInv
  <2>4. ASSUME NEW c \in Arrivals PROVE HandlerInv(c)'
    <3>1. (Unmade(c)' => Unmade(c)) /\ ~Starting(c)'
      BY DEF Unmade, Starting
    <3>2. Unmade(c) => c # cur.conn
      BY <2>2 DEF Unmade, SelfTypes
    <3> QED
      BY <2>3, <3>1, <3>2 DEF HandlerInv, Untouched, Off, SelfTypes
  <2>5. MapInv' /\ FoundInv'
    BY <2>2 DEF MapInv, FoundInv, Starting, SelfTypes
  <2> QED
    BY <2>1, <2>4, <2>5
<1> QED
  BY <1>1, <1>2, <1>3, <1>4, <1>5, <1>6, <1>7, <1>8

(* The handler of a connection and the goroutines of its relay touch what  *)
(* is about this connection, and the entry of its sender in the map.       *)
LEMMA HandlerSteps ==
  ASSUME SelfPart, ~crashed', NEW c \in Arrivals,
         \/ Self!ReadFirstPayload(c) \/ Self!DialFails(c) \/ Self!DialRejected(c)
         \/ Self!DialSucceeds(c) \/ Self!UploadReadFails(c)
         \/ \E ok \in BOOLEAN : Self!Upload(c, ok) \/ Self!DownloadEnds(c, ok)
         \/ \E s \in Self!Sides :
              Self!TestClosed(c, s) \/ Self!CloseChan(c, s) \/ Self!RemoveUDPByHash(c, s)
  PROVE  SelfPart'
<1> USE DEF SelfPart, Self!config, Self!ofLoop, Self!Sides
<1> DEFINE Frame ==
      /\ UNCHANGED <<kind, fullcone, listening, loop, cur, srcOf>>
      /\ handler[c] \notin {"none", "missing"} /\ handler'[c] \notin {"none", "missing"}
      /\ \A d \in Arrivals \ {c} :
           /\ handler'[d] = handler[d] /\ side'[d] = side[d] /\ rcOpen'[d] = rcOpen[d]
           /\ d \in gone' <=> d \in gone
      /\ \A p \in Senders : connOf'[p] = connOf[p] \/ connOf'[p] = None
<1>1. SelfTypes' /\ Frame
  <2>1. HandlerInv(c)
    OBVIOUS
  <2> USE DEF SelfTypes
  <2>2. ASSUME Self!ReadFirstPayload(c) \/ Self!DialFails(c) PROVE SelfTypes' /\ Frame
    BY <2>2 DEF Self!ReadFirstPayload, Self!DialFails
  <2>3. ASSUME Self!DialRejected(c) PROVE SelfTypes' /\ Frame
    BY <2>3 DEF Self!DialRejected
  <2>4. ASSUME Self!DialSucceeds(c) PROVE SelfTypes' /\ Frame
    BY <2>4 DEF Self!DialSucceeds
  <2>5. ASSUME Self!UploadReadFails(c) PROVE SelfTypes' /\ Frame
    BY <2>1, <2>5 DEF Self!UploadReadFails, Self!LeaveLoop, HandlerInv, Off
  <2>6. ASSUME NEW ok \in BOOLEAN, Self!Upload(c, ok) PROVE SelfTypes' /\ Frame
    <3>1. CASE ok
      BY <2>1, <2>6, <3>1 DEF Self!Upload, HandlerInv, Off
    <3>2. CASE ~ok
      <4>1. Self!LeaveLoop(c, "up", FALSE) /\ side[c]["up"] = "run"
        BY <2>6, <3>2 DEF Self!Upload
      <4>2. handler[c] = "relay"
        BY <2>1, <4>1 DEF HandlerInv, Off
      <4>3. SelfTypes'
        BY <2>6, <4>1 DEF Self!Upload, Self!LeaveLoop
      <4> QED
        BY <2>6, <4>1, <4>2, <4>3 DEF Self!Upload, Self!LeaveLoop
    <3> QED
      BY <3>1, <3>2
  <2>7. ASSUME NEW ok \in BOOLEAN, Self!DownloadEnds(c, ok) PROVE SelfTypes' /\ Frame
    BY <2>1, <2>7 DEF Self!DownloadEnds, Self!LeaveLoop, HandlerInv, Off
  <2>8. ASSUME NEW s \in Self!Sides, Self!TestClosed(c, s) PROVE SelfTypes' /\ Frame
    BY <2>1, <2>8 DEF Self!TestClosed, HandlerInv, Off
  <2>9. ASSUME NEW s \in Self!Sides, Self!CloseChan(c, s) PROVE SelfTypes' /\ Frame
    BY <2>1, <2>9 DEF Self!CloseChan, HandlerInv, Off
  <2>10. ASSUME NEW s \in Self!Sides, Self!RemoveUDPByHash(c, s) PROVE SelfTypes' /\ Frame
    <3>1. SelfTypes'
      BY <2>10 DEF Self!RemoveUDPByHash
    <3>2. handler[c] \notin {"none", "missing"}
      BY <2>1, <2>10 DEF Self!RemoveUDPByHash, HandlerInv, Off
    <3> QED
      BY <2>10, <3>1, <3>2 DEF Self!RemoveUDPByHash
  <2> QED
    BY <2>2, <2>3, <2>4, <2>5, <2>6, <2>7, <2>8, <2>9, <2>10
<1>2. LoopInv'
  BY <1>1 DEF LoopInv
<1>3. ASSUME NEW d \in Arrivals PROVE (Unmade(d)' => Unmade(d)) /\ (Starting(d)' => Starting(d))
  BY <1>1 DEF Unmade, Starting
<1>4. ~Unmade(c) /\ ~Starting(c)
  BY <1>1, HandlersAreMade
<1>5. ASSUME NEW d \in Arrivals, d # c PROVE HandlerInv(d)'
  <2>1. \A p \in Senders : connOf[p] # d => connOf'[p] # d
    BY <1>1, NamesAssumption
  <2> QED
    BY <1>1, <1>3, <1>5, <2>1 DEF HandlerInv, Untouched, Off
<1>6. HandlerInv(c)'
  <2>1. HandlerInv(c) /\ ~Unmade(c)' /\ ~Starting(c)'
    BY <1>3, <1>4
  <2> USE DEF SelfTypes, HandlerInv, Off
  <2>2. CASE Self!ReadFirstPayload(c) \/ Self!DialFails(c)
    BY <2>1, <2>2 DEF Self!ReadFirstPayload, Self!DialFails
  <2>3. CASE Self!DialRejected(c) \/ Self!DialSucceeds(c)
    BY <2>1, <2>3 DEF Self!DialRejected, Self!DialSucceeds
  <2>4. CASE Self!UploadReadFails(c)
    BY <2>1, <2>4 DEF Self!UploadReadFails, Self!LeaveLoop
  <2>5. ASSUME NEW ok \in BOOLEAN, Self!Upload(c, ok) \/ Self!DownloadEnds(c, ok)
        PROVE  HandlerInv(c)'
    BY <2>1, <2>5 DEF Self!Upload, Self!DownloadEnds, Self!LeaveLoop
  <2>6. ASSUME NEW s \in Self!Sides, Self!TestClosed(c, s) PROVE HandlerInv(c)'
    BY <2>1, <2>6 DEF Self!TestClosed
  <2>7. ASSUME NEW s \in Self!Sides, Self!CloseChan(c, s) PROVE HandlerInv(c)'
    BY <2>1, <2>7 DEF Self!CloseChan
  <2>8. ASSUME NEW s \in Self!Sides, Self!RemoveUDPByHash(c, s) PROVE HandlerInv(c)'
    BY <2>1, <2>8 DEF Self!RemoveUDPByHash
  <2> QED
    BY <2>2, <2>3, <2>4, <2>5, <2>6, <2>7, <2>8
<1>7. MapInv'
  <2> SUFFICES ASSUME NEW p \in Senders, NEW d \in Arrivals, connOf'[p] = d
               PROVE  /\ srcOf'[d] = p
                      /\ d \in gone' => \E s \in Self!Sides : side'[d][s] = "remove"
                      /\ listening' = "open" /\ handler'[d] = "none" => Starting(d)'
    BY DEF MapInv
  <2>1. connOf[p] = d /\ srcOf'[d] = p
    BY <1>1, NamesAssumption DEF MapInv
  <2>2. CASE d # c
    BY <1>1, <2>1, <2>2 DEF MapInv, Starting
  <2>3. CASE d = c
    <3>1. handler'[d] # "none"
      BY <1>1, <2>3
    <3>2. c \in gone => \E s \in Self!Sides : side[c][s] = "remove"
      BY <2>1, <2>3 DEF MapInv
    <3> USE DEF SelfTypes
    <3>3. ASSUME \A s \in Self!Sides : ~Self!CloseChan(c, s) /\ ~Self!RemoveUDPByHash(c, s)
          PROVE  /\ gone' = gone
                 /\ \A s \in Self!Sides : side[c][s] = "remove" => side'[c][s] = "remove"
      BY <3>3 DEF Self!ReadFirstPayload, Self!DialFails, Self!DialRejected,
                  Self!DialSucceeds, Self!UploadReadFails, Self!Upload,
                  Self!DownloadEnds, Self!LeaveLoop, Self!TestClosed, HandlerInv, Off
    <3>4. ASSUME NEW s \in Self!Sides, Self!CloseChan(c, s) PROVE side'[c][s] = "remove"
      BY <3>4 DEF Self!CloseChan
    <3>5. ASSUME NEW s \in Self!Sides, Self!RemoveUDPByHash(c, s) PROVE connOf'[p] = None
      BY <2>1, <2>3, <3>5 DEF Self!RemoveUDPByHash, MapInv
    <3> QED
      BY <2>1, <2>3, <3>1, <3>2, <3>3, <3>4, <3>5, NamesAssumption
  <2> QED
    BY <2>2, <2>3
<1>8. FoundInv'
  <2>1. loop \in {"parse", "send"} /\ cur.found /\ listening = "open" => cur.conn \in Arrivals
    BY DEF LoopInv
  <2> QED
    BY <1>1, <2>1 DEF FoundInv
<1> QED
  BY <1>1, <1>2, <1>5, <1>6, <1>7, <1>8

LEMMA SelfStep ==
  ASSUME SelfInv, Self!Next
  PROVE  SelfInv'
<1>1. ~crashed /\ SelfPart
  BY DEF SelfInv, SelfPart, Self!Next
<1>2. SelfPart' => SelfInv'
  BY DEF SelfInv, SelfPart
<1> QED
  BY <1>1, <1>2, LoopSteps, HandlerSteps DEF Self!Next, SelfInv

(* A connection that has a handler and was not closed is served or left    *)
(* alone.                                                                  *)
LEMMA HandlersServe ==
  ASSUME NEW c \in Arrivals, SelfTypes, HandlerInv(c), handler[c] # "none",
         c \notin gone \/ \E s \in Self!Sides : side[c][s] = "remove"
  PROVE  Self!Served(c) \/ Self!LeftAlone(c)
BY DEF SelfTypes, HandlerInv, Off, Self!Sides, Self!Served, Self!LeftAlone, Self!Closing

LEMMA SelfServes ==
  ASSUME SelfInv
  PROVE  Self!NoOrphan
<1> SUFFICES ASSUME listening = "open", ~crashed
             PROVE  Self!NoOrphan
  BY DEF Self!NoOrphan
<1> USE DEF SelfInv
<1>1. ASSUME NEW p \in Senders, connOf[p] # None
      PROVE  Self!Served(connOf[p]) \/ Self!LeftAlone(connOf[p])
  <2>1. PICK c \in Arrivals : c = connOf[p]
    BY <1>1 DEF SelfTypes
  <2>2. CASE handler[c] = "none"
    BY <2>1, <2>2 DEF MapInv, Starting, Self!Served
  <2>3. CASE handler[c] # "none"
    BY <2>1, <2>3, HandlersServe DEF MapInv
  <2> QED
    BY <2>1, <2>2, <2>3
<1>2. ASSUME loop = "send", cur.found, cur.conn \notin gone
      PROVE  Self!Served(cur.conn) \/ Self!LeftAlone(cur.conn)
  BY <1>2, HandlersServe DEF LoopInv, FoundInv
<1> QED
  BY <1>1, <1>2 DEF Self!NoOrphan

-----------------------------------------------------------------------------
LEMMA InvStart == Init => Inv
<1> SUFFICES ASSUME Init
             PROVE  Inv
  OBVIOUS
<1> QED
  BY ListenerStart, MsgConnStart, SelfStart DEF Init, Inv

LEMMA InvStutters ==
  ASSUME Inv, UNCHANGED vars
  PROVE  Inv'
<1> USE DEF Inv, vars, ofListener, ofMsgConn, ofSelf
<1>1. CASE part = "listener"
  BY <1>1 DEF ListenerInv, ListenerTypes, ListenerClosing, ListenerReach, Known,
              Listener!Reachable, Listener!CrashOnlyWhenClosed, Listener!NilSender
<1>2. CASE part = "msgconn"
  BY <1>2 DEF MsgConnInv, MsgConnTypes, OneAfterTheOther, OwnSockets, MsgConnClosing,
              MsgConn!MapInjective, MsgConn!Mapped
<1>3. CASE part = "self"
  BY <1>3 DEF SelfInv, SelfTypes, LoopInv, HandlerInv, MapInv, FoundInv, Unmade,
              Starting, Untouched, Off
<1> QED
  BY <1>1, <1>2, <1>3

LEMMA InvStep == Inv /\ [Next]_vars => Inv'
<1> SUFFICES ASSUME Inv, [Next]_vars
             PROVE  Inv'
  OBVIOUS
<1>1. CASE OfListener(Listener!Next)
  BY <1>1, ListenerStep DEF OfListener, Inv
<1>2. CASE OfMsgConn(MsgConn!Next)
  BY <1>2, MsgConnStep DEF OfMsgConn, Inv
<1>3. CASE OfConn(Conn!Next)
  BY <1>3 DEF OfConn, Inv
<1>4. CASE OfSelf(Self!Next)
  BY <1>4, SelfStep DEF OfSelf, Inv
<1>5. CASE UNCHANGED vars
  BY <1>5, InvStutters
<1> QED
  BY <1>1, <1>2, <1>3, <1>4, <1>5 DEF Next

LEMMA Invariance == Spec => []Inv
<1>1. Init => Inv
  BY InvStart
<1>2. Inv /\ [Next]_vars => Inv'
  BY InvStep
<1> QED
  BY <1>1, <1>2, PTL DEF Spec

-----------------------------------------------------------------------------
(* As long as a UDPListener is open, a connection that holds a datagram,   *)
(* or that the next datagram of a peer would go to, is one that Accept has *)
(* returned or will return, although two goroutines may have made one for  *)
(* the same peer (udplistener.go, run, newConn); and the connection that a *)
(* server that listens itself would send the next datagram of a client to  *)
(* has a reader or is about to leave the map, unless the dial failed, its  *)
(* first datagram had no address, or its full cone lost the dialed end     *)
(* (shadowsocks/server.go, StartListen; tproxy_linux.go, HandshakeUDP).    *)
THEOREM NobodyIsOrphaned == Spec => []NoOrphan
<1>1. Inv => NoOrphan
  <2> SUFFICES ASSUME Inv
               PROVE  NoOrphan
    OBVIOUS
  <2>1. ASSUME ListenerInv PROVE Listener!NoOrphan
    <3>1. \A k \in Listener!Keys : connMap[k] # None => connMap[k] \in Datagrams
      BY <2>1 DEF ListenerInv, ListenerTypes
    <3> QED
      BY <2>1, <3>1 DEF ListenerInv, ListenerReach, Known, Listener!NoOrphan
  <2> QED
    BY <2>1, SelfServes DEF Inv, NoOrphan
<1> QED
  BY <1>1, Invariance, PTL

(* The goroutines of a UDPListener and of a UDPMsgConn send on channels    *)
(* without knowing who closes them; they meet a closed one at most when    *)
(* Close was called (udplistener.go, closeClients; msgconn.go, Close).     *)
(* What panics without it is the goroutine that UDPListener starts for a   *)
(* read that failed, which dereferences the nil address (udplistener.go,   *)
(* run).                                                                   *)
THEOREM CrashNeedsClose == Spec => []CrashOnlyWhenClosed
<1>1. Inv => CrashOnlyWhenClosed
  BY DEF Inv, ListenerInv, ListenerClosing, MsgConnInv, MsgConnClosing,
         CrashOnlyWhenClosed, MsgConn!CrashOnlyWhenClosed
<1> QED
  BY <1>1, Invariance, PTL

(* Two addresses in the map of a symmetric UDPMsgConn never have one       *)
(* socket, although the test for the first one is made without the mutex   *)
(* and readers and CloseConnWithRaddr take entries out (msgconn.go,        *)
(* WriteMsg, readSymmetricMsgFromConn).                                    *)
THEOREM SocketsAreNotShared == Spec => []MapInjective
<1>1. Inv => MapInjective
  BY DEF Inv, MsgConnInv, MapInjective
<1> QED
  BY <1>1, Invariance, PTL
===============================================================================
