--------------------------- MODULE MCControl_proofs ---------------------------
(***************************************************************************)
(* Proofs about what decides where a connection goes, for any queries and  *)
(* dns servers, any headers and durations, any requests of a grpc client   *)
(* and any clients of a machine.                                           *)
(***************************************************************************)
EXTENDS MCControl, SequenceTheorems, FiniteSetTheorems, WellFoundedInduction, TLAPS

-----------------------------------------------------------------------------
(* AntiReplay.  The clock stands still while a header is checked, and what *)
(* was accepted is in the table of sessions for as long as a session is    *)
(* remembered.                                                             *)
ReplayTypes ==
  /\ now \in Nat
  /\ born \in [Headers -> Nat]
  /\ sessionMap \in [Headers -> Nat]
  /\ check \in [Handshakes -> {"idle", "authid", "record", "session", "done"}]
  /\ header \in [Handshakes -> Headers]
  /\ accepted \in [Handshakes -> Nat]

CheckedInTime ==
  \A c \in Handshakes :
    check[c] \in {"authid", "record", "session"} => AntiReplay!InTime(header[c])

Remembered ==
  \A c \in Handshakes :
    accepted[c] > 0 =>
      /\ accepted[c] <= now
      /\ \/ accepted[c] + SessionDuration <= sessionMap[header[c]]
         \/ accepted[c] + SessionDuration <= now

ReplayInv == ReplayTypes /\ CheckedInTime /\ Remembered /\ AntiReplay!AcceptedOnce

-----------------------------------------------------------------------------
(* Dns.  Nobody moves a dns.Conn while a query uses one, so who exchanges  *)
(* has the mutex that belongs to its connection.                           *)
DnsTypes ==
  /\ conns \subseteq Backups
  /\ defConn \in {Default, None} \cup Backups
  /\ holder \in [DnsMachine!Servers -> Queries \cup {None}]
  /\ at \in [Queries -> {"lookup", "rlock", "deferred", "return", "done"}
                         \cup DnsMachine!Reading \cup DnsMachine!Writing]
  /\ slot \in [Queries -> DnsMachine!Servers \cup {None}]
  /\ conn \in [Queries -> DnsMachine!Servers \cup {None}]

UsesOwn ==
  \A q \in Queries :
    at[q] \in {"lock", "exchange", "redial"} =>
      /\ slot[q] \in {Default} \cup conns
      /\ conn[q] = DnsMachine!ConnOf(slot[q])

Holding == \A q \in Queries : at[q] = "exchange" => holder[slot[q]] = q

DnsInv ==
  /\ DnsTypes
  /\ defConn \notin conns
  /\ UsesOwn
  /\ Holding
  /\ DnsMachine!BackupPromoted

-----------------------------------------------------------------------------
(* GrpcClient.  A transport has the number of a request that will not make *)
(* another one; a pipe is closed when the error that did it is known.      *)
Past(r) == place[r] \notin {"check", "take", "dial", "sub"}

GrpcTypes ==
  /\ cachedTransport \in Requests \cup {None}
  /\ place \in [Requests -> {"check", "take", "dial", "sub", "open", "closeBody", "ended"}]
  /\ underlay \in [Requests -> Requests \cup {"conn", "nil", None}]
  /\ transport \in [Requests -> Requests \cup {None}]
  /\ handshake \in [Requests -> {"none", "start", "waiting", "first", "second", "keep",
                                 "clear", "ended"}]
  /\ failure \in [Requests -> {"closed", "lost", None}]
  /\ err \in [Requests -> {"closed", "lost", None}]
  /\ pipe \in [Requests -> BOOLEAN]
  /\ sawError \in [Requests -> SUBSET {"read", "write"}]
  /\ shouldClose \subseteq Requests
  /\ \A r \in Requests : place[r] = "closeBody" => r \in shouldClose

MadeBefore ==
  /\ cachedTransport # None => Past(cachedTransport)
  /\ \A r \in Requests :
       /\ underlay[r] \in Requests => Past(underlay[r])
       /\ transport[r] # None => Past(transport[r])
       /\ ~Past(r) => handshake[r] = "none" /\ pipe[r]
       /\ handshake[r] # "none" => transport[r] # None

ErrorsKnown ==
  \A r \in Requests :
    /\ handshake[r] \in {"none", "start", "waiting", "keep", "clear"} =>
         failure[r] \notin {"closed", "lost"}
    /\ handshake[r] = "second" => err[r] = failure[r]
    /\ handshake[r] = "ended" /\ failure[r] = "closed" => err[r] = "closed"
    /\ ~pipe[r] => r \in shouldClose \/ handshake[r] = "ended" \/ failure[r] = "lost"

Told ==
  \A r \in Requests :
    "write" \in sawError[r] => handshake[r] = "ended" \/ failure[r] = "lost"

GrpcInv ==
  GrpcTypes /\ MadeBefore /\ ErrorsKnown /\ Told /\ GrpcClient!FailedNotReused

-----------------------------------------------------------------------------
(* Machine.  A tag leads to a client that has this tag, and every listener *)
(* is in the list of what Stop closes.                                     *)
ServerSet == Nat \X Addrs
ClientSet == Nat \X (Tags \cup {NoTag})

Fields ==
  [allServers : Seq(ServerSet), listenCloserList : Seq(ServerSet), running : BOOLEAN,
   allClients : Seq(ClientSet), DefaultOutClient : ClientSet \cup {Direct},
   ClientsTagMap : [Tags -> ClientSet \cup {NoTag}]]

Routed(n) ==
  \A t \in Tags :
    n.ClientsTagMap[t] # NoTag =>
      /\ n.ClientsTagMap[t] \in Machine!Elements(n.allClients)
      /\ Machine!Tag(n.ClientsTagMap[t]) = t

Closable(n, servers) ==
  /\ servers \subseteq Machine!Elements(n.listenCloserList)
  /\ ~n.running => servers = {}

MachineInv == m \in Fields /\ loads \in Nat /\ Routed(m) /\ Closable(m, listening)

-----------------------------------------------------------------------------
(* Tun.  While nothing went wrong the device is held exactly while the     *)
(* server runs, and only then the system differs from what it was.         *)
System ==
  [device : {"none", "made", "own"}, held : BOOLEAN,
   routes : {<<"router">>, <<"tun", "router">>}, dns : {"own", "8.8.8.8"}]

Intact(s) == s.routes = <<"router">> /\ s.dns = "own"

Untroubled ==
  /\ server \in [autoRoute : BOOLEAN, stopped : BOOLEAN, stackCloser : BOOLEAN, tunDev : BOOLEAN]
  /\ system \in System
  /\ server.tunDev = system.held
  /\ server.stackCloser = system.held
  /\ server.stopped => ~system.held
  /\ ~(system.held /\ server.autoRoute) => Intact(system)
  /\ system.held /\ server.autoRoute =>
       /\ system.routes = <<"tun", "router">>
       /\ remembered = [router |-> "router", dns |-> "own"]

TunInv == ~disturbed /\ ~died => Untroubled

-----------------------------------------------------------------------------
LEMMA ReplayStart ==
  ASSUME AntiReplay!Init
  PROVE  ReplayInv
<1> USE TimesAssumption DEF AntiReplay!Init
<1>1. 1..MaxTime \subseteq Nat
  OBVIOUS
<1> QED
  BY <1>1 DEF ReplayInv, ReplayTypes, CheckedInTime, Remembered, AntiReplay!AcceptedOnce

(* Only one step accepts a header, or forgets a session that is over.      *)
LEMMA ReplayStep ==
  ASSUME ReplayInv, AntiReplay!Next
  PROVE  ReplayInv'
<1> USE TimesAssumption DEF ReplayInv, AntiReplay!Goto
<1>1. ASSUME NEW c \in Handshakes,
             AntiReplay!Handshake(c) \/ AntiReplay!LookupAuthid(c) \/ AntiReplay!RecordAuthid(c)
      PROVE  ReplayInv'
  <2> USE <1>1 DEF AntiReplay!Handshake, AntiReplay!LookupAuthid, AntiReplay!RecordAuthid
  <2>1. ReplayTypes'
    BY DEF ReplayTypes
  <2>2. CheckedInTime'
    BY DEF CheckedInTime, ReplayTypes, AntiReplay!InTime
  <2>3. Remembered' /\ AntiReplay!AcceptedOnce'
    BY DEF Remembered, AntiReplay!AcceptedOnce
  <2> QED
    BY <2>1, <2>2, <2>3
<1>2. ASSUME NEW c \in Handshakes, AntiReplay!CheckSession(c) PROVE ReplayInv'
  <2> DEFINE h == header[c]
  <2>1. /\ UNCHANGED <<now, born, header>> /\ h \in Headers
        /\ check[c] = "session" /\ check' = [check EXCEPT ![c] = "done"]
    BY <1>2 DEF AntiReplay!CheckSession, ReplayTypes
  <2>2. CheckedInTime'
    BY <2>1 DEF CheckedInTime, ReplayTypes, AntiReplay!InTime
  <2>3. CASE UNCHANGED <<sessionMap, accepted>>
    <3>1. ReplayTypes'
      BY <2>1, <2>3 DEF ReplayTypes
    <3>2. Remembered' /\ AntiReplay!AcceptedOnce'
      BY <2>1, <2>3 DEF Remembered, AntiReplay!AcceptedOnce
    <3> QED
      BY <2>2, <3>1, <3>2
  <2>4. CASE /\ ~(sessionMap[h] > now)
             /\ sessionMap' = [sessionMap EXCEPT ![h] = now + SessionDuration]
             /\ accepted' = [accepted EXCEPT ![c] = now]
    <3>1. ReplayTypes'
      BY <2>1, <2>4 DEF ReplayTypes
    <3>2. /\ SessionDuration \in Nat /\ MaxTimeGap \in Nat /\ now \in Nat
          /\ \A d \in Handshakes : accepted[d] \in Nat /\ header[d] \in Headers
          /\ \A g \in Headers : sessionMap[g] \in Nat /\ born[g] \in Nat
      BY DEF ReplayTypes
    <3>3. \A d \in Handshakes \ {c} : accepted'[d] = accepted[d]
      BY <2>4 DEF ReplayTypes
    <3>4. accepted'[c] = now
      BY <2>4 DEF ReplayTypes
    <3>5. ASSUME NEW d \in Handshakes, header[d] = h, accepted[d] > 0
          PROVE  accepted[d] <= now /\ accepted[d] + SessionDuration <= now
      BY <2>4, <3>2, <3>5 DEF Remembered
    <3>6. Remembered'
      <4> SUFFICES ASSUME NEW d \in Handshakes, accepted'[d] > 0
                   PROVE  /\ accepted'[d] <= now
                          /\ \/ accepted'[d] + SessionDuration <= sessionMap'[header[d]]
                             \/ accepted'[d] + SessionDuration <= now
        BY <2>1 DEF Remembered
      <4>1. CASE d = c
        <5>1. sessionMap'[header[d]] = now + SessionDuration
          BY <2>1, <2>4, <4>1 DEF ReplayTypes
        <5> QED
          BY <3>2, <3>4, <4>1, <5>1
      <4>2. CASE d # c /\ header[d] = h
        BY <3>3, <3>5, <4>2
      <4>3. CASE d # c /\ header[d] # h
        <5>1. sessionMap'[header[d]] = sessionMap[header[d]]
          BY <2>1, <2>4, <4>3, <3>2 DEF ReplayTypes
        <5> QED
          BY <3>3, <4>3, <5>1 DEF Remembered
      <4> QED
        BY <4>1, <4>2, <4>3
    <3>7. now <= born[h] + MaxTimeGap
      BY <2>1 DEF CheckedInTime, AntiReplay!InTime
    <3>8. AntiReplay!AcceptedOnce'
      <4> SUFFICES ASSUME NEW d \in Handshakes, NEW e \in Handshakes, d # e,
                          header[d] = header[e], accepted'[d] > 0, accepted'[e] > 0,
                          accepted'[d] <= accepted'[e]
                   PROVE  accepted'[d] + SessionDuration <= born[header[d]] + MaxTimeGap
        BY <2>1 DEF AntiReplay!AcceptedOnce
      <4>1. CASE d # c /\ e # c
        BY <3>3, <4>1 DEF AntiReplay!AcceptedOnce
      <4>2. CASE e = c
        <5>1. accepted[d] + SessionDuration <= now /\ accepted'[d] = accepted[d]
          BY <3>3, <3>5, <4>2
        <5> QED
          BY <3>2, <3>7, <4>2, <5>1
      <4>3. CASE d = c
        <5>1. /\ accepted[e] + SessionDuration <= now /\ accepted'[e] = accepted[e]
              /\ accepted[e] <= now
          BY <3>3, <3>5, <4>3
        <5>2. accepted[e] = now
          BY <3>2, <3>4, <4>3, <5>1
        <5> QED
          BY <3>2, <3>4, <3>7, <4>3, <5>1, <5>2
      <4> QED
        BY <4>1, <4>2, <4>3
    <3> QED
      BY <2>2, <3>1, <3>6, <3>8
  <2> QED
    BY <1>2, <2>3, <2>4 DEF AntiReplay!CheckSession
<1>3. CASE AntiReplay!RemoveExpiredAuthids
  BY <1>3 DEF AntiReplay!RemoveExpiredAuthids, ReplayTypes, CheckedInTime, Remembered,
              AntiReplay!InTime, AntiReplay!AcceptedOnce
<1>4. CASE AntiReplay!RemoveExpiredSessions
  <2> USE <1>4 DEF AntiReplay!RemoveExpiredSessions
  <2>1. ReplayTypes'
    BY DEF ReplayTypes
  <2>2. CheckedInTime' /\ AntiReplay!AcceptedOnce'
    BY DEF CheckedInTime, AntiReplay!InTime, AntiReplay!AcceptedOnce
  <2>3. Remembered'
    <3>1. \A h \in Headers : sessionMap'[h] = sessionMap[h] \/ sessionMap[h] < now
      OBVIOUS
    <3> QED
      BY <3>1 DEF Remembered, ReplayTypes
  <2> QED
    BY <2>1, <2>2, <2>3
<1>5. CASE AntiReplay!Tick
  <2> USE <1>5 DEF AntiReplay!Tick
  <2>1. ReplayTypes'
    BY DEF ReplayTypes
  <2>2. CheckedInTime'
    BY DEF CheckedInTime
  <2>3. Remembered' /\ AntiReplay!AcceptedOnce'
    BY DEF Remembered, ReplayTypes, AntiReplay!AcceptedOnce
  <2> QED
    BY <2>1, <2>2, <2>3
<1> QED
  BY <1>1, <1>2, <1>3, <1>4, <1>5 DEF AntiReplay!Next

-----------------------------------------------------------------------------
LEMMA DnsStart ==
  ASSUME DnsMachine!Init
  PROVE  DnsInv
BY ServersAssumption
   DEF DnsMachine!Init, DnsInv, DnsTypes, UsesOwn, Holding, DnsMachine!BackupPromoted,
       DnsMachine!Servers, DnsMachine!Reading, DnsMachine!Writing

(* A dns.Conn belongs to one DnsConn at a time.                            *)
LEMMA OneSlotOfConn ==
  ASSUME DnsInv, NEW s \in {Default} \cup conns, NEW t \in {Default} \cup conns,
         DnsMachine!ConnOf(s) = DnsMachine!ConnOf(t)
  PROVE  s = t
BY DEF DnsInv, DnsMachine!ConnOf

LEMMA DnsStep ==
  ASSUME DnsInv, DnsMachine!Next
  PROVE  DnsInv'
<1> USE ServersAssumption
    DEF DnsInv, DnsMachine!Goto, DnsMachine!machine, DnsMachine!locks, DnsMachine!asked,
        DnsMachine!chosen
<1>1. ASSUME NEW q \in Queries,
             \/ DnsMachine!RLock(q) \/ DnsMachine!WaitToWrite(q) \/ DnsMachine!Lookup(q)
             \/ DnsMachine!Evict(q) \/ DnsMachine!FromHosts(q) \/ DnsMachine!Redial(q)
             \/ DnsMachine!Deferred(q) \/ DnsMachine!Store(q) \/ DnsMachine!Return(q)
      PROVE  DnsInv'
  <2> USE <1>1 DEF DnsMachine!RLock, DnsMachine!WaitToWrite, DnsMachine!Lookup,
                   DnsMachine!Evict, DnsMachine!FromHosts, DnsMachine!Redial,
                   DnsMachine!Deferred, DnsMachine!Store, DnsMachine!Return,
                   DnsMachine!Writes, DnsMachine!Settled
  <2>1. DnsTypes'
    BY DEF DnsTypes, DnsMachine!Reading, DnsMachine!Writing
  <2>2. /\ UNCHANGED <<conns, defConn, holder>>
        /\ \A r \in Queries :
             at'[r] \in {"lock", "exchange", "redial"} =>
               at'[r] = at[r] /\ slot'[r] = slot[r] /\ conn'[r] = conn[r]
    BY DEF DnsTypes
  <2>3. UsesOwn' /\ Holding'
    BY <2>2 DEF UsesOwn, Holding, DnsMachine!ConnOf
  <2> QED
    BY <2>1, <2>2, <2>3 DEF DnsMachine!BackupPromoted
<1>2. ASSUME NEW q \in Queries, DnsMachine!Choose(q) PROVE DnsInv'
  <2> USE <1>2 DEF DnsMachine!Choose
  <2>1. DnsTypes'
    BY DEF DnsTypes, DnsMachine!Reading, DnsMachine!Writing, DnsMachine!Servers,
           DnsMachine!ConnOf
  <2>2. UsesOwn' /\ Holding'
    BY DEF UsesOwn, Holding, DnsTypes, DnsMachine!ConnOf
  <2> QED
    BY <2>1, <2>2 DEF DnsMachine!BackupPromoted
<1>3. ASSUME NEW q \in Queries, DnsMachine!Lock(q) PROVE DnsInv'
  <2> USE <1>3 DEF DnsMachine!Lock
  <2>1. DnsTypes'
    BY DEF DnsTypes, DnsMachine!Reading, DnsMachine!Writing
  <2>2. UsesOwn'
    BY DEF UsesOwn, DnsTypes, DnsMachine!ConnOf
  <2>3. Holding'
    BY DEF Holding, UsesOwn, DnsTypes, DnsMachine!Servers
  <2> QED
    BY <2>1, <2>2, <2>3 DEF DnsMachine!BackupPromoted
<1>4. ASSUME NEW q \in Queries,
             \/ DnsMachine!Answered(q) \/ DnsMachine!Aliased(q) \/ DnsMachine!NotAnswered(q)
             \/ DnsMachine!Fails(q)
      PROVE  DnsInv'
  <2> USE <1>4 DEF DnsMachine!Answered, DnsMachine!Aliased, DnsMachine!NotAnswered,
                   DnsMachine!Fails, DnsMachine!Unlocked
  <2>1. DnsTypes'
    BY DEF DnsTypes, DnsMachine!Reading, DnsMachine!Writing
  <2>2. UsesOwn'
    BY DEF UsesOwn, DnsTypes, DnsMachine!ConnOf
  <2>3. /\ slot' = slot /\ holder' = [holder EXCEPT ![slot[q]] = None]
        /\ at[q] = "exchange" /\ at'[q] # "exchange"
        /\ \A r \in Queries \ {q} : at'[r] = at[r]
    BY DEF DnsTypes
  <2>4. Holding'
    BY <2>3 DEF Holding, DnsTypes
  <2> QED
    BY <2>1, <2>2, <2>4 DEF DnsMachine!BackupPromoted
<1>5. ASSUME NEW q \in Queries, DnsMachine!Demote(q) PROVE DnsInv'
  <2> USE <1>5 DEF DnsMachine!Demote, DnsMachine!Writes
  <2>1. DnsTypes'
    BY DEF DnsTypes, DnsMachine!Reading, DnsMachine!Writing, DnsMachine!Settled
  <2>2. \A r \in Queries : at[r] \notin {"lock", "exchange", "redial"}
    BY DEF DnsMachine!Readers, DnsMachine!Reading
  <2>3. \A r \in Queries : at'[r] \notin {"lock", "exchange", "redial"}
    BY <2>2 DEF DnsTypes, DnsMachine!Settled
  <2>4. UsesOwn' /\ Holding'
    BY <2>3 DEF UsesOwn, Holding
  <2>5. defConn' \notin conns' /\ DnsMachine!BackupPromoted'
    BY DEF DnsTypes, DnsMachine!BackupPromoted
  <2> QED
    BY <2>1, <2>4, <2>5
<1>6. ASSUME NEW d \in DnsMachine!Domains, DnsMachine!Expire(d) PROVE DnsInv'
  BY <1>6 DEF DnsMachine!Expire, DnsTypes, UsesOwn, Holding, DnsMachine!ConnOf,
              DnsMachine!BackupPromoted
<1> QED
  BY <1>1, <1>2, <1>3, <1>4, <1>5, <1>6 DEF DnsMachine!Next, DnsMachine!Step

LEMMA DnsUsers ==
  ASSUME DnsInv
  PROVE  DnsMachine!OneUserPerConn
<1> SUFFICES ASSUME NEW q \in Queries, NEW r \in Queries,
                    at[q] = "exchange", at[r] = "exchange", conn[q] = conn[r]
             PROVE  q = r
  BY DEF DnsMachine!OneUserPerConn
<1>1. slot[q] = slot[r]
  BY OneSlotOfConn DEF DnsInv, UsesOwn
<1> QED
  BY <1>1 DEF DnsInv, Holding

-----------------------------------------------------------------------------
LEMMA GrpcStart ==
  ASSUME GrpcClient!Init
  PROVE  GrpcInv
<1>1. None \notin {"closed", "lost"}
  BY NoneAssumption DEF Words
<1> QED
  BY <1>1, RequestsAssumption
     DEF GrpcClient!Init, GrpcInv, GrpcTypes, MadeBefore, ErrorsKnown, Told, Past,
         GrpcClient!FailedNotReused

(* Before its transport is there: what a request finds was made by one     *)
(* that is past this.                                                      *)
LEMMA GrpcDials ==
  ASSUME GrpcInv, NEW r \in Requests,
         \/ GrpcClient!CheckCached(r) \/ GrpcClient!TakeCached(r) \/ GrpcClient!DialConn(r)
         \/ GrpcClient!DialSubConn(r)
  PROVE  GrpcInv'
<1> USE RequestsAssumption
    DEF GrpcInv, GrpcClient!ofConn, GrpcClient!ofHandshake, GrpcClient!ofUser
<1>1. CASE GrpcClient!CheckCached(r) \/ GrpcClient!TakeCached(r) \/ GrpcClient!DialConn(r)
  <2> USE <1>1 DEF GrpcClient!CheckCached, GrpcClient!TakeCached, GrpcClient!DialConn
  <2>1. GrpcTypes'
    BY DEF GrpcTypes
  <2>2. /\ ~Past(r) /\ UNCHANGED <<cachedTransport, transport, handshake, failure, err, pipe,
                                   shouldClose, sawError>>
        /\ \A t \in Requests \ {r} : place'[t] = place[t] /\ underlay'[t] = underlay[t]
        /\ place'[r] # "open"
        /\ underlay'[r] \in Requests => Past(underlay'[r])
    BY DEF GrpcTypes, Past, MadeBefore
  <2>3. \A t \in Requests : Past(t) => Past(t)' /\ t # r
    BY <2>2 DEF Past, GrpcTypes
  <2>4. MadeBefore'
    <3>1. cachedTransport' # None => Past(cachedTransport)'
      BY <2>2, <2>3 DEF MadeBefore, GrpcTypes, Past
    <3>2. ASSUME NEW t \in Requests
          PROVE  /\ underlay'[t] \in Requests =>
                      place'[underlay'[t]] \notin {"check", "take", "dial", "sub"}
                 /\ transport'[t] # None =>
                      place'[transport'[t]] \notin {"check", "take", "dial", "sub"}
                 /\ ~Past(t)' => handshake'[t] = "none" /\ pipe'[t]
                 /\ handshake'[t] # "none" => transport'[t] # None
      BY <2>2, <2>3 DEF MadeBefore, GrpcTypes, Past
    <3> QED
      BY <3>1, <3>2 DEF MadeBefore, Past
  <2>5. ErrorsKnown'
    BY <2>2 DEF ErrorsKnown
  <2>6. Told'
    BY <2>2 DEF Told
  <2>7. GrpcClient!FailedNotReused'
    BY <2>2 DEF GrpcClient!FailedNotReused
  <2> QED
    BY <2>1, <2>4, <2>5, <2>6, <2>7
<1>2. CASE GrpcClient!DialSubConn(r)
  <2> USE <1>2 DEF GrpcClient!DialSubConn
  <2>1. GrpcTypes'
    BY DEF GrpcTypes
  <2>2. /\ ~Past(r) /\ handshake[r] = "none" /\ pipe[r] /\ "write" \notin sawError[r]
        /\ failure[r] \notin {"closed", "lost"}
        /\ UNCHANGED <<underlay, failure, err, pipe, shouldClose, sawError>>
        /\ \A t \in Requests \ {r} :
             place'[t] = place[t] /\ transport'[t] = transport[t] /\ handshake'[t] = handshake[t]
        /\ place'[r] = "open" /\ handshake'[r] = "start"
        /\ transport'[r] = r \/ (transport'[r] = underlay[r] /\ underlay[r] \in Requests)
        /\ cachedTransport' \in {cachedTransport, r}
    <3>1. ~Past(r)
      BY DEF Past
    <3>2. /\ handshake[r] = "none" /\ pipe[r] /\ failure[r] \notin {"closed", "lost"}
          /\ "write" \notin sawError[r]
      BY <3>1 DEF MadeBefore, ErrorsKnown, Told
    <3>3. CASE underlay[r] \in Requests
      BY <3>1, <3>2, <3>3 DEF GrpcTypes
    <3>4. CASE underlay[r] \notin Requests
      BY <3>1, <3>2, <3>4 DEF GrpcTypes
    <3> QED
      BY <3>3, <3>4
  <2>3. \A t \in Requests : Past(t) \/ t = r => place'[t] \notin {"check", "take", "dial", "sub"}
    BY <2>2 DEF Past, GrpcTypes
  <2>4. MadeBefore'
    BY <2>2, <2>3 DEF MadeBefore, GrpcTypes, Past
  <2>5. ErrorsKnown' /\ Told'
    BY <2>2 DEF ErrorsKnown, Told, GrpcTypes
  <2>6. GrpcClient!FailedNotReused'
    <3>1. \A t \in Requests : "write" \in sawError[t] => t # r /\ handshake[t] # "none"
      BY <2>2 DEF ErrorsKnown, Told
    <3>2. \A t \in Requests : "write" \in sawError[t] => transport[t] \notin {r, None}
      BY <2>2, <3>1 DEF MadeBefore
    <3> QED
      BY <2>2, <3>1, <3>2 DEF GrpcClient!FailedNotReused
  <2> QED
    BY <2>1, <2>4, <2>5, <2>6
<1> QED
  BY <1>1, <1>2

(* Afterwards: nobody finds a transport that was forgotten.                *)
LEMMA GrpcRequests ==
  ASSUME GrpcInv, NEW r \in Requests,
         \/ GrpcClient!RoundTrip(r) \/ GrpcClient!LoseResponse(r) \/ GrpcClient!Fail(r)
         \/ \E good \in BOOLEAN : GrpcClient!Respond(r, good)
         \/ GrpcClient!KeepResponse(r) \/ GrpcClient!ClearCache(r) \/ GrpcClient!LoseBody(r)
         \/ GrpcClient!WriteFails(r) \/ GrpcClient!ReadFails(r) \/ GrpcClient!Close(r)
         \/ GrpcClient!CloseBody(r) \/ GrpcClient!ConnCloses(r)
  PROVE  GrpcInv'
<1> USE RequestsAssumption
    DEF GrpcInv, GrpcClient!ofConn, GrpcClient!ofHandshake, GrpcClient!ofUser
<1>1. ASSUME UNCHANGED <<underlay, transport>>, GrpcTypes', ErrorsKnown', Told',
             cachedTransport' \in {cachedTransport, None},
             \A t \in Requests : /\ Past(t) => Past(t)'
                                 /\ place'[t] = place[t] \/ Past(t)
                                 /\ handshake'[t] = handshake[t] \/ handshake[t] # "none"
                                 /\ pipe'[t] = pipe[t] \/ Past(t),
             GrpcClient!FailedNotReused'
      PROVE  GrpcInv'
  <2>1. MadeBefore'
    BY <1>1 DEF MadeBefore, Past, GrpcTypes
  <2> QED
    BY <1>1, <2>1
<1>2. \A t \in Requests : "write" \in sawError[t] => transport[t] # None
  BY DEF ErrorsKnown, Told, MadeBefore
<1>3. CASE GrpcClient!RoundTrip(r) \/ GrpcClient!LoseResponse(r) \/ GrpcClient!ConnCloses(r)
           \/ GrpcClient!KeepResponse(r) \/ GrpcClient!ClearCache(r) \/ GrpcClient!LoseBody(r)
           \/ \E good \in BOOLEAN : GrpcClient!Respond(r, good)
  <2> USE <1>3 DEF GrpcClient!RoundTrip, GrpcClient!LoseResponse, GrpcClient!ConnCloses,
                   GrpcClient!KeepResponse, GrpcClient!ClearCache, GrpcClient!Respond,
                   GrpcClient!LoseBody
  <2>1. GrpcTypes'
    <3> USE DEF GrpcTypes
    <3>1. CASE GrpcClient!RoundTrip(r)
      BY <3>1
    <3>2. CASE GrpcClient!LoseResponse(r) \/ GrpcClient!LoseBody(r)
      BY <3>2
    <3>3. CASE GrpcClient!KeepResponse(r) \/ GrpcClient!ClearCache(r)
      BY <3>3
    <3>4. CASE GrpcClient!ConnCloses(r) \/ \E good \in BOOLEAN : GrpcClient!Respond(r, good)
      BY <3>4
    <3> QED
      BY <1>3, <3>1, <3>2, <3>3, <3>4
  <2>2. ErrorsKnown' /\ Told'
    BY DEF ErrorsKnown, Told, GrpcTypes
  <2>3. GrpcClient!FailedNotReused'
    BY <1>2 DEF GrpcClient!FailedNotReused, ErrorsKnown, Told, GrpcTypes
  <2> QED
    BY <1>1, <2>1, <2>2, <2>3 DEF MadeBefore, Past, GrpcTypes
<1>4. CASE GrpcClient!Fail(r)
  <2>1. UNCHANGED <<cachedTransport, place, underlay, transport, shouldClose, sawError, failure>>
    BY <1>4 DEF GrpcClient!Fail
  <2>2. \/ /\ handshake[r] = "first" /\ handshake' = [handshake EXCEPT ![r] = "second"]
           /\ err' = [err EXCEPT ![r] = failure[r]] /\ pipe' = pipe
        \/ /\ handshake[r] = "second" /\ handshake' = [handshake EXCEPT ![r] = "ended"]
           /\ pipe' = [pipe EXCEPT ![r] = FALSE] /\ err' = err
    <3>1. CASE handshake[r] = "first"
      BY <1>4, <3>1 DEF GrpcClient!Fail, GrpcClient!FailureSteps, GrpcTypes
    <3>2. CASE handshake[r] = "second"
      BY <1>4, <3>2 DEF GrpcClient!Fail, GrpcClient!FailureSteps, GrpcTypes
    <3> QED
      BY <1>4, <3>1, <3>2 DEF GrpcClient!Fail
  <2>3. GrpcTypes'
    BY <2>1, <2>2 DEF GrpcTypes
  <2>4. ErrorsKnown' /\ Told'
    BY <2>1, <2>2 DEF ErrorsKnown, Told, GrpcTypes
  <2>5. GrpcClient!FailedNotReused'
    BY <2>1 DEF GrpcClient!FailedNotReused
  <2> QED
    BY <1>1, <2>1, <2>2, <2>3, <2>4, <2>5 DEF MadeBefore, Past, GrpcTypes
<1>5. CASE GrpcClient!WriteFails(r)
  <2> USE <1>5 DEF GrpcClient!WriteFails, GrpcClient!Tell
  <2>1. GrpcTypes'
    BY DEF GrpcTypes
  <2>2. ErrorsKnown'
    BY DEF ErrorsKnown
  <2>3. "write" \in sawError'[r] =>
          \/ "write" \in sawError[r] /\ cachedTransport' \in {cachedTransport, None}
          \/ handshake[r] = "ended" /\ (failure[r] = "closed" => cachedTransport' = None)
          \/ failure[r] = "lost"
    BY DEF ErrorsKnown
  <2>4. \A t \in Requests \ {r} : sawError'[t] = sawError[t]
    BY DEF GrpcTypes
  <2>5. Told'
    BY <2>3, <2>4 DEF Told
  <2>6. transport[r] # None /\ cachedTransport' \in {cachedTransport, None}
    OBVIOUS
  <2>7. GrpcClient!FailedNotReused'
    BY <1>2, <2>3, <2>4, <2>6 DEF GrpcClient!FailedNotReused
  <2> QED
    BY <1>1, <2>1, <2>2, <2>5, <2>7 DEF Past, GrpcTypes
<1>6. CASE GrpcClient!ReadFails(r)
  <2> USE <1>6 DEF GrpcClient!ReadFails, GrpcClient!Tell
  <2>1. GrpcTypes'
    BY DEF GrpcTypes
  <2>2. \A t \in Requests : "write" \in sawError'[t] => "write" \in sawError[t]
    BY DEF GrpcTypes
  <2>3. ErrorsKnown' /\ Told' /\ GrpcClient!FailedNotReused'
    BY <2>2 DEF ErrorsKnown, Told, GrpcClient!FailedNotReused
  <2> QED
    BY <1>1, <2>1, <2>3 DEF Past, GrpcTypes
<1>7. CASE GrpcClient!Close(r) \/ GrpcClient!CloseBody(r)
  <2> USE <1>7 DEF GrpcClient!Close, GrpcClient!CloseBody
  <2>1. GrpcTypes'
    BY DEF GrpcTypes
  <2>2. ErrorsKnown' /\ Told' /\ GrpcClient!FailedNotReused'
    BY DEF ErrorsKnown, Told, GrpcTypes, GrpcClient!FailedNotReused
  <2> QED
    BY <1>1, <2>1, <2>2 DEF Past, GrpcTypes
<1> QED
  BY <1>3, <1>4, <1>5, <1>6, <1>7

LEMMA GrpcStep ==
  ASSUME GrpcInv, GrpcClient!Next
  PROVE  GrpcInv'
BY GrpcDials, GrpcRequests DEF GrpcClient!Next

-----------------------------------------------------------------------------
(* Sequences: what is in the parts of one is in the whole.                 *)
LEMMA ElementsOfTypes ==
  ASSUME NEW S, NEW s \in Seq(S)
  PROVE  Machine!Elements(s) \subseteq S /\ Machine!Elements(s) = {s[i] : i \in 1..Len(s)}
BY LenProperties DEF Machine!Elements

LEMMA ElementsOfJoined ==
  ASSUME NEW S, NEW a \in Seq(S), NEW b \in Seq(S)
  PROVE  Machine!Elements(a \o b) = Machine!Elements(a) \cup Machine!Elements(b)
<1>1. a \o b \in Seq(S) /\ Len(a) \in Nat /\ Len(b) \in Nat
  BY ConcatProperties, LenProperties
<1>2. /\ Machine!Elements(a \o b) = {(a \o b)[i] : i \in 1..Len(a) + Len(b)}
      /\ Machine!Elements(a) = {a[i] : i \in 1..Len(a)}
      /\ Machine!Elements(b) = {b[i] : i \in 1..Len(b)}
  <2>1. Len(a \o b) = Len(a) + Len(b)
    BY ConcatProperties
  <2>2. Machine!Elements(a \o b) = {(a \o b)[i] : i \in 1..Len(a \o b)}
    BY <1>1, ElementsOfTypes
  <2>3. /\ Machine!Elements(a) = {a[i] : i \in 1..Len(a)}
        /\ Machine!Elements(b) = {b[i] : i \in 1..Len(b)}
    BY ElementsOfTypes
  <2> QED
    BY <2>1, <2>2, <2>3
<1>3. \A i \in 1..Len(a) + Len(b) :
        (a \o b)[i] = IF i <= Len(a) THEN a[i] ELSE b[i - Len(a)]
  BY ConcatProperties
<1>4. ASSUME NEW x \in Machine!Elements(a) PROVE x \in Machine!Elements(a \o b)
  <2>1. PICK i \in 1..Len(a) : x = a[i]
    BY <1>2, <1>4
  <2>2. i \in 1..Len(a) + Len(b) /\ (a \o b)[i] = x
    BY <1>1, <1>3, <2>1
  <2> QED
    BY <1>2, <2>2
<1>5. ASSUME NEW x \in Machine!Elements(b) PROVE x \in Machine!Elements(a \o b)
  <2>1. PICK i \in 1..Len(b) : x = b[i]
    BY <1>2, <1>5
  <2>2. /\ Len(a) + i \in 1..Len(a) + Len(b) /\ ~(Len(a) + i <= Len(a))
        /\ (Len(a) + i) - Len(a) = i
    BY <1>1, <2>1
  <2>3. (a \o b)[Len(a) + i] = x
    BY <1>3, <2>1, <2>2
  <2> QED
    BY <1>2, <2>2, <2>3
<1>6. ASSUME NEW x \in Machine!Elements(a \o b)
      PROVE  x \in Machine!Elements(a) \cup Machine!Elements(b)
  <2>1. PICK i \in 1..Len(a) + Len(b) : x = (a \o b)[i]
    BY <1>2, <1>6
  <2>2. CASE i <= Len(a)
    BY <1>1, <1>2, <1>3, <2>1, <2>2
  <2>3. CASE ~(i <= Len(a))
    <3>1. i - Len(a) \in 1..Len(b)
      BY <1>1, <2>1, <2>3
    <3> QED
      BY <1>2, <1>3, <2>1, <2>3, <3>1
  <2> QED
    BY <2>2, <2>3
<1> QED
  BY <1>4, <1>5, <1>6

LEMMA ElementsOfOne ==
  ASSUME NEW S, NEW x \in S
  PROVE  /\ <<x>> \in Seq(S) /\ Len(<<x>>) = 1 /\ <<x>>[1] = x
         /\ Machine!Elements(<<x>>) = {x}
<1>1. <<x>> \in Seq(S) /\ Len(<<x>>) = 1 /\ <<x>>[1] = x
  OBVIOUS
<1>2. Machine!Elements(<<x>>) = {<<x>>[i] : i \in 1..1}
  BY <1>1, ElementsOfTypes
<1>3. \A i \in 1..1 : i = 1
  OBVIOUS
<1> DEFINE one == <<x>>
<1>4. Machine!Elements(one) = {one[i] : i \in 1..1} /\ one[1] = x
  BY <1>1, <1>2
<1> HIDE DEF one
<1>5. Machine!Elements(one) = {x}
  BY <1>3, <1>4
<1> QED
  BY <1>1, <1>5 DEF one

LEMMA ElementsOfNone ==
  Machine!Elements(<<>>) = {}
BY DEF Machine!Elements

LEMMA ElementsOfAppended ==
  ASSUME NEW S, NEW a \in Seq(S), NEW x \in S
  PROVE  /\ Append(a, x) \in Seq(S)
         /\ Machine!Elements(Append(a, x)) = Machine!Elements(a) \cup {x}
<1>1. Append(a, x) = a \o <<x>>
  <2>1. Append(a, x) \in Seq(S) /\ a \o <<x>> \in Seq(S)
    BY ElementsOfOne, ConcatProperties, AppendProperties
  <2>2. Len(a) \in Nat /\ Len(Append(a, x)) = Len(a) + 1 /\ Len(a \o <<x>>) = Len(a) + 1
    BY ElementsOfOne, ConcatProperties, AppendProperties, LenProperties
  <2>3. \A i \in 1..Len(a) + 1 : Append(a, x)[i] = (a \o <<x>>)[i]
    <3> SUFFICES ASSUME NEW i \in 1..Len(a) + 1
                 PROVE  Append(a, x)[i] = (a \o <<x>>)[i]
      OBVIOUS
    <3>1. (a \o <<x>>)[i] = IF i <= Len(a) THEN a[i] ELSE <<x>>[i - Len(a)]
      BY <2>2, ElementsOfOne, ConcatProperties
    <3>2. CASE i <= Len(a)
      BY <2>2, <3>1, <3>2, AppendProperties
    <3>3. CASE i = Len(a) + 1
      <4>1. i - Len(a) = 1 /\ ~(i <= Len(a))
        BY <2>2, <3>3
      <4>2. Append(a, x)[i] = x
        BY <3>3, AppendProperties
      <4> QED
        BY <3>1, <4>1, <4>2, ElementsOfOne
    <3> QED
      BY <2>2, <3>2, <3>3
  <2> QED
    BY <2>1, <2>2, <2>3, SeqEqual
<1> QED
  BY <1>1, ElementsOfOne, ElementsOfJoined, ConcatProperties

(* Without the one at an index, all others are there.                      *)
LEMMA ElementsOfRemaining ==
  ASSUME NEW S, NEW a \in Seq(S), NEW i \in DOMAIN a
  PROVE  /\ Machine!RemoveAt(a, i) \in Seq(S)
         /\ Machine!Elements(Machine!RemoveAt(a, i)) \subseteq Machine!Elements(a)
         /\ Machine!Elements(a) \ {a[i]} \subseteq Machine!Elements(Machine!RemoveAt(a, i))
<1> DEFINE front == SubSeq(a, 1, i - 1)
           back == SubSeq(a, i + 1, Len(a))
<1>1. Len(a) \in Nat /\ i \in 1..Len(a) /\ \A j \in 1..Len(a) : a[j] \in S
  BY LenProperties
<1>2. /\ front \in Seq(S) /\ Len(front) = i - 1
      /\ \A j \in 1..i - 1 : front[j] = a[j]
  <2>1. \A j \in 1..i - 1 : a[j] \in S
    BY <1>1
  <2>2. /\ SubSeq(a, 1, i - 1) \in Seq(S)
        /\ Len(SubSeq(a, 1, i - 1)) = IF 1 <= i - 1 THEN i - 1 - 1 + 1 ELSE 0
        /\ \A j \in 1 .. i - 1 - 1 + 1 : SubSeq(a, 1, i - 1)[j] = a[1 + j - 1]
    BY <1>1, <2>1, SubSeqProperties
  <2>3. i - 1 - 1 + 1 = i - 1 /\ (~(1 <= i - 1) => i - 1 = 0)
        /\ \A j \in 1..i - 1 : 1 + j - 1 = j
    BY <1>1
  <2> HIDE DEF front
  <2> QED
    BY <2>2, <2>3 DEF front
<1>3. /\ back \in Seq(S) /\ Len(back) = Len(a) - i
      /\ \A j \in 1..Len(a) - i : back[j] = a[i + j]
  <2>1. \A j \in i + 1..Len(a) : a[j] \in S
    BY <1>1
  <2>2. /\ SubSeq(a, i + 1, Len(a)) \in Seq(S)
        /\ Len(SubSeq(a, i + 1, Len(a)))
             = IF i + 1 <= Len(a) THEN Len(a) - (i + 1) + 1 ELSE 0
        /\ \A j \in 1 .. Len(a) - (i + 1) + 1 :
             SubSeq(a, i + 1, Len(a))[j] = a[i + 1 + j - 1]
    BY <1>1, <2>1, SubSeqProperties
  <2>3. Len(a) - (i + 1) + 1 = Len(a) - i /\ (~(i + 1 <= Len(a)) => Len(a) - i = 0)
        /\ \A j \in 1..Len(a) - i : i + 1 + j - 1 = i + j
    BY <1>1
  <2> QED
    BY <2>2, <2>3
<1>4. Machine!RemoveAt(a, i) = front \o back
  BY DEF Machine!RemoveAt
<1> HIDE DEF front, back
<1>5. /\ Machine!RemoveAt(a, i) \in Seq(S)
      /\ Machine!Elements(Machine!RemoveAt(a, i))
           = Machine!Elements(front) \cup Machine!Elements(back)
  BY <1>2, <1>3, <1>4, ConcatProperties, ElementsOfJoined
<1>6. /\ Machine!Elements(a) = {a[j] : j \in 1..Len(a)}
      /\ Machine!Elements(front) = {front[j] : j \in 1..i - 1}
      /\ Machine!Elements(back) = {back[j] : j \in 1..Len(a) - i}
  BY <1>2, <1>3, ElementsOfTypes
<1>7. Machine!Elements(front) \cup Machine!Elements(back) \subseteq Machine!Elements(a)
  <2>1. \A j \in 1..i - 1 : j \in 1..Len(a)
    BY <1>1
  <2>2. \A j \in 1..Len(a) - i : i + j \in 1..Len(a)
    BY <1>1
  <2> QED
    BY <1>2, <1>3, <1>6, <2>1, <2>2
<1>8. ASSUME NEW x \in Machine!Elements(a), x # a[i]
      PROVE  x \in Machine!Elements(front) \cup Machine!Elements(back)
  <2>1. PICK j \in 1..Len(a) : x = a[j]
    BY <1>6, <1>8
  <2>2. j \in 1..i - 1 \/ j - i \in 1..Len(a) - i
    BY <1>1, <1>8, <2>1
  <2>3. j - i \in 1..Len(a) - i => i + (j - i) = j
    BY <1>1, <2>1
  <2> QED
    BY <1>2, <1>3, <1>6, <2>1, <2>2, <2>3
<1> QED
  BY <1>5, <1>7, <1>8

(* The largest of some indices is one of them.                             *)
LEMMA LargestIndex ==
  ASSUME NEW n \in Nat, NEW T \in SUBSET (1..n), T # {}
  PROVE  Machine!Max(T) \in T
<1> DEFINE R == {n - j : j \in T}
<1>1. R \subseteq Nat /\ R # {}
  <2>1. \A j \in T : n - j \in Nat
    OBVIOUS
  <2>2. PICK j \in T : TRUE
    OBVIOUS
  <2>3. n - j \in R
    OBVIOUS
  <2> QED
    BY <2>1, <2>3
<1>2. PICK x \in R : \A y \in R : ~(<<y, x>> \in OpToRel(<, Nat))
  BY <1>1, WFMin, NatLessThanWellFounded
<1>3. \A y \in R : ~(y < x)
  BY <1>1, <1>2 DEF OpToRel
<1>4. PICK j \in T : x = n - j
  OBVIOUS
<1>5. \A k \in T : j >= k
  <2> SUFFICES ASSUME NEW k \in T PROVE j >= k
    OBVIOUS
  <2>1. ~(n - k < n - j)
    BY <1>3, <1>4
  <2> QED
    BY <2>1
<1> QED
  BY <1>5 DEF Machine!Max

-----------------------------------------------------------------------------
(* What the methods of the machine do to its fields.                       *)
LEMMA FieldsOf ==
  ASSUME NEW n \in Fields
  PROVE  /\ n.allServers \in Seq(ServerSet) /\ n.listenCloserList \in Seq(ServerSet)
         /\ n.running \in BOOLEAN /\ n.allClients \in Seq(ClientSet)
         /\ n.DefaultOutClient \in ClientSet \cup {Direct}
         /\ n.ClientsTagMap \in [Tags -> ClientSet \cup {NoTag}]
BY DEF Fields

(* What can be listened for are servers of the list.                       *)
LEMMA ListenedAreServers ==
  ASSUME NEW list \in Seq(ServerSet), NEW busy, NEW ok \in Machine!Listened(list, busy)
  PROVE  ok \in Seq(ServerSet) /\ (list = <<>> => ok = <<>>)
<1>1. PICK k \in 0..Len(list) : ok \in {[i \in 1..k |-> list[f[i]]] :
                                          f \in Machine!Increasing(k, Len(list))}
  BY DEF Machine!Listened
<1>2. PICK f \in Machine!Increasing(k, Len(list)) : ok = [i \in 1..k |-> list[f[i]]]
  BY <1>1
<1>3. Len(list) \in Nat /\ k \in Nat /\ f \in [1..k -> 1..Len(list)]
  BY <1>1, <1>2, LenProperties DEF Machine!Increasing
<1>4. \A i \in 1..k : list[f[i]] \in ServerSet
  BY <1>3, ElementOfSeq
<1>5. [i \in 1..k |-> list[f[i]]] \in Seq(ServerSet)
  BY <1>3, <1>4, IsASeq
<1>6. ASSUME list = <<>> PROVE ok = <<>>
  <2>1. k = 0
    BY <1>1, <1>6, EmptySeq
  <2>2. ok \in Seq(ServerSet) /\ Len(ok) = 0
    BY <1>2, <1>5, <2>1
  <2> QED
    BY <2>2, EmptySeq
<1> QED
  BY <1>2, <1>5, <1>6

LEMMA OfStarted ==
  ASSUME NEW n \in Fields, NEW ok \in Seq(ServerSet), Routed(n)
  PROVE  LET x == Machine!Started(n, ok)
         IN /\ x \in Fields /\ Routed(x) /\ x.running
            /\ Machine!Elements(x.listenCloserList)
                 = Machine!Elements(n.listenCloserList) \cup Machine!Elements(ok)
<1>1. n.listenCloserList \o ok \in Seq(ServerSet)
  BY FieldsOf, ConcatProperties
<1>2. Machine!Elements(n.listenCloserList \o ok)
        = Machine!Elements(n.listenCloserList) \cup Machine!Elements(ok)
  BY FieldsOf, ElementsOfJoined
<1> QED
  BY <1>1, <1>2 DEF Machine!Started, Fields, Routed

LEMMA OfStopped ==
  ASSUME NEW n \in Fields, Routed(n)
  PROVE  LET x == Machine!Stopped(n)
         IN /\ x \in Fields /\ Routed(x) /\ ~x.running
            /\ x.listenCloserList = n.listenCloserList
            /\ x.allServers = n.allServers /\ x.allClients = n.allClients
BY DEF Machine!Stopped, Fields, Routed

LEMMA OfWithServers ==
  ASSUME NEW n \in Fields, NEW list \in Seq(ServerSet), Routed(n)
  PROVE  LET x == Machine!WithServers(n, list)
         IN /\ x \in Fields /\ Routed(x) /\ x.running = n.running
            /\ x.listenCloserList = n.listenCloserList
<1>1. n.allServers \o list \in Seq(ServerSet)
  BY FieldsOf, ConcatProperties
<1> QED
  BY <1>1 DEF Machine!WithServers, Fields, Routed

LEMMA OfWithoutServers ==
  ASSUME NEW n \in Fields, Routed(n)
  PROVE  LET x == Machine!WithoutServers(n)
         IN /\ x \in Fields /\ Routed(x) /\ x.running = n.running
            /\ x.listenCloserList = n.listenCloserList
<1>1. <<>> \in Seq(ServerSet)
  BY EmptySeq
<1> QED
  BY <1>1 DEF Machine!WithoutServers, Fields, Routed

LEMMA OfWithListener ==
  ASSUME NEW n \in Fields, NEW s \in ServerSet, Routed(n)
  PROVE  LET x == Machine!WithListener(n, s)
         IN /\ x \in Fields /\ Routed(x) /\ x.running = n.running
            /\ Machine!Elements(x.listenCloserList)
                 = Machine!Elements(n.listenCloserList) \cup {s}
<1>1. /\ Append(n.allServers, s) \in Seq(ServerSet)
      /\ Append(n.listenCloserList, s) \in Seq(ServerSet)
      /\ Machine!Elements(Append(n.listenCloserList, s))
           = Machine!Elements(n.listenCloserList) \cup {s}
  BY FieldsOf, ElementsOfAppended
<1> QED
  BY <1>1 DEF Machine!WithListener, Fields, Routed

LEMMA OfWithoutServer ==
  ASSUME NEW n \in Fields, NEW i \in DOMAIN n.allServers, Routed(n)
  PROVE  LET x == Machine!WithoutServer(n, i)
         IN /\ x \in Fields /\ Routed(x) /\ x.running = n.running
            /\ x.listenCloserList = n.listenCloserList
<1>1. Machine!RemoveAt(n.allServers, i) \in Seq(ServerSet)
  BY FieldsOf, ElementsOfRemaining
<1> QED
  BY <1>1 DEF Machine!WithoutServer, Fields, Routed

LEMMA OfWithoutListener ==
  ASSUME NEW n \in Fields, NEW i \in DOMAIN n.allServers, Routed(n),
         i \in DOMAIN n.listenCloserList
  PROVE  LET x == Machine!WithoutListener(n, i)
         IN /\ x \in Fields /\ Routed(x) /\ x.running = n.running
            /\ Machine!Elements(n.listenCloserList) \ {n.listenCloserList[i]}
                 \subseteq Machine!Elements(x.listenCloserList)
<1> DEFINE w == Machine!WithoutServer(n, i)
<1>1. /\ w \in Fields /\ Routed(w) /\ w.running = n.running
      /\ w.listenCloserList = n.listenCloserList
  BY OfWithoutServer
<1>2. /\ Machine!RemoveAt(n.listenCloserList, i) \in Seq(ServerSet)
      /\ Machine!Elements(n.listenCloserList) \ {n.listenCloserList[i]}
           \subseteq Machine!Elements(Machine!RemoveAt(n.listenCloserList, i))
  BY FieldsOf, ElementsOfRemaining
<1>3. Machine!WithoutListener(n, i)
        = [w EXCEPT !.listenCloserList = Machine!RemoveAt(n.listenCloserList, i)]
  BY <1>1 DEF Machine!WithoutListener
<1> HIDE DEF w
<1> DEFINE x == [w EXCEPT !.listenCloserList = Machine!RemoveAt(n.listenCloserList, i)]
<1>4. /\ x \in Fields /\ x.running = w.running /\ x.allClients = w.allClients
      /\ x.ClientsTagMap = w.ClientsTagMap
      /\ x.listenCloserList = Machine!RemoveAt(n.listenCloserList, i)
  BY <1>1, <1>2 DEF Fields
<1> QED
  BY <1>1, <1>2, <1>3, <1>4 DEF Routed

(* A tag leads to the last of the new clients that has it; one that no new *)
(* client has, to where it led.                                            *)
LEMMA OfWithClients ==
  ASSUME NEW n \in Fields, NEW list \in Seq(ClientSet), list # <<>>, Routed(n)
  PROVE  LET x == Machine!WithClients(n, list)
         IN /\ x \in Fields /\ Routed(x) /\ x.running = n.running
            /\ x.listenCloserList = n.listenCloserList
<1> DEFINE all == n.allClients \o list
           tagged(t) == {i \in DOMAIN list : Machine!Tag(list[i]) = t}
           last(t) == list[Machine!Max(tagged(t))]
           map == [t \in Tags |->
                     IF tagged(t) = {} THEN n.ClientsTagMap[t] ELSE last(t)]
<1>1. /\ all \in Seq(ClientSet) /\ all # <<>>
      /\ Machine!Elements(all)
           = Machine!Elements(n.allClients) \cup Machine!Elements(list)
  <2>1. n.allClients \o list # <<>>
    BY FieldsOf, ConcatEqualIffEmpty
  <2> QED
    BY <2>1, FieldsOf, ConcatProperties, ElementsOfJoined
<1>2. Head(all) \in ClientSet
  BY <1>1, HeadTailProperties
<1>3. ASSUME NEW t \in Tags, tagged(t) # {}
      PROVE  /\ last(t) \in ClientSet /\ last(t) \in Machine!Elements(all)
             /\ Machine!Tag(last(t)) = t
  <2>1. Len(list) \in Nat /\ DOMAIN list = 1..Len(list)
    BY LenProperties
  <2>2. tagged(t) \in SUBSET (1..Len(list))
    BY <2>1
  <2> HIDE DEF tagged
  <2>3. Machine!Max(tagged(t)) \in tagged(t)
    BY <1>3, <2>1, <2>2, LargestIndex
  <2>4. Machine!Max(tagged(t)) \in 1..Len(list)
    BY <2>2, <2>3
  <2>5. /\ last(t) \in ClientSet
        /\ last(t) \in Machine!Elements(list)
    BY <2>4, ElementOfSeq, ElementsOfTypes
  <2>6. Machine!Tag(last(t)) = t
    BY <2>3 DEF tagged
  <2> QED
    BY <1>1, <2>5, <2>6
<1>4. Machine!WithClients(n, list)
        = [n EXCEPT !.allClients = all, !.DefaultOutClient = Head(all),
                    !.ClientsTagMap = map]
  BY DEF Machine!WithClients
<1> HIDE DEF all, tagged, last
<1>5. map \in [Tags -> ClientSet \cup {NoTag}]
  BY <1>3, FieldsOf
<1>6. \A t \in Tags :
        map[t] # NoTag => map[t] \in Machine!Elements(all) /\ Machine!Tag(map[t]) = t
  BY <1>1, <1>3 DEF Routed
<1> HIDE DEF map
<1> DEFINE x == [n EXCEPT !.allClients = all, !.DefaultOutClient = Head(all),
                          !.ClientsTagMap = map]
<1>7. /\ x \in Fields /\ x.running = n.running
      /\ x.listenCloserList = n.listenCloserList
      /\ x.allClients = all /\ x.ClientsTagMap = map
  BY <1>1, <1>2, <1>5 DEF Fields
<1> QED
  BY <1>4, <1>6, <1>7 DEF Routed

LEMMA OfWithoutNewClient ==
  ASSUME NEW n \in Fields, Routed(n)
  PROVE  LET x == Machine!WithoutNewClient(n)
         IN /\ x \in Fields /\ Routed(x) /\ x.running = n.running
            /\ x.listenCloserList = n.listenCloserList
<1> DEFINE c == IF n.allClients = <<>> THEN Direct ELSE Head(n.allClients)
<1>1. c \in ClientSet \cup {Direct}
  BY FieldsOf, HeadTailProperties
<1>2. Machine!WithoutNewClient(n) = [n EXCEPT !.DefaultOutClient = c]
  BY DEF Machine!WithoutNewClient
<1> HIDE DEF c
<1> QED
  BY <1>1, <1>2 DEF Fields, Routed

(* What other tags lead to has another tag than the client that is         *)
(* deleted, so it is another client.                                       *)
LEMMA OfWithoutClient ==
  ASSUME NEW n \in Fields, NEW i \in DOMAIN n.allClients, Routed(n)
  PROVE  LET x == Machine!WithoutClient(n, i)
         IN /\ x \in Fields /\ Routed(x) /\ x.running = n.running
            /\ x.listenCloserList = n.listenCloserList
<1> DEFINE c == n.allClients[i]
           left == Machine!RemoveAt(n.allClients, i)
           map == Machine!Untagged(n.ClientsTagMap, c)
<1>1. /\ left \in Seq(ClientSet)
      /\ Machine!Elements(n.allClients) \ {c} \subseteq Machine!Elements(left)
  BY FieldsOf, ElementsOfRemaining
<1>2. Machine!WithoutClient(n, i) = [n EXCEPT !.allClients = left, !.ClientsTagMap = map]
  BY DEF Machine!WithoutClient
<1> HIDE DEF left, c
<1>3. map \in [Tags -> ClientSet \cup {NoTag}]
  BY FieldsOf DEF Machine!Untagged
<1>4. \A t \in Tags :
        map[t] # NoTag => map[t] \in Machine!Elements(left) /\ Machine!Tag(map[t]) = t
  BY <1>1 DEF Routed, Machine!Untagged
<1> HIDE DEF map
<1> DEFINE x == [n EXCEPT !.allClients = left, !.ClientsTagMap = map]
<1>5. /\ x \in Fields /\ x.running = n.running
      /\ x.listenCloserList = n.listenCloserList
      /\ x.allClients = left /\ x.ClientsTagMap = map
  BY <1>1, <1>3 DEF Fields
<1> QED
  BY <1>2, <1>4, <1>5 DEF Routed

LEMMA OfWithoutClients ==
  ASSUME NEW n \in Fields, Routed(n)
  PROVE  LET x == Machine!WithoutClients(n)
         IN /\ x \in Fields /\ Routed(x) /\ x.running = n.running
            /\ x.listenCloserList = n.listenCloserList
<1> DEFINE map == [t \in Tags |->
                     IF \E c \in Machine!Elements(n.allClients) : Machine!Tag(c) = t
                     THEN NoTag ELSE n.ClientsTagMap[t]]
<1>1. /\ map \in [Tags -> ClientSet \cup {NoTag}]
      /\ \A t \in Tags : map[t] = NoTag
  BY FieldsOf DEF Routed
<1>2. Machine!WithoutClients(n) = [n EXCEPT !.allClients = <<>>, !.ClientsTagMap = map]
  BY DEF Machine!WithoutClients
<1>3. <<>> \in Seq(ClientSet)
  BY EmptySeq
<1> HIDE DEF map
<1> DEFINE x == [n EXCEPT !.allClients = <<>>, !.ClientsTagMap = map]
<1>4. /\ x \in Fields /\ x.running = n.running
      /\ x.listenCloserList = n.listenCloserList
      /\ x.allClients = <<>> /\ x.ClientsTagMap = map
  BY <1>1, <1>3 DEF Fields
<1> QED
  BY <1>1, <1>2, <1>4 DEF Routed

LEMMA MachineStart ==
  ASSUME Machine!Init
  PROVE  MachineInv
<1>1. <<>> \in Seq(ServerSet) /\ <<>> \in Seq(ClientSet)
  BY EmptySeq
<1>2. m \in Fields /\ loads \in Nat
  BY <1>1 DEF Machine!Init, Fields
<1>3. Routed(m)
  BY DEF Machine!Init, Routed
<1>4. Closable(m, listening)
  BY ElementsOfNone DEF Machine!Init, Closable
<1> QED
  BY <1>2, <1>3, <1>4 DEF MachineInv

(* Start adds what it listens for to the list, if there is a server.       *)
LEMMA Restarts ==
  ASSUME NEW n \in Fields, Routed(n), NEW left, Closable(n, left), Machine!Restart(n, left)
  PROVE  m' \in Fields /\ Routed(m') /\ Closable(m', listening')
<1>1. PICK ok \in Machine!Listened(n.allServers, left) :
        /\ m' = IF n.allServers = <<>> THEN n ELSE Machine!Started(n, ok)
        /\ listening' = left \cup Machine!Elements(ok)
  BY DEF Machine!Restart
<1>2. ok \in Seq(ServerSet) /\ (n.allServers = <<>> => ok = <<>>)
  BY FieldsOf, ListenedAreServers
<1> DEFINE x == Machine!Started(n, ok)
<1>3. /\ x \in Fields /\ Routed(x) /\ x.running
      /\ Machine!Elements(x.listenCloserList)
           = Machine!Elements(n.listenCloserList) \cup Machine!Elements(ok)
  BY <1>2, OfStarted
<1> HIDE DEF x
<1>4. CASE n.allServers = <<>>
  <2>1. m' = n /\ listening' = left
    BY <1>1, <1>2, <1>4, ElementsOfNone
  <2> QED
    BY <2>1
<1>5. CASE n.allServers # <<>>
  <2>1. m' = x /\ listening' = left \cup Machine!Elements(ok)
    BY <1>1, <1>5 DEF x
  <2>2. Closable(x, left \cup Machine!Elements(ok))
    BY <1>3 DEF Closable
  <2> QED
    BY <1>3, <2>1, <2>2
<1> QED
  BY <1>4, <1>5

(* The list of new servers, or of new clients, has the types of these.     *)
LEMMA Relisted ==
  ASSUME NEW n \in Fields, NEW l \in Nat
  PROVE  [i \in DOMAIN n.allServers |-> <<l, Machine!Addr(n.allServers[i])>>] \in Seq(ServerSet)
<1>1. DOMAIN n.allServers = 1..Len(n.allServers) /\ Len(n.allServers) \in Nat
  BY FieldsOf, LenProperties
<1>2. \A i \in 1..Len(n.allServers) : <<l, Machine!Addr(n.allServers[i])>> \in ServerSet
  <2> SUFFICES ASSUME NEW i \in 1..Len(n.allServers)
               PROVE  <<l, Machine!Addr(n.allServers[i])>> \in ServerSet
    OBVIOUS
  <2>1. n.allServers[i] \in ServerSet
    BY FieldsOf, ElementOfSeq
  <2> QED
    BY <2>1 DEF ServerSet, Machine!Addr
<1>3. [i \in 1..Len(n.allServers) |-> <<l, Machine!Addr(n.allServers[i])>>] \in Seq(ServerSet)
  BY <1>1, <1>2, IsASeq
<1> QED
  BY <1>1, <1>3

LEMMA Retagged ==
  ASSUME NEW n \in Fields, NEW l \in Nat, NEW t \in Tags \cup {NoTag},
         NEW i \in DOMAIN n.allClients, NEW list,
         list = [j \in DOMAIN n.allClients |->
                   <<l, IF i = j THEN t ELSE Machine!Tag(n.allClients[j])>>]
  PROVE  list \in Seq(ClientSet) /\ list # <<>>
<1> DEFINE size == Len(n.allClients)
<1>1. DOMAIN n.allClients = 1..size /\ size \in Nat /\ i \in 1..size
  BY FieldsOf, LenProperties
<1>2. \A j \in 1..size : <<l, IF i = j THEN t ELSE Machine!Tag(n.allClients[j])>> \in ClientSet
  <2> SUFFICES ASSUME NEW j \in 1..size
               PROVE  <<l, IF i = j THEN t ELSE Machine!Tag(n.allClients[j])>> \in ClientSet
    OBVIOUS
  <2>1. n.allClients[j] \in ClientSet
    BY FieldsOf, ElementOfSeq
  <2>2. Machine!Tag(n.allClients[j]) \in Tags \cup {NoTag}
    BY <2>1 DEF ClientSet, Machine!Tag
  <2> QED
    BY <2>2 DEF ClientSet
<1> HIDE DEF size
<1>3. list = [j \in 1..size |-> <<l, IF i = j THEN t ELSE Machine!Tag(n.allClients[j])>>]
  BY <1>1
<1>4. [j \in 1..size |-> <<l, IF i = j THEN t ELSE Machine!Tag(n.allClients[j])>>]
        \in Seq(ClientSet)
  BY <1>1, <1>2, IsASeq
<1>5. DOMAIN list = 1..size /\ list \in Seq(ClientSet)
  BY <1>3, <1>4
<1>6. Len(list) \in Nat /\ DOMAIN list = 1..Len(list)
  BY <1>5, LenProperties
<1>7. i \in 1..Len(list)
  BY <1>1, <1>5, <1>6
<1>8. Len(list) # 0
  BY <1>6, <1>7
<1> QED
  BY <1>5, <1>8, EmptySeq

LEMMA MachineStep ==
  ASSUME MachineInv, Machine!Next
  PROVE  MachineInv'
<1>1. /\ m \in Fields /\ loads \in Nat /\ Routed(m) /\ Closable(m, listening)
      /\ loads + 1 \in Nat
  BY DEF MachineInv
<1>2. SUFFICES /\ m' \in Fields /\ loads' \in Nat
               /\ Routed(m') /\ Closable(m', listening')
  BY DEF MachineInv
<1> DEFINE left == listening \ Machine!ClosedByStop(m)
           s == Machine!Stopped(m)
<1>3. left = {}
  BY <1>1 DEF Closable, Machine!ClosedByStop
<1>4. s \in Fields /\ Routed(s) /\ ~s.running /\ Closable(s, {})
  BY <1>1, OfStopped DEF Closable
<1> HIDE DEF left, s
<1>5. CASE Machine!Start
  BY <1>1, <1>5, Restarts DEF Machine!Start
<1>6. CASE Machine!Stop
  <2>1. m' = s /\ listening' = left /\ loads' = loads
    BY <1>6 DEF Machine!Stop, s, left
  <2> QED
    BY <1>1, <1>3, <1>4, <2>1
<1>7. CASE Machine!LoadListen
  <2>1. PICK order \in Machine!SetToSeqs(Addrs) :
          m' = Machine!WithServers(m, [i \in DOMAIN order |-> <<loads + 1, order[i]>>])
    BY <1>7 DEF Machine!LoadListen
  <2> DEFINE size == Cardinality(Addrs)
  <2>2. size \in Nat /\ order \in [1..size -> Addrs]
    <3>1. Cardinality(Addrs) \in Nat
      BY AddrsAssumption, FS_CardinalityType
    <3>2. order \in [1..Cardinality(Addrs) -> Addrs]
      <4>1. Machine!Cardinality(Addrs) = Cardinality(Addrs)
        BY DEF Machine!Cardinality, Cardinality
      <4> QED
        BY <2>1, <4>1 DEF Machine!SetToSeqs
    <3> QED
      BY <3>1, <3>2
  <2> HIDE DEF size
  <2>3. \A i \in 1..size : <<loads + 1, order[i]>> \in ServerSet
    BY <1>1, <2>2 DEF ServerSet
  <2>4. [i \in 1..size |-> <<loads + 1, order[i]>>] \in Seq(ServerSet)
    BY <2>2, <2>3, IsASeq
  <2>5. DOMAIN order = 1..size
    BY <2>2
  <2>6. /\ m' \in Fields /\ Routed(m') /\ m'.running = m.running
        /\ m'.listenCloserList = m.listenCloserList
    BY <1>1, <2>1, <2>4, <2>5, OfWithServers
  <2>7. listening' = listening /\ loads' = loads + 1
    BY <1>7 DEF Machine!LoadListen
  <2> QED
    BY <1>1, <2>6, <2>7 DEF Closable
<1>8. CASE Machine!HotLoadListen
  <2>1. PICK a \in Addrs : /\ m' = Machine!WithListener(m, <<loads + 1, a>>)
                           /\ listening' = listening \cup {<<loads + 1, a>>}
    BY <1>8 DEF Machine!HotLoadListen
  <2>2. <<loads + 1, a>> \in ServerSet /\ m.running /\ loads' = loads + 1
    BY <1>1, <1>8 DEF ServerSet, Machine!HotLoadListen
  <2>3. /\ m' \in Fields /\ Routed(m') /\ m'.running = m.running
        /\ Machine!Elements(m'.listenCloserList)
             = Machine!Elements(m.listenCloserList) \cup {<<loads + 1, a>>}
    BY <1>1, <2>1, <2>2, OfWithListener
  <2> QED
    BY <1>1, <2>1, <2>2, <2>3 DEF Closable
<1>9. CASE Machine!LoadDial
  <2>1. PICK t \in Tags \cup {NoTag} : m' = Machine!WithClients(m, <<<<loads + 1, t>>>>)
    BY <1>9 DEF Machine!LoadDial
  <2> DEFINE c == <<loads + 1, t>>
  <2>2. c \in ClientSet
    BY <1>1 DEF ClientSet
  <2> HIDE DEF c
  <2>3. <<c>> \in Seq(ClientSet) /\ <<c>> # <<>>
    BY <2>2, ElementsOfOne, EmptySeq
  <2>4. /\ m' \in Fields /\ Routed(m') /\ m'.running = m.running
        /\ m'.listenCloserList = m.listenCloserList
    BY <1>1, <2>1, <2>3, OfWithClients DEF c
  <2>5. listening' = listening /\ loads' = loads + 1
    BY <1>9 DEF Machine!LoadDial
  <2> QED
    BY <1>1, <2>4, <2>5 DEF Closable
<1>10. CASE Machine!LoadDialFails
  <2>1. UNCHANGED <<listening, loads>> /\ m' = Machine!WithoutNewClient(m)
    BY <1>10 DEF Machine!LoadDialFails
  <2> QED
    BY <1>1, <2>1, OfWithoutNewClient DEF Closable
<1>11. CASE Machine!HotDeleteClient
  <2>1. /\ UNCHANGED <<listening, loads>>
        /\ \E i \in DOMAIN m.allClients : m' = Machine!WithoutClient(m, i)
    BY <1>11 DEF Machine!HotDeleteClient
  <2> QED
    BY <1>1, <2>1, OfWithoutClient DEF Closable
<1>12. CASE Machine!HotDeleteServer
  <2>1. PICK i \in DOMAIN m.allServers :
          \/ /\ ~m.running
             /\ m' = Machine!WithoutServer(m, i)
             /\ UNCHANGED listening
          \/ /\ m.running
             /\ i \in DOMAIN m.listenCloserList
             /\ m' = Machine!WithoutListener(m, i)
             /\ listening' = listening \ {m.listenCloserList[i]}
    BY <1>12 DEF Machine!HotDeleteServer
  <2>2. loads' = loads
    BY <1>12 DEF Machine!HotDeleteServer
  <2>3. CASE ~m.running
    <3>1. m' = Machine!WithoutServer(m, i) /\ UNCHANGED listening
      BY <2>1, <2>3
    <3>2. /\ m' \in Fields /\ Routed(m') /\ m'.running = m.running
          /\ m'.listenCloserList = m.listenCloserList
      BY <1>1, <3>1, OfWithoutServer
    <3> QED
      BY <1>1, <2>2, <3>1, <3>2 DEF Closable
  <2>4. CASE m.running
    <3>1. /\ i \in DOMAIN m.listenCloserList
          /\ m' = Machine!WithoutListener(m, i)
          /\ listening' = listening \ {m.listenCloserList[i]}
      BY <2>1, <2>4
    <3>2. /\ m' \in Fields /\ Routed(m') /\ m'.running = m.running
          /\ Machine!Elements(m.listenCloserList) \ {m.listenCloserList[i]}
               \subseteq Machine!Elements(m'.listenCloserList)
      BY <1>1, <3>1, OfWithoutListener
    <3> QED
      BY <1>1, <2>2, <2>4, <3>1, <3>2 DEF Closable
  <2> QED
    BY <1>1, <2>3, <2>4, FieldsOf
<1>13. CASE Machine!ApplyListen
  <2> DEFINE list == [i \in DOMAIN m.allServers |-> <<loads + 1, Machine!Addr(m.allServers[i])>>]
             w(new) == Machine!WithServers(Machine!WithoutServers(s), new)
  <2>1. PICK new \in {list, <<>>} :
          \/ ~m.running /\ m' = w(new) /\ UNCHANGED <<listening, starts>>
          \/ m.running /\ Machine!Restart(w(new), left)
    BY <1>13 DEF Machine!ApplyListen, s, left
  <2>2. loads' = loads + 1
    BY <1>13 DEF Machine!ApplyListen
  <2>3. list \in Seq(ServerSet)
    BY <1>1, Relisted
  <2> HIDE DEF list
  <2>4. new \in Seq(ServerSet)
    BY <2>1, <2>3, EmptySeq
  <2> DEFINE e == Machine!WithoutServers(s)
  <2>5. /\ e \in Fields /\ Routed(e) /\ e.running = s.running
        /\ e.listenCloserList = s.listenCloserList
    BY <1>4, OfWithoutServers
  <2> HIDE DEF e
  <2>6. /\ w(new) \in Fields /\ Routed(w(new)) /\ w(new).running = s.running
        /\ w(new).listenCloserList = s.listenCloserList
    BY <2>4, <2>5, OfWithServers DEF e
  <2> HIDE DEF w
  <2>7. Closable(w(new), {})
    BY <1>4, <2>6 DEF Closable
  <2>8. CASE ~m.running /\ m' = w(new) /\ UNCHANGED <<listening, starts>>
    BY <1>1, <2>2, <2>6, <2>7, <2>8 DEF Closable
  <2>9. CASE Machine!Restart(w(new), left)
    BY <1>1, <1>3, <2>2, <2>6, <2>7, <2>9, Restarts
  <2> QED
    BY <2>1, <2>8, <2>9
<1>14. CASE Machine!ApplyDial
  <2> DEFINE tags == [i \in DOMAIN m.allClients |-> Machine!Tag(m.allClients[i])]
             list(i, t) == [j \in DOMAIN tags |-> <<loads + 1, IF i = j THEN t ELSE tags[j]>>]
             w(new) == Machine!WithClients(Machine!WithoutClients(s), new)
  <2>1. PICK i \in DOMAIN tags, t \in Tags \cup {NoTag} :
          \/ ~m.running /\ m' = w(list(i, t)) /\ UNCHANGED <<listening, starts>>
          \/ m.running /\ Machine!Restart(w(list(i, t)), left)
    BY <1>14 DEF Machine!ApplyDial, s, left
  <2>2. loads' = loads + 1
    BY <1>14 DEF Machine!ApplyDial
  <2> DEFINE new == list(i, t)
  <2>3. new \in Seq(ClientSet) /\ new # <<>>
    <3>1. DOMAIN tags = DOMAIN m.allClients
      OBVIOUS
    <3>2. new = [j \in DOMAIN m.allClients |->
                   <<loads + 1, IF i = j THEN t ELSE Machine!Tag(m.allClients[j])>>]
      OBVIOUS
    <3> HIDE DEF new, tags
    <3>3. i \in DOMAIN m.allClients
      BY <3>1
    <3> QED
      BY <1>1, <3>2, <3>3, Retagged
  <2>4. \/ ~m.running /\ m' = w(new) /\ UNCHANGED <<listening, starts>>
        \/ m.running /\ Machine!Restart(w(new), left)
    BY <2>1
  <2> HIDE DEF new
  <2> DEFINE e == Machine!WithoutClients(s)
  <2>5. /\ e \in Fields /\ Routed(e) /\ e.running = s.running
        /\ e.listenCloserList = s.listenCloserList
    BY <1>4, OfWithoutClients
  <2> HIDE DEF e
  <2>6. /\ w(new) \in Fields /\ Routed(w(new)) /\ w(new).running = s.running
        /\ w(new).listenCloserList = s.listenCloserList
    BY <2>3, <2>5, OfWithClients DEF e
  <2> HIDE DEF w
  <2>7. Closable(w(new), {})
    BY <1>4, <2>6 DEF Closable
  <2>8. CASE ~m.running /\ m' = w(new) /\ UNCHANGED <<listening, starts>>
    BY <1>1, <2>2, <2>6, <2>7, <2>8 DEF Closable
  <2>9. CASE Machine!Restart(w(new), left)
    BY <1>1, <1>3, <2>2, <2>6, <2>7, <2>9, Restarts
  <2> QED
    BY <2>4, <2>8, <2>9
<1> QED
  BY <1>5, <1>6, <1>7, <1>8, <1>9, <1>10, <1>11, <1>12, <1>13, <1>14 DEF Machine!Next

-----------------------------------------------------------------------------
(* The system after each of up to three commands.                          *)
LEMMA AfterEach ==
  ASSUME NEW s, NEW list, Len(list) \in 0..3
  PROVE  /\ Tun!After(s, list, 0) = s
         /\ Len(list) >= 1 => Tun!After(s, list, 1) = Tun!Ran(s, list[1])
         /\ Len(list) >= 2 => Tun!After(s, list, 2) = Tun!Ran(Tun!Ran(s, list[1]), list[2])
         /\ Len(list) = 3 =>
              Tun!After(s, list, 3) = Tun!Ran(Tun!Ran(Tun!Ran(s, list[1]), list[2]), list[3])
<1> DEFINE one == Tun!Ran(s, list[1])
           two == Tun!Ran(one, list[2])
           three == Tun!Ran(two, list[3])
           is(f) == f = [i \in 0..Len(list) |-> IF i = 0 THEN s ELSE Tun!Ran(f[i - 1], list[i])]
           after == CHOOSE f : is(f)
           g == [i \in 0..Len(list) |->
                   IF i = 0 THEN s ELSE IF i = 1 THEN one ELSE IF i = 2 THEN two ELSE three]
<1>1. is(g)
  <2> DEFINE h == [i \in 0..Len(list) |-> IF i = 0 THEN s ELSE Tun!Ran(g[i - 1], list[i])]
  <2>1. ASSUME NEW i \in 0..Len(list) PROVE g[i] = h[i]
    <3>1. i \in 0..3
      BY <2>1
    <3>2. CASE i = 0
      BY <3>2
    <3>3. CASE i = 1
      BY <3>3
    <3>4. CASE i = 2
      BY <3>4
    <3>5. CASE i = 3
      BY <3>5
    <3> QED
      BY <3>1, <3>2, <3>3, <3>4, <3>5
  <2>2. g = h
    BY <2>1
  <2> QED
    BY <2>2
<1> HIDE DEF one, two, three, g, is
<1>2. is(after)
  BY <1>1
<1>3. \A n : Tun!After(s, list, n) = after[n]
  BY DEF Tun!After, is
<1> HIDE DEF after
<1>4. /\ after[0] = s
      /\ Len(list) >= 1 => after[1] = one
      /\ Len(list) >= 2 => after[2] = Tun!Ran(after[1], list[2])
      /\ Len(list) = 3 => after[3] = Tun!Ran(after[2], list[3])
  <2>1. \A i \in 0..Len(list) : after[i] = IF i = 0 THEN s ELSE Tun!Ran(after[i - 1], list[i])
    BY <1>2 DEF is
  <2>2. 0 \in 0..Len(list) /\ 1 - 1 = 0 /\ 2 - 1 = 1 /\ 3 - 1 = 2
    OBVIOUS
  <2>3. after[0] = s
    BY <2>1, <2>2
  <2>4. ASSUME Len(list) >= 1 PROVE after[1] = one
    <3>1. 1 \in 0..Len(list) /\ 1 # 0
      BY <2>4
    <3> QED
      BY <2>1, <2>2, <2>3, <3>1 DEF one
  <2>5. ASSUME Len(list) >= 2 PROVE after[2] = Tun!Ran(after[1], list[2])
    <3>1. 2 \in 0..Len(list) /\ 2 # 0
      BY <2>5
    <3> QED
      BY <2>1, <2>2, <3>1
  <2>6. ASSUME Len(list) = 3 PROVE after[3] = Tun!Ran(after[2], list[3])
    <3>1. 3 \in 0..Len(list) /\ 3 # 0
      BY <2>6
    <3> QED
      BY <2>1, <2>2, <3>1
  <2> QED
    BY <2>3, <2>4, <2>5, <2>6
<1> QED
  BY <1>3, <1>4 DEF one, two, three

(* Commands before the device is opened make one, or nothing.              *)
LEMMA OfPre ==
  ASSUME NEW n \in Tun!ExecCmdList(system, Tun!PreCommands), system \in System
  PROVE  LET s == Tun!Pre(n)
         IN /\ s \in System /\ s.held = system.held
            /\ s.routes = system.routes /\ s.dns = system.dns
<1>1. /\ Len(Tun!PreCommands) = 2 /\ Tun!PreCommands[1] = "tuntap add"
      /\ Tun!PreCommands[2] = "link up"
  BY DEF Tun!PreCommands
<1>2. n \in 0..2
  BY <1>1 DEF Tun!ExecCmdList
<1> DEFINE made == [system EXCEPT !.device = "made"]
<1>3. /\ made \in System /\ made.held = system.held
      /\ made.routes = system.routes /\ made.dns = system.dns
  BY DEF System
<1> HIDE DEF made
<1>4. Tun!Ran(system, "tuntap add") = made /\ Tun!Ran(made, "link up") = made
  BY DEF Tun!Ran, made
<1>5. Tun!After(system, Tun!PreCommands, n) \in {system, made}
  <2>1. /\ Tun!After(system, Tun!PreCommands, 0) = system
        /\ Tun!After(system, Tun!PreCommands, 1) = made
        /\ Tun!After(system, Tun!PreCommands, 2) = made
    <3> DEFINE list == Tun!PreCommands
    <3>1. Len(list) \in 0..3 /\ Len(list) >= 1 /\ Len(list) >= 2
      <4>1. 2 \in 0..3 /\ 2 >= 1 /\ 2 >= 2
        OBVIOUS
      <4>2. Len(list) = 2
        BY <1>1
      <4> QED
        BY <4>1, <4>2, Zenon
    <3>2. /\ Tun!After(system, list, 0) = system
          /\ Tun!After(system, list, 1) = Tun!Ran(system, list[1])
          /\ Tun!After(system, list, 2) = Tun!Ran(Tun!Ran(system, list[1]), list[2])
      BY <3>1, AfterEach
    <3> QED
      BY <1>1, <1>4, <3>2
  <2> QED
    BY <1>2, <2>1
<1> QED
  BY <1>3, <1>5 DEF Tun!Pre

(* All commands of autoRouteFunc have put the tun before the router.       *)
LEMMA OfUp ==
  ASSUME NEW s \in System, Intact(s)
  PROVE  LET x == Tun!After(s, Tun!UpCommands, 3)
         IN /\ x \in System /\ x.held = s.held /\ x.device = s.device /\ x.dns = s.dns
            /\ x.routes = <<"tun", "router">>
<1> DEFINE one == [s EXCEPT !.routes = Tail(s.routes)]
           two == [one EXCEPT !.routes = <<"tun">> \o one.routes]
           three == [two EXCEPT !.routes = Append(two.routes, "router")]
<1>1. Tun!After(s, Tun!UpCommands, 3) = three
  <2>1. /\ Len(Tun!UpCommands) = 3 /\ Tun!UpCommands[1] = "route del default"
        /\ Tun!UpCommands[2] = "route add tun" /\ Tun!UpCommands[3] = "route add router"
    BY DEF Tun!UpCommands
  <2>2. Tun!Ran(s, "route del default") = one
    BY DEF Tun!Ran
  <2> HIDE DEF one
  <2>3. Tun!Ran(one, "route add tun") = two
    BY DEF Tun!Ran
  <2> HIDE DEF two
  <2>4. Tun!Ran(two, "route add router") = three
    BY DEF Tun!Ran
  <2> HIDE DEF three
  <2> QED
    <3> DEFINE list == Tun!UpCommands
    <3>1. Len(list) \in 0..3 /\ Len(list) = 3
      <4>1. 3 \in 0..3
        OBVIOUS
      <4>2. Len(list) = 3
        BY <2>1
      <4> QED
        BY <4>1, <4>2, Zenon
    <3>2. Tun!After(s, list, 3) = Tun!Ran(Tun!Ran(Tun!Ran(s, list[1]), list[2]), list[3])
      BY <3>1, AfterEach
    <3> QED
      BY <2>1, <2>2, <2>3, <2>4, <3>2
<1>2. DOMAIN s = {"device", "held", "routes", "dns"}
  BY DEF System
<1>3. one.routes = Tail(<<"router">>)
  BY <1>2 DEF Intact
<1>4. /\ Tail(<<"router">>) = <<>> /\ <<"tun">> \o <<>> = <<"tun">>
      /\ Append(<<"tun">>, "router") = <<"tun", "router">>
  <2>1. Tail(<<"router">>) = <<>>
    <3>1. <<"router">> \in Seq({"router"}) /\ <<"router">> # <<>> /\ Len(<<"router">>) = 1
      OBVIOUS
    <3>2. Tail(<<"router">>) \in Seq({"router"}) /\ Len(Tail(<<"router">>)) = 1 - 1
      BY <3>1, HeadTailProperties
    <3> QED
      BY <3>2, EmptySeq
  <2>2. <<"tun">> \in Seq({"tun"})
    OBVIOUS
  <2>3. <<"tun">> \o <<>> = <<"tun">>
    BY <2>2, ConcatEmptySeq
  <2>4. Append(<<"tun">>, "router") = <<"tun", "router">>
    <3> DEFINE S == {"tun", "router"}
               a == Append(<<"tun">>, "router")
               b == <<"tun", "router">>
    <3>1. /\ <<"tun">> \in Seq(S) /\ "router" \in S
          /\ Len(<<"tun">>) = 1 /\ <<"tun">>[1] = "tun"
      OBVIOUS
    <3>2. a \in Seq(S) /\ Len(a) = 2 /\ a[1] = "tun" /\ a[2] = "router"
      BY <3>1, AppendProperties
    <3>3. b \in Seq(S) /\ Len(b) = 2 /\ b[1] = "tun" /\ b[2] = "router"
      OBVIOUS
    <3> HIDE DEF a, b
    <3>4. \A i \in 1..2 : a[i] = b[i]
      BY <3>2, <3>3
    <3>5. a = b
      BY <3>2, <3>3, <3>4, SeqEqual
    <3> QED
      BY <3>5 DEF a, b
  <2> QED
    BY <2>1, <2>3, <2>4
<1>5. two.routes = <<"tun">>
  BY <1>2, <1>3, <1>4
<1>6. three.routes = <<"tun", "router">>
  BY <1>2, <1>4, <1>5
<1>7. three = [s EXCEPT !.routes = <<"tun", "router">>]
  BY <1>2, <1>6 DEF System
<1> QED
  BY <1>1, <1>7 DEF System

(* A device that is down or gone leaves the router.                        *)
LEMMA OfNoTunRoutes ==
  ASSUME NEW s \in System
  PROVE  Tun!NoTunRoutes(s) = [s EXCEPT !.routes = <<"router">>]
<1>1. CASE s.routes = <<"router">>
  <2>1. Head(<<"router">>) # "tun" /\ <<"router">> # <<>>
    OBVIOUS
  <2> QED
    BY <1>1, <2>1 DEF Tun!NoTunRoutes, System
<1>2. CASE s.routes = <<"tun", "router">>
  <2>1. /\ Head(<<"tun", "router">>) = "tun" /\ <<"tun", "router">> # <<>>
        /\ Tail(<<"tun", "router">>) = <<"router">>
    OBVIOUS
  <2> QED
    BY <1>2, <2>1 DEF Tun!NoTunRoutes, System
<1> QED
  BY <1>1, <1>2 DEF System

LEMMA OfOpened ==
  ASSUME NEW s \in System
  PROVE  LET x == Tun!Opened(s)
         IN x \in System /\ x.held /\ x.routes = s.routes /\ x.dns = s.dns
BY DEF Tun!Opened, System

LEMMA OfClosed ==
  ASSUME NEW s \in System, s.routes = <<"router">>
  PROVE  LET x == Tun!Closed(s)
         IN x \in System /\ ~x.held /\ x.routes = s.routes /\ x.dns = s.dns
<1> DEFINE gone == [s EXCEPT !.held = FALSE, !.device = "none"]
           kept == [s EXCEPT !.held = FALSE]
<1>1. /\ gone \in System /\ gone.routes = s.routes
      /\ gone.dns = s.dns /\ ~gone.held
  BY DEF System
<1>2. /\ kept \in System /\ kept.routes = s.routes
      /\ kept.dns = s.dns /\ ~kept.held
  BY DEF System
<1>3. Tun!Closed(s) = IF s.device = "own" THEN Tun!NoTunRoutes(gone) ELSE kept
  BY DEF Tun!Closed
<1> HIDE DEF gone, kept
<1>4. Tun!NoTunRoutes(gone) = [gone EXCEPT !.routes = <<"router">>]
  BY <1>1, OfNoTunRoutes
<1>5. /\ Tun!NoTunRoutes(gone) \in System /\ ~Tun!NoTunRoutes(gone).held
      /\ Tun!NoTunRoutes(gone).routes = s.routes /\ Tun!NoTunRoutes(gone).dns = s.dns
  BY <1>1, <1>4 DEF System
<1> QED
  BY <1>2, <1>3, <1>5

(* What autoRouteDownFunc does with all of its commands.                   *)
LEMMA OfDown ==
  ASSUME NEW s \in System
  PROVE  LET x == Tun!After(s, Tun!DownCommands, 1)
         IN x \in System /\ x.held = s.held /\ x.routes = <<"router">> /\ x.dns = s.dns
<1> DEFINE list == Tun!DownCommands
<1>1. Len(list) = 1 /\ list[1] = "link down"
  BY DEF Tun!DownCommands
<1>2. Len(list) \in 0..3 /\ Len(list) >= 1
  <2>1. 1 \in 0..3 /\ 1 >= 1
    OBVIOUS
  <2>2. Len(list) = 1
    BY <1>1
  <2> QED
    BY <2>1, <2>2, Zenon
<1>3. Tun!After(s, list, 1) = Tun!Ran(s, list[1])
  BY <1>2, AfterEach
<1>4. Tun!Ran(s, "link down") = [s EXCEPT !.routes = <<"router">>]
  BY OfNoTunRoutes DEF Tun!Ran
<1> QED
  BY <1>1, <1>3, <1>4 DEF System

(* The device is deleted, or that fails.                                   *)
LEMMA OfAfterClose ==
  ASSUME NEW s \in System, NEW n \in Tun!ExecCmdList(s, Tun!AfterCloseCommands) \cup {0},
         s.routes = <<"router">>
  PROVE  LET x == Tun!After(s, Tun!AfterCloseCommands, n)
         IN x \in System /\ x.held = s.held /\ x.routes = s.routes /\ x.dns = s.dns
<1> DEFINE list == Tun!AfterCloseCommands
           gone == [s EXCEPT !.device = "none"]
<1>1. Len(list) = 1 /\ list[1] = "tuntap del"
  BY DEF Tun!AfterCloseCommands
<1>2. Len(list) \in 0..3 /\ Len(list) >= 1
  <2>1. 1 \in 0..3 /\ 1 >= 1
    OBVIOUS
  <2>2. Len(list) = 1
    BY <1>1
  <2> QED
    BY <2>1, <2>2, Zenon
<1>3. n \in {0, 1}
  <2>1. n \in 0..Len(list) \/ n = 0
    BY DEF Tun!ExecCmdList
  <2>2. Len(list) = 1
    BY <1>1
  <2> HIDE DEF list
  <2> QED
    BY <2>1, <2>2
<1>4. Tun!After(s, list, 0) = s /\ Tun!After(s, list, 1) = Tun!Ran(s, list[1])
  BY <1>2, AfterEach
<1>5. gone \in System /\ gone.held = s.held /\ gone.routes = s.routes /\ gone.dns = s.dns
  BY DEF System
<1> HIDE DEF list
<1>6. Tun!Ran(s, "tuntap del") = Tun!NoTunRoutes(gone)
  BY DEF Tun!Ran
<1> HIDE DEF gone
<1>7. Tun!NoTunRoutes(gone) = [gone EXCEPT !.routes = <<"router">>]
  BY <1>5, OfNoTunRoutes
<1>8. LET x == Tun!Ran(s, "tuntap del")
      IN x \in System /\ x.held = s.held /\ x.routes = s.routes /\ x.dns = s.dns
  BY <1>5, <1>6, <1>7 DEF System
<1>9. Tun!After(s, list, n) = s \/ Tun!After(s, list, n) = Tun!Ran(s, "tuntap del")
  BY <1>1, <1>3, <1>4
<1> QED
  BY <1>8, <1>9 DEF list

LEMMA TunStart ==
  ASSUME Tun!Init
  PROVE  TunInv
BY DEF Tun!Init, TunInv, Untroubled, System, Intact

LEMMA OpenStep ==
  ASSUME Untroubled, ~system.held, Tun!Opens, ~disturbed', ~died'
  PROVE  Untroubled'
<1> DEFINE auto == server.autoRoute
<1>1. /\ system \in System /\ Intact(system)
      /\ server \in [autoRoute : BOOLEAN, stopped : BOOLEAN, stackCloser : BOOLEAN,
                     tunDev : BOOLEAN]
  BY DEF Untroubled
<1>2. PICK n \in Tun!ExecCmdList(system, Tun!PreCommands) :
        LET s == Tun!Opened(Tun!Pre(n))
        IN \E k \in Tun!ExecCmdList(s, Tun!UpCommands) :
             /\ remembered' = IF auto /\ Tun!GetGateway(s) # "" THEN Tun!Remembered(s)
                              ELSE remembered
             /\ \/ disturbed' = TRUE
                \/ /\ system' = Tun!Routed(s, k)
                   /\ server' = [server EXCEPT !.stopped = FALSE, !.stackCloser = TRUE,
                                               !.tunDev = TRUE]
                   /\ disturbed' = (disturbed \/ (auto /\ k # Len(Tun!UpCommands)))
  BY DEF Tun!Opens
<1> DEFINE p == Tun!Pre(n)
<1>3. p \in System /\ p.held = system.held /\ p.routes = system.routes /\ p.dns = system.dns
  BY <1>1, OfPre
<1> HIDE DEF p
<1> DEFINE s == Tun!Opened(p)
<1>4. s \in System /\ s.held /\ Intact(s)
  BY <1>1, <1>3, OfOpened DEF Intact
<1>5. PICK k \in Tun!ExecCmdList(s, Tun!UpCommands) :
             /\ remembered' = IF auto /\ Tun!GetGateway(s) # "" THEN Tun!Remembered(s)
                              ELSE remembered
             /\ \/ disturbed' = TRUE
                \/ /\ system' = Tun!Routed(s, k)
                   /\ server' = [server EXCEPT !.stopped = FALSE, !.stackCloser = TRUE,
                                               !.tunDev = TRUE]
                   /\ disturbed' = (disturbed \/ (auto /\ k # Len(Tun!UpCommands)))
  BY <1>2 DEF p
<1> HIDE DEF s
<1>6. /\ system' = Tun!Routed(s, k)
      /\ server' = [server EXCEPT !.stopped = FALSE, !.stackCloser = TRUE, !.tunDev = TRUE]
      /\ auto => k = Len(Tun!UpCommands)
  BY <1>5
<1>7. Tun!GetGateway(s) = "router" /\ "router" # ""
  <2>1. Head(<<"router">>) = "router" /\ <<"router">> # <<>>
    OBVIOUS
  <2> QED
    BY <1>4, <2>1 DEF Tun!GetGateway, Intact
<1>8. /\ server' \in [autoRoute : BOOLEAN, stopped : BOOLEAN, stackCloser : BOOLEAN,
                      tunDev : BOOLEAN]
      /\ server'.tunDev /\ server'.stackCloser /\ ~server'.stopped
      /\ server'.autoRoute = auto
  BY <1>1, <1>6
<1>9. CASE ~auto
  <2>1. system' = s
    BY <1>6, <1>9 DEF Tun!Routed
  <2> QED
    BY <1>4, <1>8, <1>9, <2>1 DEF Untroubled, Intact, System
<1>10. CASE auto
  <2>1. k = 3
    BY <1>6, <1>10 DEF Tun!UpCommands
  <2> DEFINE x == Tun!After(s, Tun!UpCommands, 3)
  <2>2. /\ x \in System /\ x.held = s.held /\ x.routes = <<"tun", "router">>
    BY <1>4, OfUp
  <2> HIDE DEF x
  <2>3. system' = [x EXCEPT !.dns = "8.8.8.8"]
    BY <1>6, <1>7, <1>10, <2>1 DEF Tun!Routed, Tun!SetSystemDNS, x
  <2>4. system' \in System /\ system'.held /\ system'.routes = <<"tun", "router">>
    BY <1>4, <2>2, <2>3 DEF System
  <2>5. remembered' = [router |-> "router", dns |-> "own"]
    BY <1>4, <1>5, <1>7, <1>10 DEF Tun!Remembered, Intact
  <2> QED
    BY <1>8, <1>10, <2>4, <2>5 DEF Untroubled, System
<1> QED
  BY <1>9, <1>10

LEMMA StopStep ==
  ASSUME Untroubled, Tun!Stop, ~disturbed', ~died'
  PROVE  Untroubled'
<1> DEFINE auto == server.autoRoute
<1>1. /\ system \in System
      /\ server \in [autoRoute : BOOLEAN, stopped : BOOLEAN, stackCloser : BOOLEAN,
                     tunDev : BOOLEAN]
  BY DEF Untroubled
<1>2. PICK k \in Tun!ExecCmdList(system, Tun!DownCommands) :
        LET s == Tun!Closed(Tun!Down(system, k))
        IN /\ server.stackCloser /\ server.tunDev
           /\ \E n \in IF auto THEN Tun!ExecCmdList(s, Tun!AfterCloseCommands) ELSE {0} :
                system' = Tun!After(s, Tun!AfterCloseCommands, n)
           /\ server' = [server EXCEPT !.stopped = TRUE, !.stackCloser = FALSE,
                                       !.tunDev = FALSE]
           /\ disturbed' = (disturbed \/ (auto /\ k # Len(Tun!DownCommands)))
  BY DEF Tun!Stop
<1>3. system.held
  BY <1>2 DEF Untroubled
<1> DEFINE d == Tun!Down(system, k)
<1>4. d \in System /\ Intact(d)
  <2>1. CASE ~auto
    BY <1>1, <2>1 DEF Untroubled, Tun!Down
  <2>2. CASE auto
    <3> DEFINE x == Tun!After(system, Tun!DownCommands, 1)
    <3>1. k = 1 /\ Len(Tun!DownCommands) = 1
      BY <1>2, <2>2 DEF Tun!DownCommands
    <3>2. x \in System /\ x.routes = <<"router">>
      BY <1>1, OfDown
    <3>3. remembered.router = "router" /\ remembered.dns = "own"
      BY <1>3, <2>2 DEF Untroubled
    <3>4. "router" # "" /\ "own" # ""
      OBVIOUS
    <3> HIDE DEF x
    <3>5. d = [x EXCEPT !.dns = "own"]
      BY <2>2, <3>1, <3>3, <3>4 DEF Tun!Down, Tun!SetSystemDNS, x
    <3> QED
      BY <3>2, <3>5 DEF System, Intact
  <2> QED
    BY <2>1, <2>2
<1> HIDE DEF d
<1> DEFINE s == Tun!Closed(d)
<1>5. s \in System /\ ~s.held /\ Intact(s)
  BY <1>4, OfClosed DEF Intact
<1>6. /\ \E n \in IF auto THEN Tun!ExecCmdList(s, Tun!AfterCloseCommands) ELSE {0} :
           system' = Tun!After(s, Tun!AfterCloseCommands, n)
      /\ server' = [server EXCEPT !.stopped = TRUE, !.stackCloser = FALSE, !.tunDev = FALSE]
  BY <1>2 DEF d
<1> HIDE DEF s
<1>7. PICK n \in Tun!ExecCmdList(s, Tun!AfterCloseCommands) \cup {0} :
        system' = Tun!After(s, Tun!AfterCloseCommands, n)
  BY <1>6
<1>8. system' \in System /\ system'.held = s.held /\ Intact(system')
  BY <1>5, <1>7, OfAfterClose DEF Intact
<1>9. /\ server' \in [autoRoute : BOOLEAN, stopped : BOOLEAN, stackCloser : BOOLEAN,
                      tunDev : BOOLEAN]
      /\ server'.tunDev = FALSE /\ server'.stackCloser = FALSE
  BY <1>1, <1>6
<1>10. system'.held = FALSE
  BY <1>5, <1>8 DEF System
<1> QED
  BY <1>8, <1>9, <1>10 DEF Untroubled, Intact

LEMMA TunStep ==
  ASSUME TunInv, Tun!Next
  PROVE  TunInv'
<1>1. SUFFICES ASSUME ~disturbed', ~died' PROVE Untroubled'
  BY DEF TunInv
<1>2. CASE Tun!StartListen
  <2>1. ~died
    BY <1>1, <1>2 DEF Tun!StartListen
  <2>2. CASE Tun!Opens
    <3>1. ~disturbed /\ ~system.held
      BY <1>1, <2>2 DEF Tun!Opens
    <3> QED
      BY <1>1, <2>1, <2>2, <3>1, OpenStep DEF TunInv
  <2>3. CASE Tun!OpenFails /\ disturbed' = (disturbed \/ system.held)
    <3>1. ~disturbed /\ ~system.held
      BY <1>1, <2>3
    <3>2. Untroubled
      BY <2>1, <3>1 DEF TunInv
    <3>3. PICK n \in Tun!ExecCmdList(system, Tun!PreCommands) : system' = Tun!Pre(n)
      BY <2>3 DEF Tun!OpenFails
    <3>4. /\ system' \in System /\ system'.held = system.held
          /\ system'.routes = system.routes /\ system'.dns = system.dns
      BY <3>2, <3>3, OfPre DEF Untroubled
    <3>5. server' = [server EXCEPT !.stopped = TRUE]
      BY <2>3 DEF Tun!OpenFails
    <3>6. /\ server' \in [autoRoute : BOOLEAN, stopped : BOOLEAN, stackCloser : BOOLEAN,
                          tunDev : BOOLEAN]
          /\ server'.tunDev = server.tunDev /\ server'.stackCloser = server.stackCloser
      BY <3>2, <3>5 DEF Untroubled
    <3>7. Intact(system')
      BY <3>1, <3>2, <3>4 DEF Untroubled, Intact
    <3> QED
      BY <3>1, <3>2, <3>4, <3>6, <3>7 DEF Untroubled, Intact
  <2> QED
    BY <1>2, <2>2, <2>3 DEF Tun!StartListen
<1>3. CASE Tun!Stop
  <2>1. ~disturbed /\ ~died
    BY <1>1, <1>3 DEF Tun!Stop
  <2> QED
    BY <1>1, <1>3, <2>1, StopStep DEF TunInv
<1> QED
  BY <1>2, <1>3 DEF Tun!Next

-----------------------------------------------------------------------------
(* Routes.  Any list of rules and any target; a target knows its networks  *)
(* and is hit by the kinds of items for what it has.                       *)
ItemKinds == Routes!IPKinds \cup Routes!NameKinds \cup {"unparsable"}
Named == Words \ {Routes!Absent}

RuleConfs ==
  [tag : Words, inTags : SUBSET Named, users : SUBSET Named, networks : SUBSET Words,
   items : SUBSET ItemKinds]

TargetDescriptions ==
  {td \in [inTag : Words, user : Words, network : {"", "tcp", "udp", "other"},
           has : SUBSET {"ip", "name"}, hits : SUBSET (ItemKinds \ {"unparsable"})] :
     /\ td.hits \cap Routes!IPKinds # {} => "ip" \in td.has
     /\ td.hits \cap Routes!NameKinds # {} => "name" \in td.has}

RoutesInv == rules \in Seq(RuleConfs) /\ target \in TargetDescriptions

(* What some numbers of a list have at least. *)
LEMMA LeastOf ==
  ASSUME NEW S, S \subseteq Nat, S # {}
  PROVE  \E x \in S : \A y \in S : x <= y
<1>1. PICK x \in S : \A y \in S : ~(<<y, x>> \in OpToRel(<, Nat))
  BY WFMin, NatLessThanWellFounded
<1>2. \A y \in S : ~(y < x)
  BY <1>1 DEF OpToRel
<1>3. \A y \in S : x <= y
  BY <1>2
<1> QED
  BY <1>3

(* A target is in the set of a rule that has items to be seen exactly when *)
(* it meets the rule.                                                      *)
LEMMA InSetOfRule ==
  ASSUME NEW rule \in RuleConfs, NEW td \in TargetDescriptions, Seen(rule)
  PROVE  Routes!IsIn(Routes!LoadRuleForRouteSet(rule), td) <=> Meets(rule, td)
<1> DEFINE rs == Routes!LoadRuleForRouteSet(rule)
           usable == Routes!Usable(rule.items)
<1>1. /\ rs.inTags = rule.inTags /\ rs.users = rule.users /\ rs.items = usable
      /\ rs.networks = IF rule.networks = {} THEN {"tcp", "udp"}
                       ELSE rule.networks \cap Routes!Networks
  BY DEF Routes!LoadRuleForRouteSet
<1> HIDE DEF rs
<1>2. /\ rule.inTags \subseteq Named /\ rule.users \subseteq Named
      /\ rule.items \subseteq ItemKinds
  BY DEF RuleConfs
<1>3. /\ Routes!NetworkOf(td) \in {"tcp", "udp", "other"}
      /\ td.hits \subseteq ItemKinds \ {"unparsable"}
      /\ td.hits \cap Routes!IPKinds # {} => "ip" \in td.has
      /\ td.hits \cap Routes!NameKinds # {} => "name" \in td.has
  BY DEF TargetDescriptions, Routes!NetworkOf
<1>4. (rs.inTags # {} => td.inTag # Routes!Absent /\ td.inTag \in rs.inTags)
        <=> (rule.inTags = {} \/ td.inTag \in rule.inTags)
  BY <1>1, <1>2 DEF Named
<1>5. (rs.users # {} => td.user # Routes!Absent /\ td.user \in rs.users)
        <=> (rule.users = {} \/ td.user \in rule.users)
  BY <1>1, <1>2 DEF Named
<1>6. Routes!IsAddrNetworkAllowed(rs, td)
        <=> (rule.networks = {} \/ Routes!NetworkOf(td) \in rule.networks \cup {"other"})
  <2>1. /\ "tcp" \in Routes!Networks /\ "udp" \in Routes!Networks
        /\ "other" \notin Routes!Networks
    BY DEF Routes!Networks
  <2> QED
    BY <1>1, <1>3, <2>1 DEF Routes!IsAddrNetworkAllowed
<1>7. Routes!IsNoLimitForNetworkLayer(rs) <=> rule.items = {}
  <2>1. usable \subseteq {"regexp"} => rule.items \subseteq {"regexp", "unparsable"}
    BY <1>2 DEF Routes!Usable, ItemKinds
  <2>2. rule.items = {} => usable \subseteq {"regexp"}
    BY DEF Routes!Usable
  <2>3. Routes!IsNoLimitForNetworkLayer(rs) <=> usable \subseteq {"regexp"}
    BY <1>1 DEF Routes!IsNoLimitForNetworkLayer
  <2> QED
    BY <2>1, <2>2, <2>3 DEF Seen
<1>8. (\/ "ip" \in td.has /\ rs.items \cap td.hits \cap Routes!IPKinds # {}
       \/ "name" \in td.has /\ rs.items \cap td.hits \cap Routes!NameKinds # {})
        <=> rule.items \cap td.hits # {}
  <2>1. ASSUME NEW k \in rule.items \cap td.hits
        PROVE  \/ "ip" \in td.has /\ k \in rs.items \cap td.hits \cap Routes!IPKinds
               \/ "name" \in td.has /\ k \in rs.items \cap td.hits \cap Routes!NameKinds
    <3>1. k \in rule.items /\ k \in td.hits
      OBVIOUS
    <3>2. k \in Routes!IPKinds \/ k \in Routes!NameKinds
      BY <1>3, <3>1 DEF ItemKinds
    <3>3. k \in rs.items
      BY <1>1, <3>1, <3>2 DEF Routes!Usable
    <3> QED
      BY <1>3, <3>1, <3>2, <3>3
  <2>2. rs.items \subseteq rule.items
    BY <1>1 DEF Routes!Usable
  <2> QED
    BY <2>1, <2>2
<1>9. Routes!IsIn(rs, td)
        <=> /\ rs.inTags # {} => td.inTag # Routes!Absent /\ td.inTag \in rs.inTags
            /\ rs.users # {} => td.user # Routes!Absent /\ td.user \in rs.users
            /\ Routes!IsAddrNetworkAllowed(rs, td)
            /\ \/ Routes!IsNoLimitForNetworkLayer(rs)
               \/ "ip" \in td.has /\ rs.items \cap td.hits \cap Routes!IPKinds # {}
               \/ "name" \in td.has /\ rs.items \cap td.hits \cap Routes!NameKinds # {}
  BY DEF Routes!IsIn, Routes!IsAddrIn
<1>10. Meets(rule, td)
         <=> /\ rule.inTags = {} \/ td.inTag \in rule.inTags
             /\ rule.users = {} \/ td.user \in rule.users
             /\ rule.networks = {} \/ Routes!NetworkOf(td) \in rule.networks \cup {"other"}
             /\ rule.items = {} \/ rule.items \cap td.hits # {}
  BY DEF Meets
<1>11. Routes!IsIn(rs, td) <=> Meets(rule, td)
  BY <1>4, <1>5, <1>6, <1>7, <1>8, <1>9, <1>10
<1> QED
  BY <1>11 DEF rs

LEMMA FirstIsMet ==
  ASSUME RoutesInv
  PROVE  FirstRuleMet
<1> SUFFICES ASSUME \A i \in DOMAIN rules : Seen(rules[i])
             PROVE
    LET tag == Routes!CalcuOutTag([i \in DOMAIN rules |-> Routes!LoadRuleForRouteSet(rules[i])],
                                  target)
    IN \/ /\ \A i \in DOMAIN rules : ~Meets(rules[i], target)
          /\ tag = "proxy"
       \/ \E i \in DOMAIN rules :
            /\ Meets(rules[i], target)
            /\ \A j \in 1..i - 1 : ~Meets(rules[j], target)
            /\ tag = rules[i].tag
  BY DEF FirstRuleMet
<1> DEFINE list == [i \in DOMAIN rules |-> Routes!LoadRuleForRouteSet(rules[i])]
           hit == {i \in DOMAIN list : Routes!IsIn(list[i], target)}
           tag == Routes!CalcuOutTag(list, target)
           first == CHOOSE i \in hit : \A j \in hit : i <= j
<1>1. /\ Len(rules) \in Nat /\ DOMAIN rules = 1..Len(rules) /\ target \in TargetDescriptions
      /\ \A i \in DOMAIN rules : rules[i] \in RuleConfs
  BY LenProperties, ElementOfSeq DEF RoutesInv
<1>2. /\ DOMAIN list = DOMAIN rules
      /\ \A i \in DOMAIN rules : list[i] = Routes!LoadRuleForRouteSet(rules[i])
  OBVIOUS
<1>3. \A i \in DOMAIN rules : i \in hit <=> Meets(rules[i], target)
  BY <1>1, <1>2, InSetOfRule
<1>4. tag = IF hit = {} THEN "proxy" ELSE list[first].outTag
  BY DEF Routes!CalcuOutTag
<1>5. \A i \in DOMAIN rules : list[i].outTag = rules[i].tag
  BY <1>2 DEF Routes!LoadRuleForRouteSet
<1>6. hit \subseteq DOMAIN rules
  BY <1>2
<1> HIDE DEF list, hit, tag
<1>7. CASE hit = {}
  <2>1. \A i \in DOMAIN rules : ~Meets(rules[i], target)
    BY <1>3, <1>7
  <2> QED
    BY <1>4, <1>7, <2>1 DEF tag, list
<1>8. CASE hit # {}
  <2>1. hit \subseteq Nat
    BY <1>1, <1>6
  <2>2. \E x \in hit : \A y \in hit : x <= y
    BY <1>8, <2>1, LeastOf
  <2>3. first \in hit /\ \A j \in hit : first <= j
    BY <2>2
  <2> HIDE DEF first
  <2>4. first \in DOMAIN rules /\ Meets(rules[first], target)
    BY <1>3, <1>6, <2>3
  <2>5. ASSUME NEW j \in 1..first - 1
        PROVE  ~Meets(rules[j], target)
    <3>1. j \in DOMAIN rules /\ ~(first <= j)
      BY <1>1, <2>4
    <3> QED
      BY <1>3, <2>3, <3>1
  <2>6. tag = rules[first].tag
    BY <1>4, <1>5, <1>8, <2>4
  <2> QED
    BY <2>4, <2>5, <2>6 DEF tag, list
<1> QED
  BY <1>7, <1>8

-----------------------------------------------------------------------------
(* Fallback.  Any list of entries and any request that falls back.         *)
Given == Words \ {""}

FallbackEntries ==
  [from : SUBSET Given, path : Words, alpn : {a \in SUBSET Given : IsFiniteSet(a)}, sni : Words]

FallbackRequests == [tag : Given, path : Words, alpn : Words, sni : Words]

FallbackInv == entries \in Seq(FallbackEntries) /\ request \in FallbackRequests

(* What a request may ask for, and the order in which TestAllSubSets tries *)
(* the parts of it.                                                        *)
PathAsked == <<"path", request.path>>
AlpnAsked == <<"alpn", {request.alpn}>>
SniAsked == <<"sni", request.sni>>

Askable == {PathAsked, AlpnAsked, SniAsked}

Tried ==
  <<{PathAsked, AlpnAsked, SniAsked}, {PathAsked, AlpnAsked}, {PathAsked, SniAsked},
    {AlpnAsked, SniAsked}, {PathAsked}, {AlpnAsked}, {SniAsked}, {}>>

LEMMA AskableAre ==
  /\ PathAsked[1] = "path" /\ AlpnAsked[1] = "alpn" /\ SniAsked[1] = "sni"
  /\ PathAsked # AlpnAsked /\ PathAsked # SniAsked /\ AlpnAsked # SniAsked
<1>1. PathAsked[1] = "path" /\ AlpnAsked[1] = "alpn" /\ SniAsked[1] = "sni"
  BY DEF PathAsked, AlpnAsked, SniAsked
<1> QED
  BY <1>1

LEMMA TriedAre ==
  /\ Tried[1] = {PathAsked, AlpnAsked, SniAsked} /\ Tried[2] = {PathAsked, AlpnAsked}
  /\ Tried[3] = {PathAsked, SniAsked} /\ Tried[4] = {AlpnAsked, SniAsked}
  /\ Tried[5] = {PathAsked} /\ Tried[6] = {AlpnAsked} /\ Tried[7] = {SniAsked} /\ Tried[8] = {}
BY DEF Tried

LEMMA PartsAreTried ==
  ASSUME NEW c \in SUBSET Askable
  PROVE  \E k \in 1..8 : c = Tried[k]
<1>1. CASE PathAsked \in c /\ AlpnAsked \in c /\ SniAsked \in c
  BY <1>1, TriedAre DEF Askable
<1>2. CASE PathAsked \in c /\ AlpnAsked \in c /\ SniAsked \notin c
  BY <1>2, TriedAre DEF Askable
<1>3. CASE PathAsked \in c /\ AlpnAsked \notin c /\ SniAsked \in c
  BY <1>3, TriedAre DEF Askable
<1>4. CASE PathAsked \notin c /\ AlpnAsked \in c /\ SniAsked \in c
  BY <1>4, TriedAre DEF Askable
<1>5. CASE PathAsked \in c /\ AlpnAsked \notin c /\ SniAsked \notin c
  BY <1>5, TriedAre DEF Askable
<1>6. CASE PathAsked \notin c /\ AlpnAsked \in c /\ SniAsked \notin c
  BY <1>6, TriedAre DEF Askable
<1>7. CASE PathAsked \notin c /\ AlpnAsked \notin c /\ SniAsked \in c
  BY <1>7, TriedAre DEF Askable
<1>8. CASE PathAsked \notin c /\ AlpnAsked \notin c /\ SniAsked \notin c
  BY <1>8, TriedAre DEF Askable
<1> QED
  BY <1>1, <1>2, <1>3, <1>4, <1>5, <1>6, <1>7, <1>8

LEMMA PairIsTwo ==
  ASSUME NEW a, NEW b, a # b
  PROVE  IsFiniteSet({a, b}) /\ Cardinality({a, b}) = 2
<1>1. IsFiniteSet({a}) /\ Cardinality({a}) = 1
  BY FS_Singleton
<1>2. /\ IsFiniteSet({a} \cup {b})
      /\ Cardinality({a} \cup {b}) = IF b \in {a} THEN Cardinality({a}) ELSE Cardinality({a}) + 1
  BY <1>1, FS_AddElement
<1>3. {a} \cup {b} = {a, b} /\ b \notin {a} /\ 1 + 1 = 2
  OBVIOUS
<1> QED
  BY <1>1, <1>2, <1>3

LEMMA TripleIsThree ==
  ASSUME NEW a, NEW b, NEW c, a # b, a # c, b # c
  PROVE  IsFiniteSet({a, b, c}) /\ Cardinality({a, b, c}) = 3
<1>1. IsFiniteSet({a, b}) /\ Cardinality({a, b}) = 2
  BY PairIsTwo
<1>2. /\ IsFiniteSet({a, b} \cup {c})
      /\ Cardinality({a, b} \cup {c})
           = IF c \in {a, b} THEN Cardinality({a, b}) ELSE Cardinality({a, b}) + 1
  BY <1>1, FS_AddElement
<1>3. {a, b} \cup {c} = {a, b, c} /\ c \notin {a, b} /\ 2 + 1 = 3
  OBVIOUS
<1> QED
  BY <1>1, <1>2, <1>3

LEMMA SizesAgree == \A S : Fallback!Cardinality(S) = Cardinality(S)
BY DEF Fallback!Cardinality, Cardinality

(* Larger sets come first, and of two of a size the one with the heavier   *)
(* type among those in which they differ.                                  *)
LEMMA BeforeMeans ==
  ASSUME NEW c, NEW d
  PROVE  /\ Cardinality(c) > Cardinality(d) => Fallback!Before(c, d)
         /\ /\ Cardinality(c) = Cardinality(d)
            /\ \E t \in Fallback!Types(c) \ Fallback!Types(d) :
                 \A u \in Fallback!Types(d) \ Fallback!Types(c) :
                   Fallback!Weight(t) > Fallback!Weight(u)
            => Fallback!Before(c, d)
         /\ Fallback!Before(c, d) =>
              \/ Cardinality(c) > Cardinality(d)
              \/ /\ Cardinality(c) = Cardinality(d)
                 /\ Fallback!Types(c) \ Fallback!Types(d) # {}
<1>1. Fallback!Cardinality(c) = Cardinality(c) /\ Fallback!Cardinality(d) = Cardinality(d)
  BY SizesAgree
<1> QED
  BY <1>1 DEF Fallback!Before

LEMMA TriedSizes ==
  /\ \A k \in 1..8 : IsFiniteSet(Tried[k])
  /\ Cardinality(Tried[1]) = 3 /\ Cardinality(Tried[2]) = 2 /\ Cardinality(Tried[3]) = 2
  /\ Cardinality(Tried[4]) = 2 /\ Cardinality(Tried[5]) = 1 /\ Cardinality(Tried[6]) = 1
  /\ Cardinality(Tried[7]) = 1 /\ Cardinality(Tried[8]) = 0
<1>1. IsFiniteSet(Tried[1]) /\ Cardinality(Tried[1]) = 3
  BY TriedAre, AskableAre, TripleIsThree
<1>2. IsFiniteSet(Tried[2]) /\ Cardinality(Tried[2]) = 2
  <2>1. PathAsked # AlpnAsked
    BY AskableAre
  <2>2. IsFiniteSet({PathAsked, AlpnAsked}) /\ Cardinality({PathAsked, AlpnAsked}) = 2
    BY <2>1, PairIsTwo
  <2> QED
    BY <2>2, TriedAre
<1>3. IsFiniteSet(Tried[3]) /\ Cardinality(Tried[3]) = 2
  <2>1. PathAsked # SniAsked
    BY AskableAre
  <2>2. IsFiniteSet({PathAsked, SniAsked}) /\ Cardinality({PathAsked, SniAsked}) = 2
    BY <2>1, PairIsTwo
  <2> QED
    BY <2>2, TriedAre
<1>4. IsFiniteSet(Tried[4]) /\ Cardinality(Tried[4]) = 2
  <2>1. AlpnAsked # SniAsked
    BY AskableAre
  <2>2. IsFiniteSet({AlpnAsked, SniAsked}) /\ Cardinality({AlpnAsked, SniAsked}) = 2
    BY <2>1, PairIsTwo
  <2> QED
    BY <2>2, TriedAre
<1>5. /\ IsFiniteSet(Tried[5]) /\ Cardinality(Tried[5]) = 1
      /\ IsFiniteSet(Tried[6]) /\ Cardinality(Tried[6]) = 1
      /\ IsFiniteSet(Tried[7]) /\ Cardinality(Tried[7]) = 1
  <2>1. \A x : IsFiniteSet({x}) /\ Cardinality({x}) = 1
    BY FS_Singleton
  <2>2. Tried[5] = {PathAsked} /\ Tried[6] = {AlpnAsked} /\ Tried[7] = {SniAsked}
    BY TriedAre
  <2> QED
    BY <2>1, <2>2
<1>6. IsFiniteSet(Tried[8]) /\ Cardinality(Tried[8]) = 0
  BY TriedAre, FS_EmptySet
<1>7. \A k \in 1..8 : k = 1 \/ k = 2 \/ k = 3 \/ k = 4 \/ k = 5 \/ k = 6 \/ k = 7 \/ k = 8
  OBVIOUS
<1> QED
  BY <1>1, <1>2, <1>3, <1>4, <1>5, <1>6, <1>7

LEMMA TypesTried ==
  /\ Fallback!Types(Tried[2]) = {"path", "alpn"} /\ Fallback!Types(Tried[3]) = {"path", "sni"}
  /\ Fallback!Types(Tried[4]) = {"alpn", "sni"} /\ Fallback!Types(Tried[5]) = {"path"}
  /\ Fallback!Types(Tried[6]) = {"alpn"} /\ Fallback!Types(Tried[7]) = {"sni"}
<1>1. \A a, b : Fallback!Types({a, b}) = {a[1], b[1]}
  BY DEF Fallback!Types
<1>2. \A a : Fallback!Types({a}) = {a[1]}
  BY DEF Fallback!Types
<1>3. /\ Fallback!Types({PathAsked, AlpnAsked}) = {"path", "alpn"}
      /\ Fallback!Types({PathAsked, SniAsked}) = {"path", "sni"}
      /\ Fallback!Types({AlpnAsked, SniAsked}) = {"alpn", "sni"}
  BY <1>1, AskableAre
<1>4. /\ Fallback!Types({PathAsked}) = {"path"} /\ Fallback!Types({AlpnAsked}) = {"alpn"}
      /\ Fallback!Types({SniAsked}) = {"sni"}
  BY <1>2, AskableAre
<1> QED
  BY <1>3, <1>4, TriedAre

(* The order of the list is the order in which the subsets are tried.      *)
LEMMA TriedInOrder ==
  ASSUME NEW k \in 1..8, NEW l \in 1..8, k < l
  PROVE  Fallback!Before(Tried[k], Tried[l])
<1>1. /\ Fallback!Weight("path") = 4 /\ Fallback!Weight("alpn") = 2 /\ Fallback!Weight("sni") = 1
  BY DEF Fallback!Weight
<1>2. \/ k = 1 \/ (k \in {2, 3, 4} /\ l \in {5, 6, 7, 8}) \/ (k \in {5, 6, 7} /\ l = 8)
      \/ (k = 2 /\ l = 3) \/ (k = 2 /\ l = 4) \/ (k = 3 /\ l = 4)
      \/ (k = 5 /\ l = 6) \/ (k = 5 /\ l = 7) \/ (k = 6 /\ l = 7)
  OBVIOUS
<1>3. CASE k = 1
  <2>1. l \in {2, 3, 4, 5, 6, 7, 8}
    BY <1>3
  <2>2. Cardinality(Tried[k]) > Cardinality(Tried[l])
    BY <1>3, <2>1, TriedSizes
  <2> QED
    BY <2>2, BeforeMeans
<1>4. CASE k \in {2, 3, 4} /\ l \in {5, 6, 7, 8}
  <2>1. Cardinality(Tried[k]) = 2 /\ Cardinality(Tried[l]) \in {0, 1}
    BY <1>4, TriedSizes
  <2>2. Cardinality(Tried[k]) > Cardinality(Tried[l])
    BY <2>1
  <2> QED
    BY <2>2, BeforeMeans
<1>5. CASE k \in {5, 6, 7} /\ l = 8
  <2>1. Cardinality(Tried[k]) = 1 /\ Cardinality(Tried[l]) = 0
    BY <1>5, TriedSizes
  <2>2. Cardinality(Tried[k]) > Cardinality(Tried[l])
    BY <2>1
  <2> QED
    BY <2>2, BeforeMeans
<1> DEFINE Heavier(c, d) ==
      \E t \in Fallback!Types(c) \ Fallback!Types(d) :
        \A u \in Fallback!Types(d) \ Fallback!Types(c) : Fallback!Weight(t) > Fallback!Weight(u)
<1>6. Heavier(Tried[2], Tried[3])
  <2>1. "alpn" \in Fallback!Types(Tried[2]) \ Fallback!Types(Tried[3])
    BY TypesTried
  <2>2. \A u \in Fallback!Types(Tried[3]) \ Fallback!Types(Tried[2]) : u = "sni"
    BY TypesTried
  <2> QED
    BY <1>1, <2>1, <2>2
<1>7. Heavier(Tried[2], Tried[4]) /\ Heavier(Tried[3], Tried[4])
  <2>1. /\ "path" \in Fallback!Types(Tried[2]) \ Fallback!Types(Tried[4])
        /\ "path" \in Fallback!Types(Tried[3]) \ Fallback!Types(Tried[4])
    BY TypesTried
  <2>2. /\ \A u \in Fallback!Types(Tried[4]) \ Fallback!Types(Tried[2]) : u = "sni"
        /\ \A u \in Fallback!Types(Tried[4]) \ Fallback!Types(Tried[3]) : u = "alpn"
    BY TypesTried
  <2> QED
    BY <1>1, <2>1, <2>2
<1>8. Heavier(Tried[5], Tried[6]) /\ Heavier(Tried[5], Tried[7]) /\ Heavier(Tried[6], Tried[7])
  <2>1. /\ "path" \in Fallback!Types(Tried[5]) \ Fallback!Types(Tried[6])
        /\ "path" \in Fallback!Types(Tried[5]) \ Fallback!Types(Tried[7])
        /\ "alpn" \in Fallback!Types(Tried[6]) \ Fallback!Types(Tried[7])
    BY TypesTried
  <2>2. /\ \A u \in Fallback!Types(Tried[6]) \ Fallback!Types(Tried[5]) : u = "alpn"
        /\ \A u \in Fallback!Types(Tried[7]) \ Fallback!Types(Tried[5]) : u = "sni"
        /\ \A u \in Fallback!Types(Tried[7]) \ Fallback!Types(Tried[6]) : u = "sni"
    BY TypesTried
  <2> QED
    BY <1>1, <2>1, <2>2
<1>9. \A c, d : Cardinality(c) = Cardinality(d) /\ Heavier(c, d) => Fallback!Before(c, d)
  BY BeforeMeans
<1> HIDE DEF Heavier
<1>10. CASE (k = 2 /\ l = 3) \/ (k = 2 /\ l = 4) \/ (k = 3 /\ l = 4)
  BY <1>6, <1>7, <1>9, <1>10, TriedSizes
<1>11. CASE (k = 5 /\ l = 6) \/ (k = 5 /\ l = 7) \/ (k = 6 /\ l = 7)
  BY <1>8, <1>9, <1>11, TriedSizes
<1> QED
  BY <1>2, <1>3, <1>4, <1>5, <1>10, <1>11

LEMMA AskableFinite == IsFiniteSet(Askable)
BY TriedAre, TriedSizes DEF Askable

(* Of some parts the one that is tried first comes before all others.      *)
LEMMA BestFound ==
  ASSUME NEW F, F \subseteq SUBSET Askable, F # {}
  PROVE  \E c \in F : \A d \in F \ {c} : Fallback!Before(c, d)
<1> DEFINE K == {k \in 1..8 : Tried[k] \in F}
<1>1. K \subseteq Nat /\ K # {}
  <2>1. PICK c \in F : TRUE
    OBVIOUS
  <2>2. PICK k \in 1..8 : c = Tried[k]
    BY <2>1, PartsAreTried
  <2> QED
    BY <2>1, <2>2
<1>2. PICK k \in K : \A l \in K : k <= l
  BY <1>1, LeastOf
<1>3. Tried[k] \in F
  OBVIOUS
<1>4. ASSUME NEW d \in F, d # Tried[k]
      PROVE  Fallback!Before(Tried[k], d)
  <2>1. PICK l \in 1..8 : d = Tried[l]
    BY PartsAreTried
  <2>2. l \in K /\ l # k
    BY <1>4, <2>1
  <2>3. k \in 1..8 /\ k < l
    BY <1>2, <2>2
  <2> QED
    BY <2>1, <2>3, TriedInOrder
<1> QED
  BY <1>3, <1>4

(* Of two subsets the one that comes before is no part of the other.       *)
LEMMA BeforeIsNoPart ==
  ASSUME NEW c \in SUBSET Askable, NEW d \in SUBSET Askable, Fallback!Before(c, d)
  PROVE  ~(c \subseteq d /\ c # d)
<1> SUFFICES ASSUME c \subseteq d, c # d PROVE FALSE
  OBVIOUS
<1>1. IsFiniteSet(d) /\ IsFiniteSet(c)
  BY AskableFinite, FS_Subset
<1>2. Cardinality(c) \in Nat /\ Cardinality(d) \in Nat
  BY <1>1, FS_CardinalityType
<1>3. Cardinality(c) <= Cardinality(d) /\ Cardinality(c) # Cardinality(d)
  BY <1>1, FS_Subset
<1>4. Cardinality(c) >= Cardinality(d)
  <2>1. Cardinality(c) > Cardinality(d) \/ Cardinality(c) = Cardinality(d)
    BY BeforeMeans
  <2> QED
    BY <1>2, <2>1
<1> QED
  BY <1>2, <1>3, <1>4

-----------------------------------------------------------------------------
(* No place in a list, no string and no header is none of them.            *)
LEMMA NoneIsNoValue ==
  None \notin Nat /\ None \notin Words /\ None \notin HttpHeaders
BY NoneAssumption

LEMMA EntriesAre ==
  ASSUME FallbackInv
  PROVE  /\ Len(entries) \in Nat /\ DOMAIN entries = 1..Len(entries)
         /\ \A i \in DOMAIN entries : entries[i] \in FallbackEntries
         /\ request \in FallbackRequests
BY LenProperties, ElementOfSeq DEF FallbackInv

(* The last of some entries, if there is one.                              *)
LEMMA LatestIs ==
  ASSUME FallbackInv, NEW is, is \subseteq DOMAIN entries
  PROVE  /\ is = {} <=> Fallback!Latest(is) = None
         /\ is # {} => Fallback!Latest(is) \in is
<1>1. Len(entries) \in Nat /\ is \subseteq 1..Len(entries)
  BY EntriesAre
<1>2. CASE is = {}
  BY <1>2 DEF Fallback!Latest
<1>3. CASE is # {}
  <2> DEFINE R == {Len(entries) - j : j \in is}
  <2>1. R \subseteq Nat /\ R # {}
    BY <1>1, <1>3
  <2>2. PICK x \in R : \A y \in R : x <= y
    BY <2>1, LeastOf
  <2>3. PICK i \in is : x = Len(entries) - i
    OBVIOUS
  <2>4. ASSUME NEW j \in is
        PROVE  j <= i
    <3>1. Len(entries) - i <= Len(entries) - j
      BY <2>2, <2>3
    <3> QED
      BY <1>1, <3>1
  <2>5. Fallback!Latest(is) \in is
    BY <1>3, <2>4 DEF Fallback!Latest
  <2>6. Fallback!Latest(is) # None
    BY <1>1, <2>5, NoneIsNoValue
  <2> QED
    BY <1>3, <2>5, <2>6
<1> QED
  BY <1>2, <1>3

(* A request asks for what it has.                                         *)
LEMMA AskedAre ==
  ASSUME FallbackInv
  PROVE  /\ Fallback!Asked \subseteq Askable
         /\ PathAsked \in Fallback!Asked <=> request.path # ""
         /\ AlpnAsked \in Fallback!Asked <=> request.alpn # ""
         /\ SniAsked \in Fallback!Asked <=> request.sni # ""
<1> DEFINE P == IF request.path = "" THEN {} ELSE {PathAsked}
           A == IF request.alpn = "" THEN {} ELSE {AlpnAsked}
           S == IF request.sni = "" THEN {} ELSE {SniAsked}
<1>1. Fallback!Asked = P \cup A \cup S
  <2>1. {} # {request.alpn}
    OBVIOUS
  <2> QED
    BY <2>1 DEF Fallback!Asked, Fallback!Condition, PathAsked, AlpnAsked, SniAsked
<1>2. P \subseteq {PathAsked} /\ A \subseteq {AlpnAsked} /\ S \subseteq {SniAsked}
  OBVIOUS
<1>3. /\ PathAsked \in P <=> request.path # ""
      /\ AlpnAsked \in A <=> request.alpn # ""
      /\ SniAsked \in S <=> request.sni # ""
  OBVIOUS
<1> HIDE DEF P, A, S
<1> QED
  BY <1>1, <1>2, <1>3, AskableAre DEF Askable

(* What an entry asks for, one type at a time.                             *)
LEMMA EntryAsks ==
  ASSUME FallbackInv, NEW i \in DOMAIN entries
  PROVE  Fallback!OfEntry(entries[i]) \subseteq Fallback!Asked
           <=> /\ entries[i].path \in {"", request.path}
               /\ entries[i].alpn \in {{}, {request.alpn}}
               /\ entries[i].sni \in {"", request.sni}
<1> DEFINE e == entries[i]
           P == IF e.path = "" THEN {} ELSE {<<"path", e.path>>}
           A == IF e.alpn = {} THEN {} ELSE {<<"alpn", e.alpn>>}
           S == IF e.sni = "" THEN {} ELSE {<<"sni", e.sni>>}
<1>1. Fallback!OfEntry(e) = P \cup A \cup S
  BY DEF Fallback!OfEntry, Fallback!Condition
<1>2. e \in FallbackEntries
  BY EntriesAre
<1>3. e.alpn \subseteq Given
  BY <1>2 DEF FallbackEntries
<1>4. /\ <<"path", e.path>> = PathAsked <=> e.path = request.path
      /\ <<"path", e.path>> # AlpnAsked /\ <<"path", e.path>> # SniAsked
  BY DEF PathAsked, AlpnAsked, SniAsked
<1>5. /\ <<"alpn", e.alpn>> = AlpnAsked <=> e.alpn = {request.alpn}
      /\ <<"alpn", e.alpn>> # PathAsked /\ <<"alpn", e.alpn>> # SniAsked
  BY DEF PathAsked, AlpnAsked, SniAsked
<1>6. /\ <<"sni", e.sni>> = SniAsked <=> e.sni = request.sni
      /\ <<"sni", e.sni>> # PathAsked /\ <<"sni", e.sni>> # AlpnAsked
  BY DEF PathAsked, AlpnAsked, SniAsked
<1>7. P \subseteq Fallback!Asked <=> e.path \in {"", request.path}
  BY <1>4, AskedAre DEF Askable
<1>8. S \subseteq Fallback!Asked <=> e.sni \in {"", request.sni}
  BY <1>6, AskedAre DEF Askable
<1>9. A \subseteq Fallback!Asked <=> e.alpn \in {{}, {request.alpn}}
  <2>1. e.alpn = {request.alpn} => request.alpn # ""
    BY <1>3 DEF Given
  <2>2. e.alpn # {} => A = {<<"alpn", e.alpn>>}
    OBVIOUS
  <2>3. e.alpn = {} => A = {}
    OBVIOUS
  <2> HIDE DEF A
  <2>4. ASSUME e.alpn # {}
        PROVE  <<"alpn", e.alpn>> \in Fallback!Asked <=> e.alpn = {request.alpn}
    BY <1>5, <2>1, <2>4, AskedAre DEF Askable
  <2> QED
    BY <2>2, <2>3, <2>4
<1> HIDE DEF P, A, S
<1>10. P \cup A \cup S \subseteq Fallback!Asked
         <=> /\ P \subseteq Fallback!Asked
             /\ A \subseteq Fallback!Asked
             /\ S \subseteq Fallback!Asked
  OBVIOUS
<1>11. Fallback!OfEntry(e) \subseteq Fallback!Asked
         <=> /\ e.path \in {"", request.path}
             /\ e.alpn \in {{}, {request.alpn}}
             /\ e.sni \in {"", request.sni}
  BY <1>1, <1>7, <1>8, <1>9, <1>10
<1> QED
  BY <1>11

-----------------------------------------------------------------------------
(* The entries that may be found: those that ask for something the         *)
(* request has, and for nothing else.                                      *)
Fitting == {i \in DOMAIN entries :
              /\ Fallback!OfEntry(entries[i]) # {}
              /\ Fallback!OfEntry(entries[i]) \subseteq Fallback!Asked}

OfTag == {i \in DOMAIN entries : request.tag \in entries[i].from}

OfNone == {i \in DOMAIN entries : entries[i].from = {}}

(* An entry is default, asks for nothing but a tag, or is inserted.        *)
LEMMA MapsAre ==
  ASSUME FallbackInv
  PROVE  /\ \A i \in DOMAIN entries :
              Fallback!IsDefault(entries[i])
                <=> Fallback!OfEntry(entries[i]) = {} /\ entries[i].from = {}
         /\ Fallback!MapOf(request.tag)
              = {i \in OfTag : ~Fallback!IsDefault(entries[i])}
         /\ Fallback!MapOf("") = {i \in OfNone : ~Fallback!IsDefault(entries[i])}
<1>1. request.tag # ""
  BY DEF FallbackInv, FallbackRequests, Given
<1> QED
  BY <1>1 DEF Fallback!IsDefault, Fallback!MapOf, Fallback!Inserted, OfTag, OfNone

LEMMA ApplyingFits ==
  ASSUME FallbackInv, NEW i \in DOMAIN entries,
         Fallback!OfEntry(entries[i]) \subseteq Fallback!Asked, i \in OfTag \cup OfNone
  PROVE  Fallback!Applies(i)
<1>1. /\ entries[i].path \in {"", request.path} /\ entries[i].alpn \in {{}, {request.alpn}}
      /\ entries[i].sni \in {"", request.sni}
  BY EntryAsks
<1> QED
  BY <1>1 DEF Fallback!Applies, OfTag, OfNone

(* An entry that asks for no more than the request has is overlooked only  *)
(* when it names no tag and the server has entries of its own.             *)
LEMMA FittingSeen ==
  ASSUME FallbackInv, NEW i \in Fitting
  PROVE  /\ ~Fallback!IsDefault(entries[i])
         /\ Fallback!Overlooked(i)
              <=> /\ entries[i].from = {} /\ Fallback!MapOf(request.tag) # {}
                  /\ Fallback!Types(Fallback!Asked) = {"path"} /\ Fallback!DefaultEntry # None
<1>1. /\ i \in DOMAIN entries /\ Fallback!OfEntry(entries[i]) # {}
      /\ Fallback!OfEntry(entries[i]) \subseteq Fallback!Asked
  BY DEF Fitting
<1>2. entries[i].alpn \in {{}, {request.alpn}}
  BY <1>1, EntryAsks
<1>3. ~(Fallback!Cardinality(entries[i].alpn) > 1)
  <2>1. Cardinality({}) = 0 /\ Cardinality({request.alpn}) = 1
    BY FS_EmptySet, FS_Singleton
  <2>2. Fallback!Cardinality(entries[i].alpn) = Cardinality(entries[i].alpn)
    BY SizesAgree
  <2>3. Cardinality(entries[i].alpn) \in {0, 1}
    BY <1>2, <2>1
  <2> QED
    BY <2>2, <2>3
<1>4. ~Fallback!IsDefault(entries[i])
  BY <1>1, MapsAre
<1> QED
  BY <1>1, <1>3, <1>4 DEF Fallback!Overlooked

(* And one that applies and is not overlooked asks for no more.            *)
LEMMA SeenFits ==
  ASSUME FallbackInv, NEW i \in DOMAIN entries, Fallback!Applies(i),
         ~Fallback!IsDefault(entries[i]), ~Fallback!Overlooked(i)
  PROVE  i \in Fitting /\ i \in OfTag \cup OfNone
<1> DEFINE e == entries[i]
<1>1. /\ e.from = {} \/ request.tag \in e.from
      /\ e.path \in {"", request.path}
      /\ e.alpn = {} \/ request.alpn \in e.alpn
      /\ e.sni \in {"", request.sni}
  BY DEF Fallback!Applies
<1>2. ~(Fallback!Cardinality(e.alpn) > 1) /\ ~(Fallback!OfEntry(e) = {} /\ e.from # {})
  BY DEF Fallback!Overlooked
<1>3. IsFiniteSet(e.alpn)
  BY EntriesAre DEF FallbackEntries
<1>4. Cardinality(e.alpn) \in Nat /\ Cardinality(e.alpn) <= 1
  <2>1. Fallback!Cardinality(e.alpn) = Cardinality(e.alpn)
    BY SizesAgree
  <2>2. Cardinality(e.alpn) \in Nat
    BY <1>3, FS_CardinalityType
  <2> QED
    BY <1>2, <2>1, <2>2
<1>5. e.alpn \in {{}, {request.alpn}}
  <2>1. CASE e.alpn = {}
    BY <2>1
  <2>2. CASE e.alpn # {}
    <3>1. Cardinality(e.alpn) # 0
      BY <1>3, <2>2, FS_EmptySet
    <3>2. Cardinality(e.alpn) = 1
      BY <1>4, <3>1
    <3>3. PICK x : e.alpn = {x}
      BY <1>3, <3>2, FS_Singleton
    <3> QED
      BY <1>1, <3>3
  <2> QED
    BY <2>1, <2>2
<1>6. Fallback!OfEntry(e) \subseteq Fallback!Asked
  BY <1>1, <1>5, EntryAsks
<1>7. Fallback!OfEntry(e) # {}
  BY <1>2, MapsAre
<1> QED
  BY <1>1, <1>6, <1>7 DEF Fitting, OfTag, OfNone

(* TestAllSubSets of a map finds an entry if one of the map fits, and none *)
(* that asks for less than another of the map.                             *)
LEMMA TestAllSubSetsIs ==
  ASSUME FallbackInv, NEW map, map \subseteq DOMAIN entries
  PROVE  LET r == Fallback!TestAllSubSets(Fallback!Asked, map)
         IN /\ r # None => r \in map /\ Fallback!OfEntry(entries[r]) \subseteq Fallback!Asked
            /\ r # None /\ Fallback!Asked # {} => r \in Fitting
            /\ \A i \in map \cap Fitting :
                 /\ r # None /\ r \in Fitting
                 /\ ~(Fallback!OfEntry(entries[r]) \subseteq Fallback!OfEntry(entries[i])
                      /\ Fallback!OfEntry(entries[r]) # Fallback!OfEntry(entries[i]))
<1> DEFINE asked == Fallback!Asked
           parts == ((SUBSET asked) \ {{}}) \cup {asked}
           found == {c \in parts : Fallback!InMap(map, c) # None}
           best == CHOOSE c \in found : \A d \in found \ {c} : Fallback!Before(c, d)
           r == Fallback!TestAllSubSets(asked, map)
           of(i) == Fallback!OfEntry(entries[i])
<1>1. r = IF found = {} THEN None ELSE Fallback!InMap(map, best)
  BY DEF Fallback!TestAllSubSets
<1>2. ASSUME NEW c
      PROVE  /\ Fallback!InMap(map, c) # None
                  => /\ Fallback!InMap(map, c) \in map
                     /\ of(Fallback!InMap(map, c)) = c
             /\ \A i \in map : of(i) = c => Fallback!InMap(map, c) # None
  <2> DEFINE is == {i \in map : of(i) = c}
  <2>1. is \subseteq DOMAIN entries
    OBVIOUS
  <2>2. Fallback!InMap(map, c) = Fallback!Latest(is)
    BY DEF Fallback!InMap
  <2>3. /\ is = {} <=> Fallback!Latest(is) = None
        /\ is # {} => Fallback!Latest(is) \in is
    BY <2>1, LatestIs
  <2> QED
    BY <2>2, <2>3
<1>3. found # {} => best \in found /\ \A d \in found \ {best} : Fallback!Before(best, d)
  <2>1. found \subseteq SUBSET Askable
    BY AskedAre
  <2> HIDE DEF found
  <2> QED
    BY <2>1, BestFound
<1>4. found \subseteq SUBSET asked /\ asked \subseteq Askable
  BY AskedAre
<1>5. \A c \in found : Fallback!InMap(map, c) # None
  OBVIOUS
<1> HIDE DEF asked, best, r
<1>6. ASSUME NEW c \in found
      PROVE  c = {} => asked = {}
  <2>1. c \in parts
    OBVIOUS
  <2> QED
    BY <2>1
<1>7. ASSUME NEW c, c # {}, c \subseteq asked, Fallback!InMap(map, c) # None
      PROVE  c \in found
  <2>1. c \in parts
    BY <1>7
  <2> HIDE DEF parts
  <2> QED
    BY <1>7, <2>1
<1> HIDE DEF parts, found
<1>8. r # None => found # {} /\ r \in map /\ of(r) = best /\ best \in found
  BY <1>1, <1>2, <1>3
<1>9. /\ r # None => r \in map /\ of(r) \subseteq asked
      /\ r # None /\ asked # {} => r \in Fitting
  <2>1. r # None => r \in map /\ of(r) \subseteq asked
    BY <1>4, <1>8
  <2>2. r # None /\ asked # {} => of(r) # {}
    BY <1>6, <1>8
  <2> QED
    BY <2>1, <2>2 DEF Fitting, asked
<1>10. ASSUME NEW i \in map \cap Fitting
       PROVE  /\ r # None /\ r \in Fitting
              /\ ~(of(r) \subseteq of(i) /\ of(r) # of(i))
  <2>1. of(i) # {} /\ of(i) \subseteq asked
    BY DEF Fitting, asked
  <2>2. of(i) \in found
    BY <1>2, <1>7, <2>1
  <2>3. r # None
    BY <1>1, <1>3, <1>5, <2>2
  <2>4. of(r) = best /\ best \in found /\ r \in map
    BY <1>8, <2>3
  <2>5. of(r) # {} /\ of(r) \subseteq asked
    BY <1>4, <1>6, <2>1, <2>4
  <2>6. r \in Fitting
    BY <2>4, <2>5 DEF Fitting, asked
  <2>7. ASSUME of(r) \subseteq of(i), of(r) # of(i)
        PROVE  FALSE
    <3>1. Fallback!Before(of(r), of(i))
      BY <1>3, <2>2, <2>4, <2>7
    <3>2. of(r) \in SUBSET Askable /\ of(i) \in SUBSET Askable
      BY <1>4, <2>1, <2>5
    <3> QED
      BY <2>7, <3>1, <3>2, BeforeIsNoPart
  <2> QED
    BY <2>3, <2>6, <2>7
<1> QED
  BY <1>9, <1>10 DEF r, asked

(* GetFallback for a tag returns the default entry or one that fits the    *)
(* request.                                                                *)
LEMMA FallbackApplies ==
  ASSUME FallbackInv, NEW tag \in {request.tag, ""}
  PROVE  LET g == Fallback!GetFallback(tag, Fallback!Asked)
         IN g # None => Fallback!Applies(g)
<1> DEFINE g == Fallback!GetFallback(tag, Fallback!Asked)
           map == IF Fallback!MapOf(tag) = {} THEN Fallback!MapOf("") ELSE Fallback!MapOf(tag)
           r == Fallback!TestAllSubSets(Fallback!Asked, map)
<1>1. g = Fallback!DefaultEntry \/ g = r
  BY DEF Fallback!GetFallback
<1>2. map \subseteq OfTag \cup OfNone
  BY MapsAre
<1>3. OfTag \cup OfNone \subseteq DOMAIN entries
  BY DEF OfTag, OfNone
<1> HIDE DEF map
<1>4. ASSUME r # None
      PROVE  Fallback!Applies(r)
  <2>1. map \subseteq DOMAIN entries
    BY <1>2, <1>3
  <2>2. r \in map /\ Fallback!OfEntry(entries[r]) \subseteq Fallback!Asked
    BY <1>4, <2>1, TestAllSubSetsIs
  <2> HIDE DEF r
  <2> QED
    BY <1>2, <1>3, <2>2, ApplyingFits
<1>5. ASSUME Fallback!DefaultEntry # None
      PROVE  Fallback!Applies(Fallback!DefaultEntry)
  <2> DEFINE is == {i \in DOMAIN entries : Fallback!IsDefault(entries[i])}
  <2>1. Fallback!DefaultEntry = Fallback!Latest(is)
    BY DEF Fallback!DefaultEntry
  <2>2. is \subseteq DOMAIN entries
    OBVIOUS
  <2>3. Fallback!DefaultEntry \in is
    BY <1>5, <2>1, <2>2, LatestIs
  <2> DEFINE d == Fallback!DefaultEntry
  <2>4. /\ d \in DOMAIN entries /\ Fallback!OfEntry(entries[d]) = {}
        /\ entries[d].from = {}
    BY <2>3, MapsAre
  <2> HIDE DEF d
  <2>5. d \in OfTag \cup OfNone /\ Fallback!OfEntry(entries[d]) \subseteq Fallback!Asked
    BY <2>4 DEF OfNone
  <2>6. Fallback!Applies(d)
    BY <2>4, <2>5, ApplyingFits
  <2> QED
    BY <2>6 DEF d
<1> HIDE DEF r, g
<1>6. ASSUME g # None
      PROVE  Fallback!Applies(g)
  <2>1. CASE g = r
    <3>1. Fallback!Applies(r)
      BY <1>4, <1>6, <2>1
    <3> QED
      BY <2>1, <3>1
  <2>2. CASE g = Fallback!DefaultEntry
    <3>1. Fallback!Applies(Fallback!DefaultEntry)
      BY <1>5, <1>6, <2>2
    <3> QED
      BY <2>2, <3>1
  <2> QED
    BY <1>1, <2>1, <2>2
<1> QED
  BY <1>6 DEF g

(* For a request that some entry fits it looks into a map; it returns the  *)
(* default entry only when nothing is found and only the path is known.    *)
LEMMA FallbackLooks ==
  ASSUME FallbackInv, NEW tag, NEW i \in Fitting
  PROVE  LET map == IF Fallback!MapOf(tag) = {} THEN Fallback!MapOf("")
                    ELSE Fallback!MapOf(tag)
             r == Fallback!TestAllSubSets(Fallback!Asked, map)
         IN Fallback!GetFallback(tag, Fallback!Asked)
              = IF r = None /\ Fallback!Types(Fallback!Asked) = {"path"}
                THEN Fallback!DefaultEntry ELSE r
<1> DEFINE asked == Fallback!Asked
           of == Fallback!OfEntry(entries[i])
<1>1. of # {} /\ of \subseteq asked /\ i \in DOMAIN entries
  BY DEF Fitting
<1>2. ~Fallback!IsDefault(entries[i])
  BY FittingSeen
<1>3. Fallback!Types(of) \subseteq Fallback!Supported
  <2>1. i \in Fallback!Inserted
    BY <1>1, <1>2 DEF Fallback!Inserted
  <2> QED
    BY <1>1, <2>1 DEF Fallback!Supported
<1>4. PICK c \in of : TRUE
  BY <1>1
<1>5. c[1] \in Fallback!Types(of) /\ c[1] \in Fallback!Types(asked)
  BY <1>1, <1>4 DEF Fallback!Types
<1>6. asked # {} /\ Fallback!Types(asked) \cap Fallback!Supported # {}
  BY <1>1, <1>3, <1>5
<1> HIDE DEF of
<1> QED
  BY <1>6 DEF Fallback!GetFallback

(* What is found in the map of the tags of an entry that fits.             *)
LEMMA FoundAmong ==
  ASSUME FallbackInv, NEW is \in {OfTag, OfNone}, NEW i \in Fitting \cap is
  PROVE  LET map == {k \in is : ~Fallback!IsDefault(entries[k])}
             r == Fallback!TestAllSubSets(Fallback!Asked, map)
         IN /\ map # {} /\ r # None /\ r \in Fitting \cap is
            /\ \A k \in Fitting \cap is :
                 ~(Fallback!OfEntry(entries[r]) \subseteq Fallback!OfEntry(entries[k])
                   /\ Fallback!OfEntry(entries[r]) # Fallback!OfEntry(entries[k]))
<1> DEFINE map == {k \in is : ~Fallback!IsDefault(entries[k])}
           r == Fallback!TestAllSubSets(Fallback!Asked, map)
<1>1. map \subseteq DOMAIN entries /\ map \subseteq is
  BY DEF OfTag, OfNone
<1>2. \A k \in Fitting \cap is : k \in map
  BY FittingSeen
<1> HIDE DEF map
<1>3. /\ r # None => r \in map
      /\ \A k \in map \cap Fitting :
           /\ r # None /\ r \in Fitting
           /\ ~(Fallback!OfEntry(entries[r]) \subseteq Fallback!OfEntry(entries[k])
                /\ Fallback!OfEntry(entries[r]) # Fallback!OfEntry(entries[k]))
  BY <1>1, TestAllSubSetsIs
<1> HIDE DEF r
<1> QED
  BY <1>1, <1>2, <1>3 DEF r, map

(* The entries of one list of tags, or without one, are all of the tags of *)
(* the entry that is chosen, if that is of them.                           *)
LEMMA SameTags ==
  ASSUME FallbackInv, NEW is \in {OfTag, OfNone}, NEW r \in is, NEW i \in DOMAIN entries,
         entries[i].from = entries[r].from
  PROVE  i \in is
BY DEF OfTag, OfNone

LEMMA FallbackIsSound ==
  ASSUME FallbackInv
  PROVE  Fallback!FallbackSound
<1> DEFINE chosen == Fallback!CheckFallback
           Better(i) == /\ Fallback!Applies(i) /\ ~Fallback!IsDefault(entries[i])
                        /\ ~Fallback!Overlooked(i)
           Best(r, is) == /\ r # None /\ r \in Fitting \cap is
                          /\ \A k \in Fitting \cap is :
                               ~(Fallback!OfEntry(entries[r]) \subseteq Fallback!OfEntry(entries[k])
                                 /\ Fallback!OfEntry(entries[r]) # Fallback!OfEntry(entries[k]))
           ofTag == Fallback!GetFallback(request.tag, Fallback!Asked)
           plain == Fallback!GetFallback("", Fallback!Asked)
           tagged == Fallback!TestAllSubSets(Fallback!Asked, Fallback!MapOf(request.tag))
           untagged == Fallback!TestAllSubSets(Fallback!Asked, Fallback!MapOf(""))
           pathOnly == Fallback!Types(Fallback!Asked) = {"path"}
<1>1. chosen = IF ofTag # None THEN ofTag ELSE plain
  BY DEF Fallback!CheckFallback
<1>2. chosen # None => Fallback!Applies(chosen)
  BY <1>1, FallbackApplies
<1>3. \A i \in DOMAIN entries : Better(i) => i \in Fitting /\ i \in OfTag \cup OfNone
  BY SeenFits
<1>4. OfTag \subseteq DOMAIN entries /\ OfNone \subseteq DOMAIN entries /\ OfTag \cap OfNone = {}
  BY DEF OfTag, OfNone
<1>5. ASSUME NEW i \in Fitting
      PROVE  /\ Fallback!MapOf(request.tag) # {} =>
                  ofTag = IF tagged = None /\ pathOnly THEN Fallback!DefaultEntry ELSE tagged
             /\ Fallback!MapOf(request.tag) = {} =>
                  ofTag = IF untagged = None /\ pathOnly THEN Fallback!DefaultEntry ELSE untagged
             /\ plain = IF untagged = None /\ pathOnly THEN Fallback!DefaultEntry ELSE untagged
  BY FallbackLooks
<1>6. ASSUME NEW i \in Fitting \cap OfTag
      PROVE  Fallback!MapOf(request.tag) # {} /\ Best(tagged, OfTag)
  BY MapsAre, FoundAmong
<1>7. ASSUME NEW i \in Fitting \cap OfNone
      PROVE  Best(untagged, OfNone)
  BY MapsAre, FoundAmong
<1>8. Fallback!MapOf(request.tag) \subseteq OfTag
  BY MapsAre
<1>9. tagged # None =>
        /\ tagged \in Fallback!MapOf(request.tag)
        /\ Fallback!Asked # {} => tagged \in Fitting
  <2>1. Fallback!MapOf(request.tag) \subseteq DOMAIN entries
    BY <1>4, <1>8
  <2> QED
    BY <2>1, TestAllSubSetsIs
<1> HIDE DEF chosen, ofTag, plain, tagged, untagged, pathOnly, Best
(* What is found among the entries of a tag or without one is as good as   *)
(* the entry that was to be found.                                         *)
<1>10. ASSUME NEW is \in {OfTag, OfNone}, Best(chosen, is),
              NEW i \in DOMAIN entries, Better(i),
              is = OfNone => Fallback!MapOf(request.tag) = {}
                             \/ ~pathOnly \/ Fallback!DefaultEntry = None
       PROVE  /\ chosen # None /\ Better(chosen)
              /\ \A k \in DOMAIN entries :
                   Better(k) /\ entries[k].from = entries[chosen].from =>
                     ~(Fallback!OfEntry(entries[chosen]) \subseteq Fallback!OfEntry(entries[k])
                       /\ Fallback!OfEntry(entries[chosen]) # Fallback!OfEntry(entries[k]))
  <2>1. /\ chosen # None /\ chosen \in Fitting /\ chosen \in is
        /\ \A k \in Fitting \cap is :
             ~(Fallback!OfEntry(entries[chosen]) \subseteq Fallback!OfEntry(entries[k])
               /\ Fallback!OfEntry(entries[chosen]) # Fallback!OfEntry(entries[k]))
    BY <1>10 DEF Best
  <2>2. ~Fallback!IsDefault(entries[chosen])
    BY <2>1, FittingSeen
  <2>3. ~Fallback!Overlooked(chosen)
    <3>1. CASE is = OfTag
      <4>1. entries[chosen].from # {}
        BY <2>1, <3>1 DEF OfTag
      <4> QED
        BY <2>1, <4>1, FittingSeen
    <3>2. CASE is = OfNone
      <4>1. \/ Fallback!MapOf(request.tag) = {} \/ Fallback!Types(Fallback!Asked) # {"path"}
            \/ Fallback!DefaultEntry = None
        BY <1>10, <3>2 DEF pathOnly
      <4> QED
        BY <2>1, <4>1, FittingSeen
    <3> QED
      BY <3>1, <3>2
  <2>4. Fallback!Applies(chosen)
    BY <1>2, <2>1
  <2>5. ASSUME NEW k \in DOMAIN entries, Better(k), entries[k].from = entries[chosen].from
        PROVE  k \in Fitting \cap is
    <3>1. k \in Fitting
      BY <1>3, <2>5
    <3>2. k \in is
      BY <2>1, <2>5, SameTags
    <3> QED
      BY <3>1, <3>2
  <2> HIDE DEF Better
  <2>6. Better(chosen)
    BY <2>2, <2>3, <2>4 DEF Better
  <2> QED
    BY <2>1, <2>5, <2>6
<1>11. ASSUME NEW i \in DOMAIN entries, Better(i)
       PROVE  \E is \in {OfTag, OfNone} :
                /\ Best(chosen, is)
                /\ is = OfNone => Fallback!MapOf(request.tag) = {}
                                  \/ ~pathOnly \/ Fallback!DefaultEntry = None
  <2>1. i \in Fitting /\ i \in OfTag \cup OfNone
    BY <1>3, <1>11
  <2>2. \A r, is : Best(r, is) => r # None
    BY DEF Best
  <2>3. CASE i \in OfTag
    <3>1. Fallback!MapOf(request.tag) # {} /\ Best(tagged, OfTag)
      BY <1>6, <2>1, <2>3
    <3>2. chosen = tagged
      BY <1>1, <1>5, <2>1, <2>2, <3>1
    <3>3. OfTag # OfNone
      BY <1>4, <2>3
    <3> QED
      BY <3>1, <3>2, <3>3
  <2>4. CASE i \in OfNone /\ Fallback!MapOf(request.tag) = {}
    <3>1. Best(untagged, OfNone)
      BY <1>7, <2>1, <2>4
    <3>2. chosen = untagged
      BY <1>1, <1>5, <2>1, <2>2, <2>4, <3>1
    <3> QED
      BY <2>4, <3>1, <3>2
  <2>5. CASE i \in OfNone /\ Fallback!MapOf(request.tag) # {}
    <3>1. Best(untagged, OfNone)
      BY <1>7, <2>1, <2>5
    <3>2. ~pathOnly \/ Fallback!DefaultEntry = None
      <4>1. entries[i].from = {}
        BY <2>5 DEF OfNone
      <4>2. ~Fallback!Overlooked(i)
        BY <1>11
      <4> QED
        BY <2>1, <2>5, <4>1, <4>2, FittingSeen DEF pathOnly
    <3>3. CASE tagged # None
      <4>1. tagged \in OfTag /\ ofTag = tagged
        BY <1>5, <1>8, <1>9, <2>1, <2>5, <3>3
      <4>2. chosen = tagged
        BY <1>1, <3>3, <4>1
      <4>3. Fallback!Asked # {}
        BY <2>1 DEF Fitting
      <4>4. Best(tagged, OfTag)
        BY <1>6, <1>9, <3>3, <4>1, <4>3
      <4>5. OfTag # OfNone
        BY <1>4, <4>1
      <4> QED
        BY <4>2, <4>4, <4>5
    <3>4. CASE tagged = None
      <4>1. ofTag = None
        BY <1>5, <2>1, <2>5, <3>2, <3>4
      <4>2. chosen = untagged
        BY <1>1, <1>5, <2>1, <2>2, <3>1, <4>1
      <4> QED
        BY <3>1, <3>2, <4>2
    <3> QED
      BY <3>3, <3>4
  <2> QED
    BY <2>1, <2>3, <2>4, <2>5
<1> QED
  BY <1>2, <1>10, <1>11 DEF chosen, Fallback!FallbackSound

-----------------------------------------------------------------------------
(* ConfUrl.  Any conf of a dial, which has no target, or of a listen,      *)
(* which is not of direct and has no mux, with every combination of what   *)
(* can be given; one address stands for all ips.                           *)
ConfFields ==
  {"protocol", "suffixed", "tls", "ip", "host", "network", "fullcone", "tag", "path", "adv",
   "security", "version", "extra", "rest", "alpn", "http", "insecure", "tlsType", "cert",
   "mux", "sendThrough", "noRoute", "fallback", "target", "targetNetwork"}

Typed(c) ==
  /\ DOMAIN c = ConfFields
  /\ c.protocol \in Words /\ c.suffixed \in BOOLEAN /\ c.tls \in BOOLEAN
  /\ c.ip \in {"", "1.1.1.1"} /\ c.host \in Words \ {"1.1.1.1"}
  /\ c.network \in Words /\ c.fullcone \in BOOLEAN /\ c.tag \in Words /\ c.path \in Words
  /\ c.adv \in Words /\ c.security \in Words /\ c.alpn \in SUBSET Words
  /\ c.http \in HttpHeaders \cup {None}
  /\ c.insecure \in BOOLEAN /\ c.tlsType \in Words /\ c.cert \in Words /\ c.mux \in BOOLEAN
  /\ c.target \in Words /\ c.targetNetwork \in Words
  /\ c.target = "" <=> c.targetNetwork = ""

OfKind(c) ==
  /\ kind \in {"dial", "listen"}
  /\ kind = "dial" => c.target = ""
  /\ kind = "listen" => c.protocol # "direct" /\ c.mux = FALSE

UrlInv == Typed(conf) /\ OfKind(conf)

(* What the program makes of a conf has a network if it is of direct, and  *)
(* everything in a header.                                                 *)
Complete(c) ==
  /\ c.protocol = "direct" => c.network # ""
  /\ c.http # None => c.http.method # "" /\ c.http.path # None

LEMMA BuiltIs ==
  ASSUME NEW c, DOMAIN c = ConfFields
  PROVE  LET b == ConfUrl!Built(c)
         IN /\ DOMAIN b = ConfFields
            /\ b.network = IF c.protocol = "direct" /\ c.network = "" THEN "dual" ELSE c.network
            /\ b.http = IF c.http = None THEN None ELSE ConfUrl!AssignDefaultValue(c.http)
            /\ \A f \in ConfFields \ {"network", "http"} : b[f] = c[f]
<1> DEFINE d == ConfUrl!NewDirect(c)
           b == ConfUrl!Built(c)
<1>1. DOMAIN c = ConfFields /\ {"network", "http"} \subseteq ConfFields
  BY DEF ConfFields
<1>2. /\ DOMAIN d = ConfFields
      /\ d.network = IF c.protocol = "direct" /\ c.network = "" THEN "dual" ELSE c.network
      /\ \A f \in ConfFields \ {"network"} : d[f] = c[f]
  BY <1>1 DEF ConfUrl!NewDirect
<1> HIDE DEF d
<1>3. b = [d EXCEPT !.http = IF d.http = None THEN None ELSE ConfUrl!AssignDefaultValue(d.http)]
  BY DEF ConfUrl!Built, d
<1>4. /\ DOMAIN b = ConfFields
      /\ b.http = IF d.http = None THEN None ELSE ConfUrl!AssignDefaultValue(d.http)
      /\ \A f \in ConfFields \ {"http"} : b[f] = d[f]
  BY <1>1, <1>2, <1>3
<1> HIDE DEF b
<1>5. d.http = c.http /\ b.network = d.network
  BY <1>1, <1>2, <1>4
<1>6. \A f \in ConfFields \ {"network", "http"} : b[f] = c[f]
  BY <1>2, <1>4
<1> QED
  BY <1>2, <1>4, <1>5, <1>6 DEF b

LEMMA DefaultsAre ==
  ASSUME NEW h \in HttpHeaders
  PROVE  LET a == ConfUrl!AssignDefaultValue(h)
         IN /\ a \in HttpHeaders /\ a # None
            /\ a.method = IF h.method = "" THEN "GET" ELSE h.method
            /\ a.path = IF h.path = None THEN "/" ELSE h.path
            /\ a.headers = IF h.headers = None THEN "default" ELSE h.headers
<1> DEFINE a == ConfUrl!AssignDefaultValue(h)
           method == IF h.method = "" THEN "GET" ELSE h.method
           path == IF h.path = None THEN "/" ELSE h.path
           headers == IF h.headers = None THEN "default" ELSE h.headers
           reply == IF h.response = None THEN "default" ELSE h.response
<1>1. a = [h EXCEPT !.method = method, !.path = path, !.headers = headers,
                    !.response = reply]
  BY DEF ConfUrl!AssignDefaultValue
<1>2. /\ method \in Words /\ path \in Words \cup {None} /\ headers \in Words \cup {None}
      /\ reply \in Words \cup {None}
  <2>1. /\ h.method \in Words /\ h.path \in Words \cup {None}
        /\ h.headers \in Words \cup {None} /\ h.response \in Words \cup {None}
    BY DEF HttpHeaders
  <2>2. "GET" \in Words /\ "/" \in Words /\ "default" \in Words
    BY DEF Words
  <2> QED
    BY <2>1, <2>2
<1> HIDE DEF a, method, path, headers, reply
<1>3. a \in HttpHeaders
  BY <1>1, <1>2 DEF HttpHeaders
<1>4. a.method = method /\ a.path = path /\ a.headers = headers
  BY <1>1 DEF HttpHeaders
<1>5. a # None
  BY <1>3, NoneIsNoValue
<1> QED
  BY <1>3, <1>4, <1>5 DEF a, method, path, headers

LEMMA BuiltIsTyped ==
  ASSUME NEW c, Typed(c), OfKind(c)
  PROVE  LET b == ConfUrl!Built(c) IN Typed(b) /\ OfKind(b) /\ Complete(b)
<1> DEFINE b == ConfUrl!Built(c)
<1>1. /\ DOMAIN b = ConfFields
      /\ b.network = IF c.protocol = "direct" /\ c.network = "" THEN "dual" ELSE c.network
      /\ b.http = IF c.http = None THEN None ELSE ConfUrl!AssignDefaultValue(c.http)
      /\ \A f \in ConfFields \ {"network", "http"} : b[f] = c[f]
  <2>1. DOMAIN c = ConfFields
    BY DEF Typed
  <2> QED
    BY <2>1, BuiltIs
<1> HIDE DEF b
<1>2. /\ b.protocol = c.protocol /\ b.suffixed = c.suffixed /\ b.tls = c.tls /\ b.ip = c.ip
      /\ b.host = c.host /\ b.fullcone = c.fullcone /\ b.tag = c.tag /\ b.path = c.path
      /\ b.adv = c.adv /\ b.security = c.security /\ b.alpn = c.alpn
      /\ b.insecure = c.insecure /\ b.tlsType = c.tlsType /\ b.cert = c.cert /\ b.mux = c.mux
      /\ b.target = c.target /\ b.targetNetwork = c.targetNetwork
  BY <1>1 DEF ConfFields
<1>3. b.network \in Words /\ (b.protocol = "direct" => b.network # "")
  <2>1. c.network \in Words
    BY DEF Typed
  <2> QED
    BY <1>1, <1>2, <2>1 DEF Words
<1>4. /\ b.http \in HttpHeaders \cup {None}
      /\ b.http # None => b.http.method # "" /\ b.http.path # None
  <2>1. CASE c.http = None
    BY <1>1, <2>1
  <2>2. CASE c.http # None
    <3>1. c.http \in HttpHeaders
      BY <2>2 DEF Typed
    <3>2. b.http = ConfUrl!AssignDefaultValue(c.http)
      BY <1>1, <2>2
    <3>3. "/" # None
      BY NoneIsNoValue DEF Words
    <3> QED
      BY <3>1, <3>2, <3>3, DefaultsAre, ZenonT(40)
  <2> QED
    BY <2>1, <2>2
<1>5. Typed(b)
  BY <1>1, <1>2, <1>3, <1>4 DEF Typed
<1>6. OfKind(b)
  BY <1>2 DEF OfKind
<1>7. Complete(b)
  BY <1>3, <1>4 DEF Complete
<1> QED
  BY <1>5, <1>6, <1>7 DEF b

(* What a conf makes, field by field.                                      *)
LEMMA JointIs ==
  ASSUME NEW f, NEW g
  PROVE  /\ DOMAIN ConfUrl!Joint(f, g) = DOMAIN f \cup DOMAIN g
         /\ \A x \in DOMAIN f : ConfUrl!Joint(f, g)[x] = f[x]
         /\ \A x \in DOMAIN g \ DOMAIN f : ConfUrl!Joint(f, g)[x] = g[x]
BY DEF ConfUrl!Joint

LEMMA BaseIs ==
  ASSUME NEW c
  PROVE  LET b == ConfUrl!Base(c)
         IN /\ DOMAIN b
                 = {"addr", "network", "tag", "fullcone", "adv", "header", "method",
                    "requestPath", "headers", "response", "noRoute", "fallback", "rest",
                    "advPath", "advHost", "advTls", "advCert", "tls", "sni", "insecure",
                    "tlsType", "cert", "alpn", "tlsExtra", "security", "mux", "version",
                    "target", "targetNetwork", "localAddr"}
            /\ \A f \in {"addr", "network", "tag", "fullcone", "adv", "header", "method",
                         "requestPath", "headers"} : b[f] = ConfUrl!Common(c)[f]
            /\ \A f \in {"advPath", "advHost", "advTls", "advCert"} :
                 b[f] = ConfUrl!AdvLayer(c)[f]
            /\ \A f \in {"tls", "sni", "insecure", "tlsType", "cert", "alpn"} :
                 b[f] = ConfUrl!PrepareTLS(c)[f]
            /\ \A f \in {"security", "mux", "target", "targetNetwork"} :
                 b[f] = ConfUrl!Creator(c)[f]
<1> DEFINE p == ConfUrl!Common(c)
           a == ConfUrl!AdvLayer(c)
           t == ConfUrl!PrepareTLS(c)
           r == ConfUrl!Creator(c)
           l == [localAddr |-> ConfUrl!SendThrough(c)]
           rl == ConfUrl!Joint(r, l)
           trl == ConfUrl!Joint(t, rl)
           pa == ConfUrl!Joint(p, a)
<1>1. DOMAIN p = {"addr", "network", "tag", "fullcone", "adv", "header", "method",
                  "requestPath", "headers", "response", "noRoute", "fallback", "rest"}
  BY DEF ConfUrl!Common
<1>2. DOMAIN a = {"advPath", "advHost", "advTls", "advCert"}
  BY DEF ConfUrl!AdvLayer
<1>3. DOMAIN t = {"tls", "sni", "insecure", "tlsType", "cert", "alpn", "tlsExtra"}
  BY DEF ConfUrl!PrepareTLS
<1>4. DOMAIN r = {"security", "mux", "version", "target", "targetNetwork"}
  BY DEF ConfUrl!Creator
<1>5. DOMAIN l = {"localAddr"}
  OBVIOUS
<1> HIDE DEF p, a, t, r, l
<1>6. /\ DOMAIN rl = DOMAIN r \cup {"localAddr"}
      /\ \A f \in DOMAIN r : rl[f] = r[f]
  BY <1>5, JointIs
<1>7. /\ DOMAIN trl = DOMAIN t \cup DOMAIN rl
      /\ \A f \in DOMAIN t : trl[f] = t[f]
      /\ \A f \in DOMAIN rl \ DOMAIN t : trl[f] = rl[f]
  BY JointIs
<1>8. /\ DOMAIN pa = DOMAIN p \cup DOMAIN a
      /\ \A f \in DOMAIN p : pa[f] = p[f]
      /\ \A f \in DOMAIN a \ DOMAIN p : pa[f] = a[f]
  BY JointIs
<1>9. ConfUrl!Base(c) = ConfUrl!Joint(pa, trl)
  BY DEF ConfUrl!Base, p, a, t, r, l
<1> HIDE DEF rl, trl, pa
<1> DEFINE b == ConfUrl!Base(c)
           all == ConfUrl!Joint(pa, trl)
<1>10. /\ DOMAIN all = DOMAIN pa \cup DOMAIN trl
       /\ \A f \in DOMAIN pa : all[f] = pa[f]
       /\ \A f \in DOMAIN trl \ DOMAIN pa : all[f] = trl[f]
  BY JointIs
<1>11. b = all
  BY <1>9
<1> HIDE DEF b, all
<1>12. /\ DOMAIN b = DOMAIN p \cup DOMAIN a \cup DOMAIN t \cup DOMAIN r \cup {"localAddr"}
       /\ \A f \in DOMAIN p : b[f] = p[f]
       /\ \A f \in DOMAIN a \ DOMAIN p : b[f] = a[f]
       /\ \A f \in DOMAIN t \ (DOMAIN p \cup DOMAIN a) : b[f] = t[f]
       /\ \A f \in DOMAIN r \ (DOMAIN p \cup DOMAIN a \cup DOMAIN t) : b[f] = r[f]
  BY <1>6, <1>7, <1>8, <1>10, <1>11
<1>13. \A f \in {"addr", "network", "tag", "fullcone", "adv", "header", "method",
                 "requestPath", "headers"} : b[f] = p[f]
  BY <1>1, <1>12
<1>14. \A f \in {"advPath", "advHost", "advTls", "advCert"} : b[f] = a[f]
  BY <1>1, <1>2, <1>12
<1>15. \A f \in {"tls", "sni", "insecure", "tlsType", "cert", "alpn"} : b[f] = t[f]
  BY <1>1, <1>2, <1>3, <1>12
<1>16. \A f \in {"security", "mux", "target", "targetNetwork"} : b[f] = r[f]
  BY <1>1, <1>2, <1>3, <1>4, <1>12
<1>17. DOMAIN b
         = {"addr", "network", "tag", "fullcone", "adv", "header", "method",
            "requestPath", "headers", "response", "noRoute", "fallback", "rest",
            "advPath", "advHost", "advTls", "advCert", "tls", "sni", "insecure",
            "tlsType", "cert", "alpn", "tlsExtra", "security", "mux", "version",
            "target", "targetNetwork", "localAddr"}
  BY <1>1, <1>2, <1>3, <1>4, <1>12
<1> QED
  BY <1>13, <1>14, <1>15, <1>16, <1>17 DEF b, p, a, t, r

(* What a url is read as.                                                  *)
LEMMA CommonConfIs ==
  ASSUME NEW u
  PROVE  LET k == ConfUrl!URLToCommonConf(u)
             host == IF u.protocol = "direct" THEN "" ELSE u.host
         IN /\ DOMAIN k = ConfFields
            /\ k.protocol = u.protocol /\ k.suffixed = FALSE /\ k.tls = (u.suffixes = 1)
            /\ k.ip = IF host = "1.1.1.1" THEN host ELSE ""
            /\ k.host = IF host = "1.1.1.1" THEN "" ELSE host
            /\ k.network = u.network /\ k.fullcone = u.fullcone /\ k.tag = u.fragment
            /\ k.path = u.path /\ k.adv = u.adv /\ k.security = u.security /\ k.alpn = {}
            /\ k.http = None /\ k.insecure = FALSE /\ k.tlsType = "" /\ k.cert = ""
            /\ k.mux = FALSE /\ k.target = "" /\ k.targetNetwork = ""
BY DEF ConfUrl!URLToCommonConf, ConfUrl!OkTls, ConfUrl!IsIP, ConfFields

(* What is made of the url of a conf, for a dial and for a listen.         *)
LEMMA CopyIs ==
  ASSUME NEW d, Typed(d), OfKind(d), Complete(d), ConfUrl!Sharable(d)
  PROVE  LET u == ConfUrl!ToStandardUrl(d)
             k == ConfUrl!HotLoadUrl(u)
             host == IF d.protocol = "direct" THEN "" ELSE ConfUrl!UrlHost(d)
         IN /\ DOMAIN k = ConfFields
            /\ k.protocol = d.protocol /\ k.suffixed = FALSE
            /\ k.tls = (d.tls \/ d.suffixed)
            /\ k.ip = IF host = "1.1.1.1" THEN host ELSE ""
            /\ k.host = IF host = "1.1.1.1" THEN "" ELSE host
            /\ k.fullcone = d.fullcone /\ k.tag = d.tag
            /\ k.path = ConfUrl!Slashed(d.path) /\ k.adv = d.adv /\ k.security = d.security
            /\ k.alpn = {} /\ k.mux = d.mux /\ k.target = d.target
            /\ k.network = IF d.target # "" /\ d.network = "" THEN "tcp" ELSE d.network
            /\ k.targetNetwork = IF d.target = "" THEN "" ELSE k.network
            /\ d.tls => kind = "dial" /\ k.insecure = d.insecure /\ k.tlsType = d.tlsType
            /\ d.http = None => k.http = None
            /\ d.http # None => k.http \in HttpHeaders
            /\ d.http # None /\ kind = "dial" =>
                 /\ k.http.method = d.http.method
                 /\ k.http.path = ConfUrl!Slashed(d.path)
                 /\ k.http.headers = ConfUrl!Joined(d.http.headers)
<1> DEFINE u == ConfUrl!ToStandardUrl(d)
           k == ConfUrl!HotLoadUrl(u)
           s == ConfUrl!URLToCommonConf(u)
           host == IF d.protocol = "direct" THEN "" ELSE ConfUrl!UrlHost(d)
<1>1. /\ u.protocol = d.protocol
      /\ u.suffixes = (IF d.tls THEN 1 ELSE 0) + (IF d.suffixed THEN 1 ELSE 0)
      /\ u.host = ConfUrl!UrlHost(d) /\ u.path = ConfUrl!Slashed(d.path) /\ u.fragment = d.tag
      /\ u.network = d.network /\ u.fullcone = d.fullcone
      /\ u.target = IF kind = "listen" THEN d.target ELSE ""
      /\ u.adv = d.adv /\ u.security = d.security
  BY DEF ConfUrl!ToStandardUrl
<1>2. /\ u.mux = (kind = "dial" /\ d.mux) /\ u.insecure = (d.tls /\ d.insecure)
      /\ u.tls_type = IF d.tls THEN d.tlsType ELSE ""
      /\ u.cert = IF d.tls THEN d.cert ELSE ""
      /\ u.http = (d.http # None)
      /\ u.http_method = IF d.http = None THEN "" ELSE d.http.method
      /\ u.header = IF d.http = None THEN None ELSE ConfUrl!Joined(d.http.headers)
  BY DEF ConfUrl!ToStandardUrl
<1>3. /\ d.tls \in BOOLEAN /\ d.suffixed \in BOOLEAN /\ d.insecure \in BOOLEAN
      /\ d.mux \in BOOLEAN /\ d.path \in Words /\ d.http \in HttpHeaders \cup {None}
      /\ d.network \in Words
  BY DEF Typed
<1>4. ~(d.tls /\ d.suffixed) /\ ~(kind = "listen" /\ d.tls)
  BY DEF ConfUrl!Sharable
<1>5. /\ kind \in {"dial", "listen"} /\ (kind = "dial" => d.target = "")
      /\ (kind = "listen" => d.mux = FALSE)
  BY DEF OfKind
<1> HIDE DEF u
<1>6. (u.suffixes = 1) = (d.tls \/ d.suffixed)
  <2>1. CASE d.tls
    <3>1. u.suffixes = 1 + 0
      BY <1>1, <1>4, <2>1
    <3> QED
      BY <2>1, <3>1
  <2>2. CASE ~d.tls /\ d.suffixed
    <3>1. u.suffixes = 0 + 1
      BY <1>1, <2>2
    <3> QED
      BY <2>2, <3>1
  <2>3. CASE ~d.tls /\ ~d.suffixed
    <3>1. u.suffixes = 0 + 0
      BY <1>1, <2>3
    <3> QED
      BY <2>3, <3>1
  <2> QED
    BY <2>1, <2>2, <2>3
<1>7. /\ DOMAIN s = ConfFields
      /\ s.protocol = u.protocol /\ s.suffixed = FALSE /\ s.tls = (u.suffixes = 1)
      /\ s.ip = IF host = "1.1.1.1" THEN host ELSE ""
      /\ s.host = IF host = "1.1.1.1" THEN "" ELSE host
      /\ s.network = u.network /\ s.fullcone = u.fullcone /\ s.tag = u.fragment
      /\ s.path = u.path /\ s.adv = u.adv /\ s.security = u.security /\ s.alpn = {}
      /\ s.http = None /\ s.insecure = FALSE /\ s.tlsType = "" /\ s.cert = ""
      /\ s.mux = FALSE /\ s.target = "" /\ s.targetNetwork = ""
  BY <1>1, CommonConfIs, ZenonT(40)
<1> HIDE DEF s, host
<1>8. /\ {"http", "insecure", "tlsType", "mux", "cert", "network", "target", "targetNetwork"}
           \subseteq ConfFields
      /\ {"protocol", "suffixed", "tls", "ip", "host", "fullcone", "tag", "path", "adv",
          "security", "alpn"} \subseteq ConfFields
  BY DEF ConfFields
<1>9. ConfUrl!Slashed(d.path) \in Words
  BY <1>3 DEF ConfUrl!Slashed, Words
<1>10. ConfUrl!Joined(d.http.headers) \in Words
  BY DEF ConfUrl!Joined, Words
<1> DEFINE sent == [method |-> u.http_method, path |-> u.path, headers |-> u.header,
                    response |-> None]
           answered == [method |-> "", path |-> None, headers |-> None,
                        response |-> u.header]
<1>11. d.http # None => sent \in HttpHeaders /\ answered \in HttpHeaders
  <2>1. SUFFICES ASSUME d.http # None PROVE sent \in HttpHeaders /\ answered \in HttpHeaders
    OBVIOUS
  <2>2. d.http.method \in Words
    BY <1>3, <2>1 DEF HttpHeaders
  <2>3. /\ u.http_method \in Words /\ u.path \in Words /\ u.header \in Words
    BY <1>1, <1>2, <1>9, <1>10, <2>1, <2>2
  <2>4. "" \in Words
    BY DEF Words
  <2> QED
    BY <2>3, <2>4 DEF HttpHeaders
<1>12. CASE kind = "dial"
  <2>1. k = [s EXCEPT !.http = IF u.http THEN sent ELSE None,
                      !.insecure = (u.suffixes = 1) /\ u.insecure,
                      !.tlsType = IF u.suffixes = 1 THEN u.tls_type ELSE "",
                      !.mux = u.mux]
    BY <1>12 DEF ConfUrl!HotLoadUrl, ConfUrl!URLToDialConf, ConfUrl!OkTls, s
  <2> HIDE DEF k, sent
  <2>2. /\ DOMAIN k = ConfFields
        /\ k.http = IF u.http THEN sent ELSE None
        /\ k.insecure = ((u.suffixes = 1) /\ u.insecure)
        /\ k.tlsType = IF u.suffixes = 1 THEN u.tls_type ELSE ""
        /\ k.mux = u.mux
        /\ \A f \in ConfFields \ {"http", "insecure", "tlsType", "mux"} : k[f] = s[f]
    BY <1>7, <1>8, <2>1
  <2>3. /\ k.protocol = s.protocol /\ k.suffixed = s.suffixed /\ k.tls = s.tls
        /\ k.ip = s.ip /\ k.host = s.host /\ k.fullcone = s.fullcone /\ k.tag = s.tag
        /\ k.path = s.path /\ k.adv = s.adv /\ k.security = s.security /\ k.alpn = s.alpn
        /\ k.network = s.network /\ k.target = s.target /\ k.targetNetwork = s.targetNetwork
    BY <1>8, <2>2
  <2>4. k.mux = d.mux
    BY <1>2, <1>3, <1>12, <2>2
  <2>5. d.tls => k.insecure = d.insecure /\ k.tlsType = d.tlsType
    BY <1>2, <1>3, <1>6, <2>2
  <2>6. d.target = ""
    BY <1>5, <1>12
  <2>7. /\ d.http = None => k.http = None
        /\ d.http # None => k.http = sent
    BY <1>2, <2>2
  <2>8. d.http # None =>
          /\ sent.method = d.http.method /\ sent.path = ConfUrl!Slashed(d.path)
          /\ sent.headers = ConfUrl!Joined(d.http.headers)
    BY <1>1, <1>2 DEF sent
  <2> QED
    BY <1>1, <1>6, <1>7, <1>11, <1>12, <2>2, <2>3, <2>4, <2>5, <2>6, <2>7, <2>8 DEF k, host, u
<1>13. CASE kind = "listen"
  <2> DEFINE network == IF u.target # "" /\ u.network = "" THEN "tcp" ELSE u.network
  <2>1. k = [s EXCEPT !.http = IF u.http THEN answered ELSE None,
                      !.insecure = (u.suffixes = 1) /\ u.insecure,
                      !.cert = IF u.suffixes = 1 THEN u.cert ELSE "",
                      !.network = network,
                      !.target = u.target,
                      !.targetNetwork = IF u.target = "" THEN "" ELSE network]
    BY <1>13 DEF ConfUrl!HotLoadUrl, ConfUrl!URLToListenConf, ConfUrl!OkTls, s
  <2> HIDE DEF k, answered, network
  <2>2. /\ DOMAIN k = ConfFields
        /\ k.http = IF u.http THEN answered ELSE None
        /\ k.network = network /\ k.target = u.target
        /\ k.targetNetwork = IF u.target = "" THEN "" ELSE network
        /\ \A f \in ConfFields \ {"http", "insecure", "cert", "network", "target",
                                  "targetNetwork"} : k[f] = s[f]
    BY <1>7, <1>8, <2>1
  <2>3. /\ k.protocol = s.protocol /\ k.suffixed = s.suffixed /\ k.tls = s.tls
        /\ k.ip = s.ip /\ k.host = s.host /\ k.fullcone = s.fullcone /\ k.tag = s.tag
        /\ k.path = s.path /\ k.adv = s.adv /\ k.security = s.security /\ k.alpn = s.alpn
        /\ k.mux = s.mux
    BY <1>8, <2>2
  <2>4. k.mux = d.mux /\ d.tls = FALSE /\ kind # "dial"
    BY <1>3, <1>4, <1>5, <1>7, <1>13, <2>3
  <2>5. /\ k.target = d.target
        /\ k.network = IF d.target # "" /\ d.network = "" THEN "tcp" ELSE d.network
        /\ k.targetNetwork = IF d.target = "" THEN "" ELSE k.network
    BY <1>1, <1>13, <2>2 DEF network
  <2>6. /\ d.http = None => k.http = None
        /\ d.http # None => k.http = answered
    BY <1>2, <2>2
  <2> QED
    BY <1>1, <1>6, <1>7, <1>11, <2>2, <2>3, <2>4, <2>5, <2>6 DEF k, host, u
<1> QED
  BY <1>5, <1>12, <1>13

(* What a conf that is complete and the one read from its url make of each *)
(* field, unless the url does not keep it.                                 *)
LEMMA UrlIsKept ==
  ASSUME UrlInv
  PROVE  ConfUrl!UrlKept
<1> DEFINE d == ConfUrl!Built(conf)
           k == ConfUrl!HotLoadUrl(ConfUrl!ToStandardUrl(d))
           e == ConfUrl!Built(k)
           Kept(f) == f \notin ConfUrl!NeverKept \cup ConfUrl!NotKept(d)
           Same(f) == ConfUrl!Base(e)[f] = ConfUrl!Base(d)[f]
<1> SUFFICES ASSUME ConfUrl!Sharable(d), NEW f \in DOMAIN ConfUrl!Base(d), Kept(f)
             PROVE  Same(f)
  BY DEF ConfUrl!UrlKept, ConfUrl!DetailUrl
<1>1. Typed(d) /\ OfKind(d) /\ Complete(d)
  BY BuiltIsTyped DEF UrlInv
<1> DEFINE host == IF d.protocol = "direct" THEN "" ELSE ConfUrl!UrlHost(d)
<1>2. /\ DOMAIN k = ConfFields
      /\ k.protocol = d.protocol /\ k.suffixed = FALSE
      /\ k.tls = (d.tls \/ d.suffixed)
      /\ k.ip = IF host = "1.1.1.1" THEN host ELSE ""
      /\ k.host = IF host = "1.1.1.1" THEN "" ELSE host
      /\ k.fullcone = d.fullcone /\ k.tag = d.tag
      /\ k.path = ConfUrl!Slashed(d.path) /\ k.adv = d.adv /\ k.security = d.security
      /\ k.alpn = {} /\ k.mux = d.mux /\ k.target = d.target
      /\ k.network = IF d.target # "" /\ d.network = "" THEN "tcp" ELSE d.network
      /\ k.targetNetwork = IF d.target = "" THEN "" ELSE k.network
      /\ d.tls => kind = "dial" /\ k.insecure = d.insecure /\ k.tlsType = d.tlsType
      /\ d.http = None => k.http = None
      /\ d.http # None => k.http \in HttpHeaders
      /\ d.http # None /\ kind = "dial" =>
           /\ k.http.method = d.http.method
           /\ k.http.path = ConfUrl!Slashed(d.path)
           /\ k.http.headers = ConfUrl!Joined(d.http.headers)
  BY <1>1, CopyIs
<1>3. /\ e.network = IF k.protocol = "direct" /\ k.network = "" THEN "dual" ELSE k.network
      /\ e.http = IF k.http = None THEN None ELSE ConfUrl!AssignDefaultValue(k.http)
      /\ \A x \in ConfFields \ {"network", "http"} : e[x] = k[x]
  BY <1>2, BuiltIs
<1>4. /\ e.protocol = k.protocol /\ e.suffixed = k.suffixed /\ e.tls = k.tls /\ e.ip = k.ip
      /\ e.host = k.host /\ e.fullcone = k.fullcone /\ e.tag = k.tag /\ e.path = k.path
      /\ e.adv = k.adv /\ e.security = k.security /\ e.alpn = k.alpn
      /\ e.insecure = k.insecure /\ e.tlsType = k.tlsType /\ e.mux = k.mux
      /\ e.target = k.target /\ e.targetNetwork = k.targetNetwork
  BY <1>3 DEF ConfFields
<1> HIDE DEF d, k, e
<1>5. /\ d.tls \in BOOLEAN /\ d.suffixed \in BOOLEAN /\ d.insecure \in BOOLEAN
      /\ d.ip \in {"", "1.1.1.1"} /\ d.host \in Words \ {"1.1.1.1"}
      /\ d.http \in HttpHeaders \cup {None} /\ d.path \in Words /\ d.network \in Words
      /\ d.target = "" <=> d.targetNetwork = ""
  BY <1>1 DEF Typed
<1>6. /\ d.network # "unix" /\ ~(kind = "listen" /\ d.tls) /\ ~(d.tls /\ d.suffixed)
  BY DEF ConfUrl!Sharable
<1>7. e.network = k.network /\ k.network # "unix"
  <2>1. d.protocol = "direct" => d.network # ""
    BY <1>1 DEF Complete
  <2> QED
    BY <1>2, <1>3, <1>6, <2>1
<1>8. /\ e.http = None <=> d.http = None
      /\ d.http # None =>
           /\ e.http.method = IF k.http.method = "" THEN "GET" ELSE k.http.method
           /\ e.http.path = IF k.http.path = None THEN "/" ELSE k.http.path
           /\ e.http.headers = IF k.http.headers = None THEN "default" ELSE k.http.headers
  <2>1. CASE d.http = None
    BY <1>2, <1>3, <2>1
  <2>2. CASE d.http # None
    <3>1. k.http \in HttpHeaders /\ k.http # None
      BY <1>2, <2>2, NoneIsNoValue
    <3>2. e.http = ConfUrl!AssignDefaultValue(k.http)
      BY <1>3, <3>1
    <3> QED
      BY <2>2, <3>1, <3>2, DefaultsAre
  <2> QED
    BY <2>1, <2>2
<1>9. /\ f \in {"addr", "network", "tag", "fullcone", "adv", "header", "method",
                "requestPath", "headers"}
           => (ConfUrl!Common(e)[f] = ConfUrl!Common(d)[f] => Same(f))
      /\ f \in {"advPath", "advHost", "advTls", "advCert"}
           => (ConfUrl!AdvLayer(e)[f] = ConfUrl!AdvLayer(d)[f] => Same(f))
      /\ f \in {"tls", "sni", "insecure", "tlsType", "cert", "alpn"}
           => (ConfUrl!PrepareTLS(e)[f] = ConfUrl!PrepareTLS(d)[f] => Same(f))
      /\ f \in {"security", "mux", "target", "targetNetwork"}
           => (ConfUrl!Creator(e)[f] = ConfUrl!Creator(d)[f] => Same(f))
  BY BaseIs
(* The address, and the host beside it.                                    *)
<1> DEFINE Addr(c) == IF c.protocol = "direct" THEN ""
                      ELSE ConfUrl!GetAddrStrForListenOrDial(c)
<1>10. Addr(e) = Addr(d)
  <2>1. CASE d.protocol = "direct"
    BY <1>2, <1>4, <2>1
  <2>2. CASE d.protocol # "direct"
    <3>1. host = IF d.ip # "" THEN d.ip ELSE d.host
      BY <2>2 DEF ConfUrl!UrlHost
    <3>2. Addr(d) = host /\ Addr(e) = IF e.ip # "" THEN e.ip ELSE e.host
      BY <1>2, <1>4, <1>6, <1>7, <2>2, <3>1 DEF ConfUrl!GetAddrStrForListenOrDial
    <3> HIDE DEF host, Addr
    <3> QED
      BY <1>2, <1>4, <3>2
  <2> QED
    BY <2>1, <2>2
<1>11. d.protocol # "direct" /\ ~(d.ip # "" /\ d.host # "") => e.host = d.host
  <2>1. CASE d.ip = ""
    BY <1>2, <1>4, <1>5, <2>1 DEF ConfUrl!UrlHost
  <2>2. CASE d.ip = "1.1.1.1" /\ d.host = ""
    BY <1>2, <1>4, <2>2 DEF ConfUrl!UrlHost
  <2> QED
    BY <1>5, <2>1, <2>2
<1> HIDE DEF host
<1>12. Kept(f) <=> /\ f \notin ConfUrl!NeverKept
                   /\ f \in {"sni", "advHost"} => ~(d.ip # "" /\ d.host # "")
                   /\ f \in {"insecure", "tlsType", "cert"} => d.tls
                   /\ f \in {"cert", "advCert"} => kind # "dial"
                   /\ f \in {"advTls", "advCert"} => d.tls
                   /\ f = "alpn" => d.alpn = {}
                   /\ f \in {"sni", "advHost"} => d.protocol # "direct"
                   /\ f \in {"network", "targetNetwork"} =>
                        ~(d.target # "" /\ d.targetNetwork # d.network)
                   /\ f = "advPath" => d.path = ConfUrl!Slashed(d.path)
                   /\ f \in {"method", "requestPath", "headers"} => kind # "listen"
                   /\ f = "requestPath" =>
                        ~(d.http # None /\ d.http.path # ConfUrl!Slashed(d.path))
                   /\ f = "headers" => ~(d.http # None /\ d.http.headers # "one")
  BY ZenonT(60) DEF ConfUrl!NotKept
<1> HIDE DEF Kept, Same
(* Field by field.                                                         *)
<1>13. CASE f \in {"addr", "tag", "fullcone", "adv"}
  <2>1. \A c : ConfUrl!Common(c).addr = Addr(c)
    BY DEF ConfUrl!Common
  <2>2. \A c : /\ ConfUrl!Common(c).tag = c.tag /\ ConfUrl!Common(c).fullcone = c.fullcone
               /\ ConfUrl!Common(c).adv = c.adv
    BY DEF ConfUrl!Common
  <2> HIDE DEF Addr
  <2> QED
    <3>1. e.tag = d.tag /\ e.fullcone = d.fullcone /\ e.adv = d.adv
      BY <1>2, <1>4
    <3>2. ConfUrl!Common(e)[f] = ConfUrl!Common(d)[f]
      BY <1>10, <1>13, <2>1, <2>2, <3>1
    <3> QED
      BY <1>9, <1>13, <3>2
<1>14. CASE f = "network"
  <2>1. d.target = "" \/ d.targetNetwork = d.network
    BY <1>12, <1>14
  <2>2. e.network = d.network
    BY <1>2, <1>5, <1>7, <2>1
  <2>3. \A c : ConfUrl!Common(c).network = IF c.adv = "quic" THEN "udp" ELSE c.network
    BY DEF ConfUrl!Common, ConfUrl!Network
  <2> QED
    <3>1. e.adv = d.adv
      BY <1>2, <1>4
    <3>2. ConfUrl!Common(e)[f] = ConfUrl!Common(d)[f]
      BY <1>14, <2>2, <2>3, <3>1
    <3> QED
      BY <1>9, <1>14, <3>2
<1>15. CASE f = "header"
  <2>1. \A c : ConfUrl!Common(c).header = (c.http # None)
    BY DEF ConfUrl!Common
  <2> QED
    BY <1>8, <1>9, <1>15, <2>1
<1>16. CASE f \in {"method", "requestPath", "headers"}
  <2>1. kind = "dial"
    BY <1>1, <1>12, <1>16 DEF OfKind
  <2>2. \A c : /\ ConfUrl!Common(c).method = IF c.http = None THEN None ELSE c.http.method
               /\ ConfUrl!Common(c).requestPath = IF c.http = None THEN None ELSE c.http.path
               /\ ConfUrl!Common(c).headers = IF c.http = None THEN None ELSE c.http.headers
    BY DEF ConfUrl!Common
  <2>3. CASE d.http = None
    BY <1>8, <1>9, <1>16, <2>2, <2>3
  <2>4. CASE d.http # None
    <3>1. /\ k.http.method = d.http.method /\ k.http.path = ConfUrl!Slashed(d.path)
          /\ k.http.headers = ConfUrl!Joined(d.http.headers)
      BY <1>2, <2>1, <2>4
    <3>2. d.http.method # ""
      BY <1>1, <2>4 DEF Complete
    <3>3. e.http.method = d.http.method
      BY <1>8, <2>4, <3>1, <3>2
    <3>4. f = "requestPath" => e.http.path = d.http.path
      <4>1. d.http.path # None
        BY <1>1, <2>4 DEF Complete
      <4> QED
        BY <1>8, <1>12, <2>4, <3>1, <4>1
    <3>5. f = "headers" => e.http.headers = d.http.headers
      <4>1. "one" # None
        BY NoneIsNoValue DEF Words
      <4>2. ConfUrl!Joined("one") = "one"
        BY DEF ConfUrl!Joined
      <4> QED
        BY <1>8, <1>12, <2>4, <3>1, <4>1, <4>2
    <3>6. e.http # None
      BY <1>8, <2>4
    <3> QED
      BY <1>9, <1>16, <2>2, <2>4, <3>3, <3>4, <3>5, <3>6
  <2> QED
    BY <2>3, <2>4
<1>17. \A c : (c.adv = "" \/ ConfUrl!Common(c).addr = "") <=> (c.adv = "" \/ Addr(c) = "")
  BY DEF ConfUrl!Common
<1>18. e.adv = d.adv
  BY <1>2, <1>4
<1> HIDE DEF Addr
<1>19. CASE f = "advPath"
  <2>1. e.path = d.path
    BY <1>2, <1>4, <1>12, <1>19
  <2>2. \A c : ConfUrl!AdvLayer(c).advPath = IF c.adv = "" \/ Addr(c) = "" THEN None ELSE c.path
    BY <1>17 DEF ConfUrl!AdvLayer
  <2> QED
    BY <1>9, <1>10, <1>18, <1>19, <2>1, <2>2
<1>20. CASE f = "advHost"
  <2>1. e.host = d.host
    BY <1>11, <1>12, <1>20
  <2>2. \A c : ConfUrl!AdvLayer(c).advHost = IF c.adv = "" \/ Addr(c) = "" THEN None ELSE c.host
    BY <1>17 DEF ConfUrl!AdvLayer
  <2> QED
    BY <1>9, <1>10, <1>18, <1>20, <2>1, <2>2
<1>21. CASE f = "advTls"
  <2>1. e.insecure = d.insecure
    BY <1>2, <1>4, <1>12, <1>21
  <2>2. \A c : ConfUrl!AdvLayer(c).advTls
                 = IF c.adv = "" \/ Addr(c) = "" THEN None
                   ELSE IF c.adv = "quic" THEN c.insecure ELSE None
    BY <1>17 DEF ConfUrl!AdvLayer
  <2> QED
    BY <1>9, <1>10, <1>18, <1>21, <2>1, <2>2
<1>22. f # "cert" /\ f # "advCert"
  <2>1. kind \in {"dial", "listen"}
    BY <1>1 DEF OfKind
  <2> QED
    BY <1>6, <1>12, <2>1
<1>23. e.tls = (d.tls \/ d.suffixed) /\ e.suffixed = FALSE
  BY <1>2, <1>4
<1>24. ConfUrl!UsesTls(e) = ConfUrl!UsesTls(d)
  BY <1>5, <1>23 DEF ConfUrl!UsesTls
<1>25. CASE f = "tls"
  <2>1. \A c : ConfUrl!PrepareTLS(c).tls = IF ConfUrl!UsesTls(c) THEN TRUE ELSE FALSE
    BY DEF ConfUrl!PrepareTLS
  <2> QED
    BY <1>9, <1>24, <1>25, <2>1
<1>26. CASE f = "sni"
  <2>1. e.host = d.host
    BY <1>11, <1>12, <1>26
  <2>2. \A c : ConfUrl!PrepareTLS(c).sni = IF ConfUrl!UsesTls(c) THEN c.host ELSE None
    BY DEF ConfUrl!PrepareTLS
  <2> QED
    BY <1>9, <1>24, <1>26, <2>1, <2>2
<1>27. CASE f \in {"insecure", "tlsType"}
  <2>1. e.insecure = d.insecure /\ e.tlsType = d.tlsType
    BY <1>2, <1>4, <1>12, <1>27
  <2>2. \A c : /\ ConfUrl!PrepareTLS(c).insecure
                    = IF ConfUrl!UsesTls(c) THEN c.insecure ELSE None
               /\ ConfUrl!PrepareTLS(c).tlsType = IF ConfUrl!UsesTls(c) THEN c.tlsType ELSE None
    BY DEF ConfUrl!PrepareTLS
  <2> QED
    BY <1>9, <1>24, <1>27, <2>1, <2>2
<1>28. CASE f = "alpn"
  <2>1. e.alpn = {} /\ d.alpn = {}
    BY <1>2, <1>4, <1>12, <1>28
  <2>2. e.path # None /\ d.path # None
    <3>1. ConfUrl!Slashed(d.path) \in Words
      BY <1>5 DEF ConfUrl!Slashed, Words
    <3> QED
      <4>1. e.path \in Words /\ d.path \in Words
        BY <1>2, <1>4, <1>5, <3>1
      <4> QED
        BY <4>1, NoneIsNoValue
  <2>3. \A c : ConfUrl!AdvLayer(c).advPath = IF c.adv = "" \/ Addr(c) = "" THEN None ELSE c.path
    BY <1>17 DEF ConfUrl!AdvLayer
  <2>4. ConfUrl!AdvLayer(e).advPath # None <=> ConfUrl!AdvLayer(d).advPath # None
    BY <1>10, <1>18, <2>2, <2>3
  <2>5. ConfUrl!updateAlpnListByAdvLayer(e) = ConfUrl!updateAlpnListByAdvLayer(d)
    BY <1>18, <2>1, <2>4 DEF ConfUrl!updateAlpnListByAdvLayer
  <2>6. \A c : ConfUrl!PrepareTLS(c).alpn
                 = IF ConfUrl!UsesTls(c) THEN ConfUrl!updateAlpnListByAdvLayer(c) ELSE None
    BY DEF ConfUrl!PrepareTLS
  <2> QED
    BY <1>9, <1>24, <1>28, <2>5, <2>6
<1>29. CASE f \in {"security", "mux", "target"}
  <2>1. \A c : /\ ConfUrl!Creator(c).security = c.security /\ ConfUrl!Creator(c).mux = c.mux
               /\ ConfUrl!Creator(c).target = c.target
    BY DEF ConfUrl!Creator
  <2> QED
    <3>1. e.security = d.security /\ e.mux = d.mux /\ e.target = d.target
      BY <1>2, <1>4
    <3>2. ConfUrl!Creator(e)[f] = ConfUrl!Creator(d)[f]
      BY <1>29, <2>1, <3>1
    <3> QED
      BY <1>9, <1>29, <3>2
<1>30. CASE f = "targetNetwork"
  <2>1. d.target = "" \/ d.targetNetwork = d.network
    BY <1>12, <1>30
  <2>2. e.targetNetwork = d.targetNetwork
    BY <1>2, <1>4, <1>5, <2>1
  <2>3. \A c : ConfUrl!Creator(c).targetNetwork = c.targetNetwork
    BY DEF ConfUrl!Creator
  <2> QED
    BY <1>9, <1>30, <2>2, <2>3
<1>31. f \in {"addr", "tag", "fullcone", "adv", "network", "header", "method", "requestPath",
                 "headers", "advPath", "advHost", "advTls", "tls", "sni", "insecure",
                 "tlsType", "alpn", "security", "mux", "target", "targetNetwork"}
  <2>1. f \notin {"version", "tlsExtra", "rest", "noRoute", "fallback", "localAddr", "response"}
    BY <1>12 DEF ConfUrl!NeverKept
  <2>2. f \in {"addr", "network", "tag", "fullcone", "adv", "header", "method",
               "requestPath", "headers", "response", "noRoute", "fallback", "rest",
               "advPath", "advHost", "advTls", "advCert", "tls", "sni", "insecure",
               "tlsType", "cert", "alpn", "tlsExtra", "security", "mux", "version",
               "target", "targetNetwork", "localAddr"}
    BY BaseIs
  <2> QED
    BY <1>22, <2>1, <2>2
<1> QED
  BY <1>13, <1>14, <1>15, <1>16, <1>19, <1>20, <1>21, <1>25, <1>26, <1>27, <1>28, <1>29,
     <1>30, <1>31

-----------------------------------------------------------------------------
(* The rules, lists of fallbacks and confs of the instance are among them. *)
LEMMA RulesStart ==
  ASSUME \E first \in RuleSet("first", {{}, {"udp"}}), last \in LastRules :
           rules = <<first, last>>,
         target \in Targets
  PROVE  RoutesInv
<1>1. Kinds \subseteq ItemKinds
  BY DEF Kinds, ItemKinds, Routes!IPKinds, Routes!NameKinds
<1>2. /\ "in" \in Named /\ "user" \in Named
      /\ "first" \in Words /\ "other" \in Words /\ "udp" \in Words
      /\ "none" \in Words /\ "in" \in Words /\ "user" \in Words
  BY DEF Named, Words, Routes!Absent
<1>3. ASSUME NEW tag \in Words, NEW r \in RuleSet(tag, {{}, {"udp"}})
      PROVE  r \in RuleConfs
  <2>1. /\ r \in [tag : {tag}, inTags : {{}, {"in"}}, users : {{}, {"user"}},
                  networks : {{}, {"udp"}}, items : SUBSET Kinds]
    BY DEF RuleSet
  <2> QED
    BY <1>1, <1>2, <2>1 DEF RuleConfs
<1>4. \A r \in LastRules : r \in RuleSet("other", {{}, {"udp"}})
  BY DEF LastRules, RuleSet
<1>5. rules \in Seq(RuleConfs)
  <2>1. PICK first \in RuleSet("first", {{}, {"udp"}}), last \in LastRules :
          rules = <<first, last>>
    OBVIOUS
  <2>2. first \in RuleConfs /\ last \in RuleConfs
    BY <1>2, <1>3, <1>4
  <2> QED
    BY <2>1, <2>2
<1>6. target \in TargetDescriptions
  <2>1. PICK has \in {{"ip"}, {"name"}, {"ip", "name"}} :
          target \in [inTag : {"none", "in"}, user : {"none", "user"},
                      network : {"", "tcp", "udp", "other"}, has : {has},
                      hits : SUBSET HitsOf(has)]
    BY DEF Targets
  <2>2. /\ "cidr" \in Routes!IPKinds /\ "cidr" \notin Routes!NameKinds
        /\ {"full", "regexp"} \subseteq Routes!NameKinds
        /\ "full" \notin Routes!IPKinds /\ "regexp" \notin Routes!IPKinds
    BY DEF Routes!IPKinds, Routes!NameKinds
  <2>3. /\ HitsOf(has) \subseteq ItemKinds \ {"unparsable"}
        /\ HitsOf(has) \cap Routes!IPKinds # {} => "ip" \in has
        /\ HitsOf(has) \cap Routes!NameKinds # {} => "name" \in has
    BY <2>2 DEF HitsOf, ItemKinds
  <2>4. target \in [inTag : Words, user : Words, network : {"", "tcp", "udp", "other"},
                    has : SUBSET {"ip", "name"}, hits : SUBSET (ItemKinds \ {"unparsable"})]
    BY <1>2, <2>1, <2>3
  <2>5. target.has = has /\ target.hits \subseteq HitsOf(has)
    BY <2>1
  <2> QED
    BY <2>3, <2>4, <2>5 DEF TargetDescriptions
<1> QED
  BY <1>5, <1>6 DEF RoutesInv

LEMMA FallbackStart ==
  ASSUME \E first, second \in Entries : entries = <<first, second>>,
         request \in FallingBack
  PROVE  FallbackInv
<1>1. /\ "in" \in Given /\ "http/1.1" \in Given /\ "h2" \in Given /\ "other" \in Given
      /\ {"", "/p", "/q", "s", "t", "http/1.1", "h2"} \subseteq Words
  BY DEF Given, Words
<1>2. IsFiniteSet({"http/1.1", "h2"})
  BY PairIsTwo
<1>3. ASSUME NEW e \in Entries
      PROVE  e \in FallbackEntries
  <2>1. \A a \in SUBSET {"http/1.1", "h2"} : IsFiniteSet(a) /\ a \subseteq Given
    BY <1>1, <1>2, FS_Subset
  <2> QED
    BY <1>1, <2>1 DEF Entries, FallbackEntries
<1>4. entries \in Seq(FallbackEntries)
  <2>1. PICK first \in Entries, second \in Entries : entries = <<first, second>>
    OBVIOUS
  <2> QED
    BY <1>3, <2>1
<1>5. request \in FallbackRequests
  BY <1>1 DEF FallingBack, FallbackRequests
<1> QED
  BY <1>4, <1>5 DEF FallbackInv

LEMMA OptionIs ==
  ASSUME NEW o \in Options
  PROVE  \/ /\ o[1] \in {"suffixed", "tls", "fullcone", "insecure", "mux", "noRoute"}
            /\ o[2] = TRUE
         \/ /\ o[1] \in {"tag", "security", "version", "extra", "rest", "tlsType", "cert",
                         "sendThrough", "fallback"}
            /\ o[2] = "given"
         \/ o[1] \in {"network", "targetNetwork"} /\ o[2] = "udp"
         \/ o[1] = "adv" /\ o[2] \in {"ws", "grpc", "quic"}
         \/ o[1] = "path" /\ o[2] \in {"/a", "name"}
         \/ o[1] = "http" /\ o[2] \in Presets
         \/ o[1] = "ip" /\ o[2] = ""
         \/ o[1] = "host" /\ o[2] = "example.com"
         \/ o[1] = "network" /\ o[2] = "unix"
         \/ o[1] = "alpn" /\ o[2] = {"http/1.1"}
         \/ o[1] = "protocol" /\ o[2] = "direct"
         \/ o[1] = "target" /\ o[2] = "1.1.1.1"
<1>1. \/ o \in {"suffixed", "tls", "fullcone", "insecure", "mux", "noRoute"} \X {TRUE}
      \/ o \in {"tag", "security", "version", "extra", "rest", "tlsType", "cert", "sendThrough",
                "fallback"} \X {"given"}
      \/ o \in {"network", "targetNetwork"} \X {"udp"}
      \/ o \in {"adv"} \X {"ws", "grpc", "quic"}
      \/ o \in {"path"} \X {"/a", "name"}
      \/ o \in {"http"} \X Presets
      \/ o = <<"ip", "">> \/ o = <<"host", "example.com">> \/ o = <<"network", "unix">>
      \/ o = <<"alpn", {"http/1.1"}>> \/ o = <<"protocol", "direct">>
      \/ o = <<"target", "1.1.1.1">>
  BY ZenonT(60) DEF Options
<1>2. CASE o \in {"suffixed", "tls", "fullcone", "insecure", "mux", "noRoute"} \X {TRUE}
  BY <1>2
<1>3. CASE o \in {"tag", "security", "version", "extra", "rest", "tlsType", "cert", "sendThrough",
                  "fallback"} \X {"given"}
  BY <1>3
<1>4. CASE o \in {"network", "targetNetwork"} \X {"udp"}
  BY <1>4
<1>5. CASE o \in {"adv"} \X {"ws", "grpc", "quic"}
  BY <1>5
<1>6. CASE o \in {"path"} \X {"/a", "name"}
  BY <1>6
<1>7. CASE o \in {"http"} \X Presets
  BY <1>7
<1>8. CASE o = <<"ip", "">>
  BY <1>8
<1>9. CASE o = <<"host", "example.com">>
  BY <1>9
<1>10. CASE o = <<"network", "unix">>
  BY <1>10
<1>11. CASE o = <<"alpn", {"http/1.1"}>>
  BY <1>11
<1>12. CASE o = <<"protocol", "direct">>
  BY <1>12
<1>13. CASE o = <<"target", "1.1.1.1">>
  BY <1>13
<1> QED
  BY <1>1, <1>2, <1>3, <1>4, <1>5, <1>6, <1>7, <1>8, <1>9, <1>10, <1>11, <1>12, <1>13

(* What an option gives, or its absence.                                   *)
Values ==
  [protocol |-> {"vless", "direct"}, suffixed |-> BOOLEAN, tls |-> BOOLEAN,
   ip |-> {"", "1.1.1.1"}, host |-> {"", "example.com"}, network |-> {"", "udp", "unix"},
   fullcone |-> BOOLEAN, tag |-> {"", "given"}, path |-> {"", "/a", "name"},
   adv |-> {"", "ws", "grpc", "quic"}, security |-> {"", "given"}, alpn |-> {{}, {"http/1.1"}},
   http |-> Presets \cup {None}, insecure |-> BOOLEAN, tlsType |-> {"", "given"},
   cert |-> {"", "given"}, mux |-> BOOLEAN, target |-> {"", "1.1.1.1"},
   targetNetwork |-> {"", "udp"}]

LEMMA ValuesAre ==
  /\ Values["protocol"] = {"vless", "direct"} /\ Values["suffixed"] = BOOLEAN
  /\ Values["tls"] = BOOLEAN /\ Values["ip"] = {"", "1.1.1.1"}
  /\ Values["host"] = {"", "example.com"} /\ Values["network"] = {"", "udp", "unix"}
  /\ Values["fullcone"] = BOOLEAN /\ Values["tag"] = {"", "given"}
  /\ Values["path"] = {"", "/a", "name"} /\ Values["adv"] = {"", "ws", "grpc", "quic"}
  /\ Values["security"] = {"", "given"} /\ Values["alpn"] = {{}, {"http/1.1"}}
  /\ Values["http"] = Presets \cup {None} /\ Values["insecure"] = BOOLEAN
  /\ Values["tlsType"] = {"", "given"} /\ Values["cert"] = {"", "given"}
  /\ Values["mux"] = BOOLEAN /\ Values["target"] = {"", "1.1.1.1"}
  /\ Values["targetNetwork"] = {"", "udp"}
  /\ DOMAIN Values
       = {"protocol", "suffixed", "tls", "ip", "host", "network", "fullcone", "tag", "path",
          "adv", "security", "alpn", "http", "insecure", "tlsType", "cert", "mux", "target",
          "targetNetwork"}
BY DEF Values

LEMMA OptionOf ==
  ASSUME NEW o \in Options, o[1] \in DOMAIN Values
  PROVE  o[2] \in Values[o[1]]
<1>1. o[1] \notin {"version", "extra", "rest", "sendThrough", "noRoute", "fallback"}
  BY ValuesAre
<1>2. \/ o[1] \in {"suffixed", "tls", "fullcone", "insecure", "mux"} /\ o[2] = TRUE
      \/ o[1] \in {"tag", "security", "tlsType", "cert"} /\ o[2] = "given"
      \/ o[1] = "network" /\ o[2] \in {"udp", "unix"}
      \/ o[1] = "targetNetwork" /\ o[2] = "udp"
      \/ o[1] = "adv" /\ o[2] \in {"ws", "grpc", "quic"}
      \/ o[1] = "path" /\ o[2] \in {"/a", "name"}
      \/ o[1] = "http" /\ o[2] \in Presets
      \/ o[1] = "ip" /\ o[2] = ""
      \/ o[1] = "host" /\ o[2] = "example.com"
      \/ o[1] = "alpn" /\ o[2] = {"http/1.1"}
      \/ o[1] = "protocol" /\ o[2] = "direct"
      \/ o[1] = "target" /\ o[2] = "1.1.1.1"
  BY <1>1, OptionIs
<1>3. CASE o[1] \in {"suffixed", "tls", "fullcone", "insecure", "mux"} /\ o[2] = TRUE
  <2>1. Values[o[1]] = BOOLEAN
    BY <1>3, ValuesAre
  <2> QED
    BY <1>3, <2>1
<1>4. CASE o[1] \in {"tag", "security", "tlsType", "cert"} /\ o[2] = "given"
  <2>1. Values[o[1]] = {"", "given"}
    BY <1>4, ValuesAre
  <2> QED
    BY <1>4, <2>1
<1>5. CASE o[1] = "network" /\ o[2] \in {"udp", "unix"}
  <2>1. Values[o[1]] = {"", "udp", "unix"}
    BY <1>5, ValuesAre
  <2> QED
    BY <1>5, <2>1
<1>6. CASE o[1] = "targetNetwork" /\ o[2] = "udp"
  <2>1. Values[o[1]] = {"", "udp"}
    BY <1>6, ValuesAre
  <2> QED
    BY <1>6, <2>1
<1>7. CASE o[1] = "adv" /\ o[2] \in {"ws", "grpc", "quic"}
  <2>1. Values[o[1]] = {"", "ws", "grpc", "quic"}
    BY <1>7, ValuesAre
  <2> QED
    BY <1>7, <2>1
<1>8. CASE o[1] = "path" /\ o[2] \in {"/a", "name"}
  <2>1. Values[o[1]] = {"", "/a", "name"}
    BY <1>8, ValuesAre
  <2> QED
    BY <1>8, <2>1
<1>9. CASE o[1] = "http" /\ o[2] \in Presets
  <2>1. Values[o[1]] = Presets \cup {None}
    BY <1>9, ValuesAre
  <2> QED
    BY <1>9, <2>1
<1>10. CASE o[1] = "ip" /\ o[2] = ""
  <2>1. Values[o[1]] = {"", "1.1.1.1"}
    BY <1>10, ValuesAre
  <2> QED
    BY <1>10, <2>1
<1>11. CASE o[1] = "host" /\ o[2] = "example.com"
  <2>1. Values[o[1]] = {"", "example.com"}
    BY <1>11, ValuesAre
  <2> QED
    BY <1>11, <2>1
<1>12. CASE o[1] = "alpn" /\ o[2] = {"http/1.1"}
  <2>1. Values[o[1]] = {{}, {"http/1.1"}}
    BY <1>12, ValuesAre
  <2> QED
    BY <1>12, <2>1
<1>13. CASE o[1] = "protocol" /\ o[2] = "direct"
  <2>1. Values[o[1]] = {"vless", "direct"}
    BY <1>13, ValuesAre
  <2> QED
    BY <1>13, <2>1
<1>14. CASE o[1] = "target" /\ o[2] = "1.1.1.1"
  <2>1. Values[o[1]] = {"", "1.1.1.1"}
    BY <1>14, ValuesAre
  <2> QED
    BY <1>14, <2>1
<1> QED
  BY <1>2, <1>3, <1>4, <1>5, <1>6, <1>7, <1>8, <1>9, <1>10, <1>11, <1>12, <1>13, <1>14

LEMMA NothingOf ==
  ASSUME NEW f \in DOMAIN Values
  PROVE  Nothing[f] \in Values[f]
<1>1. /\ Nothing["protocol"] = "vless" /\ Nothing["suffixed"] = FALSE /\ Nothing["tls"] = FALSE
      /\ Nothing["ip"] = "1.1.1.1" /\ Nothing["host"] = "" /\ Nothing["network"] = ""
      /\ Nothing["fullcone"] = FALSE /\ Nothing["tag"] = "" /\ Nothing["path"] = ""
      /\ Nothing["adv"] = "" /\ Nothing["security"] = "" /\ Nothing["alpn"] = {}
      /\ Nothing["http"] = None /\ Nothing["insecure"] = FALSE /\ Nothing["tlsType"] = ""
      /\ Nothing["cert"] = "" /\ Nothing["mux"] = FALSE /\ Nothing["target"] = ""
      /\ Nothing["targetNetwork"] = ""
  BY DEF Nothing
<1>2. CASE f = "protocol"
  BY <1>1, <1>2, ValuesAre
<1>3. CASE f = "suffixed"
  BY <1>1, <1>3, ValuesAre
<1>4. CASE f = "tls"
  BY <1>1, <1>4, ValuesAre
<1>5. CASE f = "ip"
  BY <1>1, <1>5, ValuesAre
<1>6. CASE f = "host"
  BY <1>1, <1>6, ValuesAre
<1>7. CASE f = "network"
  BY <1>1, <1>7, ValuesAre
<1>8. CASE f = "fullcone"
  BY <1>1, <1>8, ValuesAre
<1>9. CASE f = "tag"
  BY <1>1, <1>9, ValuesAre
<1>10. CASE f = "path"
  BY <1>1, <1>10, ValuesAre
<1>11. CASE f = "adv"
  BY <1>1, <1>11, ValuesAre
<1>12. CASE f = "security"
  BY <1>1, <1>12, ValuesAre
<1>13. CASE f = "alpn"
  BY <1>1, <1>13, ValuesAre
<1>14. CASE f = "http"
  BY <1>1, <1>14, ValuesAre
<1>15. CASE f = "insecure"
  BY <1>1, <1>15, ValuesAre
<1>16. CASE f = "tlsType"
  BY <1>1, <1>16, ValuesAre
<1>17. CASE f = "cert"
  BY <1>1, <1>17, ValuesAre
<1>18. CASE f = "mux"
  BY <1>1, <1>18, ValuesAre
<1>19. CASE f = "target"
  BY <1>1, <1>19, ValuesAre
<1>20. CASE f = "targetNetwork"
  BY <1>1, <1>20, ValuesAre
<1> QED
  BY <1>2, <1>3, <1>4, <1>5, <1>6, <1>7, <1>8, <1>9, <1>10, <1>11,
     <1>12, <1>13, <1>14, <1>15, <1>16, <1>17, <1>18, <1>19, <1>20, ValuesAre

LEMMA UrlStart ==
  ASSUME kind \in {"dial", "listen"},
         \E o1, o2, o3 \in {o \in Options : o[1] \notin OfOther[kind]} :
           conf = ConfOf({o1, o2, o3})
  PROVE  UrlInv
<1>1. PICK given \in SUBSET {o \in Options : o[1] \notin OfOther[kind]} : conf = ConfOf(given)
  OBVIOUS
<1> DEFINE Value(f) == IF \E o \in given : o[1] = f
                       THEN (CHOOSE o \in given : o[1] = f)[2] ELSE Nothing[f]
           c == [f \in DOMAIN Nothing |-> Value(f)]
<1>2. conf = [c EXCEPT !.targetNetwork =
                IF c.target = "" THEN "" ELSE IF @ = "" THEN "tcp" ELSE @]
  BY <1>1 DEF ConfOf
<1>3. DOMAIN Nothing = ConfFields
  BY DEF Nothing, ConfFields
<1>4. ASSUME NEW f \in ConfFields
      PROVE  \/ c[f] = Nothing[f]
             \/ \E o \in Options : o[1] = f /\ o[1] \notin OfOther[kind] /\ c[f] = o[2]
  <2>1. c[f] = Value(f)
    BY <1>3
  <2>2. CASE \E o \in given : o[1] = f
    <3>1. (CHOOSE o \in given : o[1] = f) \in given /\ (CHOOSE o \in given : o[1] = f)[1] = f
      BY <2>2
    <3> QED
      BY <2>1, <2>2, <3>1
  <2>3. CASE ~\E o \in given : o[1] = f
    BY <2>1, <2>3
  <2> QED
    BY <2>2, <2>3
<1>5. DOMAIN c = ConfFields
  BY <1>3
<1> HIDE DEF c
<1>6. /\ {"given", "udp", "ws", "grpc", "quic", "/a", "name", "", "example.com", "unix", "tcp",
          "http/1.1", "direct", "1.1.1.1", "vless", "POST", "one", "other"} \subseteq Words
      /\ "example.com" # "1.1.1.1" /\ "" # "1.1.1.1" /\ "vless" # "direct"
  BY DEF Words
<1>7. Presets \subseteq HttpHeaders
  BY <1>6 DEF Presets, HttpHeaders
<1>8. \A f \in DOMAIN Values : f \in ConfFields /\ c[f] \in Values[f]
  <2> SUFFICES ASSUME NEW f \in DOMAIN Values
               PROVE  f \in ConfFields /\ c[f] \in Values[f]
    OBVIOUS
  <2>1. f \in ConfFields
    BY ValuesAre DEF ConfFields
  <2>2. c[f] = Nothing[f] \/ \E o \in Options : o[1] = f /\ c[f] = o[2]
    BY <1>4, <2>1
  <2> QED
    BY <2>1, <2>2, OptionOf, NothingOf
<1>9. /\ c.suffixed \in BOOLEAN /\ c.tls \in BOOLEAN /\ c.fullcone \in BOOLEAN
      /\ c.insecure \in BOOLEAN /\ c.mux \in BOOLEAN
      /\ c.tag \in {"", "given"} /\ c.security \in {"", "given"}
      /\ c.tlsType \in {"", "given"} /\ c.cert \in {"", "given"}
  <2>1. /\ c["suffixed"] \in Values["suffixed"] /\ c["tls"] \in Values["tls"]
        /\ c["fullcone"] \in Values["fullcone"] /\ c["insecure"] \in Values["insecure"]
        /\ c["mux"] \in Values["mux"] /\ c["tag"] \in Values["tag"]
        /\ c["security"] \in Values["security"] /\ c["tlsType"] \in Values["tlsType"]
        /\ c["cert"] \in Values["cert"]
    BY <1>8, ValuesAre
  <2> QED
    BY <2>1, ValuesAre
<1>10. /\ c.network \in {"", "udp", "unix"} /\ c.targetNetwork \in {"", "udp"}
       /\ c.adv \in {"", "ws", "grpc", "quic"} /\ c.path \in {"", "/a", "name"}
  <2>1. /\ c["network"] \in Values["network"] /\ c["targetNetwork"] \in Values["targetNetwork"]
        /\ c["adv"] \in Values["adv"] /\ c["path"] \in Values["path"]
    BY <1>8, ValuesAre
  <2> QED
    BY <2>1, ValuesAre
<1>11. /\ c.protocol \in {"vless", "direct"} /\ c.ip \in {"", "1.1.1.1"}
       /\ c.host \in {"", "example.com"} /\ c.alpn \in {{}, {"http/1.1"}}
       /\ c.http \in Presets \cup {None} /\ c.target \in {"", "1.1.1.1"}
  <2>1. /\ c["protocol"] \in Values["protocol"] /\ c["ip"] \in Values["ip"]
        /\ c["host"] \in Values["host"] /\ c["alpn"] \in Values["alpn"]
        /\ c["http"] \in Values["http"] /\ c["target"] \in Values["target"]
    BY <1>8, ValuesAre
  <2> QED
    BY <2>1, ValuesAre
<1>12. kind = "dial" => c.target = ""
  <2>1. OfOther["dial"] = {"noRoute", "fallback", "target", "targetNetwork"}
    BY DEF OfOther
  <2> QED
    BY <1>4, <2>1 DEF Nothing, ConfFields
<1>13. kind = "listen" => c.protocol = "vless" /\ c.mux = FALSE
  <2>1. OfOther["listen"] = {"mux", "sendThrough", "protocol"}
    BY DEF OfOther
  <2> QED
    BY <1>4, <2>1 DEF Nothing, ConfFields
<1>14. /\ DOMAIN conf = ConfFields
       /\ conf.targetNetwork
            = IF c.target = "" THEN ""
              ELSE IF c.targetNetwork = "" THEN "tcp" ELSE c.targetNetwork
       /\ \A f \in ConfFields \ {"targetNetwork"} : conf[f] = c[f]
  BY <1>2, <1>5 DEF ConfFields
<1>15. /\ conf.protocol = c.protocol /\ conf.suffixed = c.suffixed /\ conf.tls = c.tls
       /\ conf.ip = c.ip /\ conf.host = c.host /\ conf.network = c.network
       /\ conf.fullcone = c.fullcone /\ conf.tag = c.tag /\ conf.path = c.path
       /\ conf.adv = c.adv /\ conf.security = c.security /\ conf.alpn = c.alpn
       /\ conf.http = c.http /\ conf.insecure = c.insecure /\ conf.tlsType = c.tlsType
       /\ conf.cert = c.cert /\ conf.mux = c.mux /\ conf.target = c.target
  BY <1>14 DEF ConfFields
<1>16. conf.targetNetwork \in Words /\ (conf.target = "" <=> conf.targetNetwork = "")
  BY <1>6, <1>10, <1>14, <1>15, ZenonT(40)
<1>17. /\ c.host \in Words \ {"1.1.1.1"} /\ c.alpn \in SUBSET Words
       /\ c.http \in HttpHeaders \cup {None}
  BY <1>6, <1>7, <1>11
<1>18. Typed(conf)
  <2>1. /\ conf.suffixed \in BOOLEAN /\ conf.tls \in BOOLEAN /\ conf.fullcone \in BOOLEAN
        /\ conf.insecure \in BOOLEAN /\ conf.mux \in BOOLEAN
    BY <1>9, <1>15
  <2>2. /\ conf.tag \in Words /\ conf.security \in Words /\ conf.tlsType \in Words
        /\ conf.cert \in Words
    <3>1. {"", "given"} \subseteq Words
      BY <1>6
    <3> QED
      BY <1>9, <1>15, <3>1
  <2>3. /\ conf.network \in Words /\ conf.adv \in Words /\ conf.path \in Words
    <3>1. /\ {"", "udp", "unix"} \subseteq Words /\ {"", "ws", "grpc", "quic"} \subseteq Words
          /\ {"", "/a", "name"} \subseteq Words
      BY <1>6
    <3> QED
      BY <1>10, <1>15, <3>1
  <2>5. conf.protocol \in Words /\ conf.target \in Words
    <3>1. {"vless", "direct"} \subseteq Words /\ {"", "1.1.1.1"} \subseteq Words
      BY <1>6
    <3> QED
      BY <1>11, <1>15, <3>1
  <2>4. /\ conf.ip \in {"", "1.1.1.1"} /\ conf.host \in Words \ {"1.1.1.1"}
        /\ conf.alpn \in SUBSET Words /\ conf.http \in HttpHeaders \cup {None}
    BY <1>15, <1>17, <1>11
  <2> QED
    BY <1>14, <1>16, <2>1, <2>2, <2>3, <2>4, <2>5 DEF Typed
<1>19. OfKind(conf)
  BY <1>6, <1>12, <1>13, <1>15 DEF OfKind
<1> QED
  BY <1>18, <1>19 DEF UrlInv

-----------------------------------------------------------------------------
(* The whole: a behaviour is about one part from its start on.             *)
Inv ==
  /\ part = "machine" => MachineInv
  /\ part = "replay" => ReplayInv
  /\ part = "dns" => DnsInv
  /\ part = "grpc" => GrpcInv
  /\ part = "tun" => TunInv
  /\ part = "routes" => RoutesInv
  /\ part = "fallback" => FallbackInv
  /\ part = "url" => UrlInv

LEMMA InvStart ==
  ASSUME Init
  PROVE  Inv
<1>1. CASE part = "machine" /\ Machine!Init
  BY <1>1, MachineStart DEF Inv
<1>2. CASE part = "replay" /\ AntiReplay!Init
  BY <1>2, ReplayStart DEF Inv
<1>3. CASE part = "dns" /\ DnsMachine!Init
  BY <1>3, DnsStart DEF Inv
<1>4. CASE part = "grpc" /\ GrpcClient!Init
  BY <1>4, GrpcStart DEF Inv
<1>5. CASE part = "tun" /\ Tun!Init
  BY <1>5, TunStart DEF Inv
<1>6. CASE /\ part = "routes" /\ target \in Targets
           /\ \E first \in RuleSet("first", {{}, {"udp"}}), last \in LastRules :
                rules = <<first, last>>
  BY <1>6, RulesStart DEF Inv
<1>7. CASE /\ part = "fallback" /\ request \in FallingBack
           /\ \E first, second \in Entries : entries = <<first, second>>
  BY <1>7, FallbackStart DEF Inv
<1>8. CASE /\ part = "url" /\ kind \in {"dial", "listen"}
           /\ \E o1, o2, o3 \in {o \in Options : o[1] \notin OfOther[kind]} :
                conf = ConfOf({o1, o2, o3})
  BY <1>8, UrlStart DEF Inv
<1> QED
  BY <1>1, <1>2, <1>3, <1>4, <1>5, <1>6, <1>7, <1>8 DEF Init

(* No action changes a rule, a list of fallbacks or a conf.                *)
LEMMA RulesStand ==
  ASSUME UNCHANGED <<rules, target, entries, request, kind, conf>>
  PROVE  RoutesInv' = RoutesInv /\ FallbackInv' = FallbackInv /\ UrlInv' = UrlInv
BY DEF RoutesInv, FallbackInv, UrlInv, Typed, OfKind

LEMMA InvStutters ==
  ASSUME Inv, UNCHANGED vars
  PROVE  Inv'
<1>1. UNCHANGED <<part, noDns, noMachine, noReplay, noGrpc, noTun>>
  BY DEF vars
<1>2. MachineInv' = MachineInv
  BY <1>1 DEF noMachine, MachineInv, Closable, Routed
<1>3. ReplayInv' = ReplayInv
  BY <1>1 DEF noReplay, ReplayInv, ReplayTypes, CheckedInTime, Remembered,
              AntiReplay!AcceptedOnce, AntiReplay!InTime
<1>4. DnsInv' = DnsInv
  BY <1>1 DEF noDns, DnsInv, DnsTypes, UsesOwn, Holding, DnsMachine!BackupPromoted,
              DnsMachine!ConnOf
<1>5. GrpcInv' = GrpcInv
  BY <1>1 DEF noGrpc, GrpcInv, GrpcTypes, MadeBefore, ErrorsKnown, Told, Past,
              GrpcClient!FailedNotReused
<1>6. TunInv' = TunInv
  BY <1>1 DEF noTun, TunInv, Untroubled, Intact
<1>7. UNCHANGED noRoutes
  BY DEF vars
<1>8. UNCHANGED <<rules, target, entries, request, kind, conf>>
  BY <1>7 DEF noRoutes
<1> QED
  BY <1>1, <1>2, <1>3, <1>4, <1>5, <1>6, <1>8, RulesStand DEF Inv

LEMMA InvStep ==
  ASSUME Inv, Next
  PROVE  Inv'
<1>1. CASE OfMachine(Machine!Next)
  BY <1>1, MachineStep DEF OfMachine, Inv
<1>2. CASE OfReplay(AntiReplay!Next)
  BY <1>2, ReplayStep DEF OfReplay, Inv
<1>3. CASE OfDns(DnsMachine!Next)
  BY <1>3, DnsStep DEF OfDns, Inv
<1>4. CASE OfGrpc(GrpcClient!Next)
  BY <1>4, GrpcStep DEF OfGrpc, Inv
<1>5. CASE OfTun(Tun!Next)
  BY <1>5, TunStep DEF OfTun, Inv
<1> QED
  BY <1>1, <1>2, <1>3, <1>4, <1>5 DEF Next

LEMMA Invariance == Spec => []Inv
<1>1. Init => Inv
  BY InvStart
<1>2. Inv /\ [Next]_vars => Inv'
  BY InvStep, InvStutters
<1> QED
  BY <1>1, <1>2, PTL DEF Spec

(* A vmess header is accepted by one of the connections that bring it, at  *)
(* least while the server remembers it (anti_replay.go, SessionHistory).   *)
THEOREM HeadersAreTakenOnce == Spec => []AcceptedOnce
<1>1. Inv => AcceptedOnce
  BY DEF Inv, ReplayInv, AcceptedOnce
<1> QED
  BY <1>1, Invariance, PTL

(* Two queries never exchange messages on one dns.Conn at a time (dns.go,  *)
(* DNSQuery), also when one of them puts a new connection in its place.    *)
THEOREM ConnsAreNotShared == Spec => []OneUserPerConn
<1>1. Inv => OneUserPerConn
  BY DnsUsers DEF Inv, OneUserPerConn
<1> QED
  BY <1>1, Invariance, PTL

(* A query that finds the default server lost puts a backup in its place   *)
(* and takes that out of the backups (dns.go, QueryType).                  *)
THEOREM BackupsArePromoted == Spec => []BackupPromoted
<1>1. Inv => BackupPromoted
  BY DEF Inv, DnsInv, BackupPromoted
<1> QED
  BY <1>1, Invariance, PTL

(* A transport over a closed connection, of which a Write has told its     *)
(* user, was taken from the client, so no later request is given it        *)
(* (grpcSimple/client.go, dealErr).  One of which only a Read told is not. *)
THEOREM FailedTransportsGo == Spec => []FailedNotReused
<1>1. Inv => FailedNotReused
  BY DEF Inv, GrpcInv, FailedNotReused
<1> QED
  BY <1>1, Invariance, PTL

(* The tags that routes lead to are those of loaded clients, through any   *)
(* loads, deletions and changes by the gui (load.go, HotDeleteClient).     *)
THEOREM TagsLeadToLoaded == Spec => []RoutesToLoaded
<1>1. Inv => RoutesToLoaded
  BY DEF Inv, MachineInv, Routed, RoutesToLoaded, Machine!RoutesToLoaded
<1> QED
  BY <1>1, Invariance, PTL

(* A machine that is stopped listens for nothing, and a tun server that is *)
(* stopped has given the system back its route and its name server         *)
(* (machine.go, Stop; proxy/tun/tun.go, Stop).                             *)
THEOREM StopLeavesNothing == Spec => []StopCloses
<1>1. Inv => StopCloses
  BY DEF Inv, MachineInv, Closable, TunInv, Untroubled, Intact, StopCloses,
         Machine!StopCloses, Tun!Restored
<1> QED
  BY <1>1, Invariance, PTL

(* Whatever the rules and the target, a target goes where the first rule   *)
(* says that it meets; whatever the fallbacks and the request, a request   *)
(* falls back to the entry that fits it best (route.go, CalcuOutTag;       *)
(* classicFallback.go, GetFallback).                                       *)
THEOREM RoutesAreSound ==
  ASSUME part = "routes" => rules \in Seq(RuleConfs) /\ target \in TargetDescriptions,
         part = "fallback" => entries \in Seq(FallbackEntries) /\ request \in FallbackRequests
  PROVE  RouteSound
BY FirstIsMet, FallbackIsSound DEF RoutesInv, FallbackInv, RouteSound, FirstRuleMet

(* So does that of the specification, which chooses among some of them.    *)
THEOREM RoutesOfSpec == Spec => []RouteSound
<1>1. Inv => RouteSound
  BY RoutesAreSound DEF Inv, RoutesInv, FallbackInv
<1> QED
  BY <1>1, Invariance, PTL

(* With any combination of what a conf can give, what is made of the url   *)
(* of a client or a server does what its origin did, in all that a url     *)
(* keeps (proxy/config_url.go, ToStandardUrl, URLToDialConf).              *)
THEOREM UrlsKeepConfs ==
  ASSUME part = "url" => Typed(conf) /\ OfKind(conf)
  PROVE  UrlKept
BY UrlIsKept DEF UrlInv, UrlKept

(* So is that of the specification, which gives a few options to a conf.   *)
THEOREM UrlsOfSpec == Spec => []UrlKept
<1>1. Inv => UrlKept
  BY UrlsKeepConfs DEF Inv, UrlInv
<1> QED
  BY <1>1, Invariance, PTL
===============================================================================
