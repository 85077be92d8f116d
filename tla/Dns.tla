---------------------------------- MODULE Dns ----------------------------------
(***************************************************************************)
(* DNSMachine (netLayer/dns.go): queries of many goroutines share a few    *)
(* connections to dns servers and a cache.                                 *)
(*                                                                         *)
(* A DnsConn is named by its server; Default is dm.defaultConn.  A         *)
(* dns.Conn has the name of the DnsConn it was made for and may move: when *)
(* the default server is lost, a backup's connection is put into           *)
(* dm.defaultConn.  A DnsConn has a mutex for its exchanges; dm.mutex is a *)
(* read-write lock: a query reads from its choice of a server to its       *)
(* return, and who waits to write keeps new readers out.                   *)
(*                                                                         *)
(* A query is a call of Query, or of ServeDNS; it asks for one type of     *)
(* address after the other until it has one.                               *)
(***************************************************************************)
EXTENDS Naturals, Sequences, FiniteSets

CONSTANTS
  Queries,
  Default, Backups,  (* the servers of the configuration                    *)
  Policy,            (* SpecialServerPolicy: a server for each domain       *)
  Hosts,             (* SpecialIPPollicy: types of address of each domain   *)
  MaxRecursion,      (* 2 in the code                                       *)
  TTLStrategies,     (* which of "forever", "timed" are tried               *)
  TypeStrategies,    (* which of 4, 6, 40 and 60 are tried                  *)
  None

VARIABLES
  strategy,   (* TTLStrategy: zero, or one of the others                    *)
  defConn,    (* the dns.Conn of dm.defaultConn, or None                    *)
  conns,      (* the keys of dm.conns                                       *)
  garbage,    (* garbageMark of each DnsConn                                *)
  holder,     (* who holds the mutex of each DnsConn                        *)
  waiting,    (* the queries that wait to write                             *)
  cache,      (* of each domain: a type of address, fresh or not            *)
  at,         (* where each query is                                        *)
  domain,     (* what it asks for                                           *)
  types,      (* the types of address it asks for, the current one first    *)
  slot,       (* theDNSServerConn                                           *)
  conn,       (* the dns.Conn that was passed to DNSQuery                   *)
  depth,      (* recursionCount                                             *)
  ip          (* the type of the address it has got                         *)

machine == <<strategy, defConn, conns, garbage>>
locks == <<holder, waiting>>
asked == <<domain, types>>
chosen == <<slot, conn>>
vars == <<machine, locks, cache, at, asked, chosen, depth, ip>>

Servers == {Default} \cup Backups
Domains == DOMAIN Policy
Types == {"A", "AAAA"}

(* What Query asks for under each strategy. *)
TypesOf(typeStrategy) ==
  CASE typeStrategy = 6  -> <<"AAAA", "A">>
    [] typeStrategy = 40 -> <<"A">>
    [] typeStrategy = 60 -> <<"AAAA">>
    [] OTHER             -> <<"A", "AAAA">>

Reading == {"choose", "lock", "exchange", "redial"}
Writing == {"evict", "demote", "store"}

TypeOK ==
  /\ strategy \in TTLStrategies
  /\ defConn \in Servers \cup {None}
  /\ conns \subseteq Backups
  /\ garbage \in [Servers -> BOOLEAN]
  /\ holder \in [Servers -> Queries \cup {None}]
  /\ waiting \subseteq {q \in Queries : at[q] \in Writing}
  /\ cache \in [Domains -> [type : Types, fresh : BOOLEAN] \cup {None}]
  /\ at \in [Queries -> {"lookup", "rlock", "deferred", "return", "done"} \cup Reading \cup Writing]
  /\ domain \in [Queries -> Domains]
  /\ types \in [Queries -> Seq(Types)]
  /\ slot \in [Queries -> Servers \cup {None}]
  /\ conn \in [Queries -> Servers \cup {None}]
  /\ depth \in [Queries -> 0..MaxRecursion + 1]
  /\ ip \in [Queries -> Types \cup {None}]

(* AddNewServer: the first server that can be dialled is the default one. *)
Init ==
  /\ strategy \in TTLStrategies
  /\ \/ defConn = Default /\ conns \in SUBSET Backups
     \/ defConn = None /\ conns = {}
  /\ garbage = [s \in Servers |-> FALSE]
  /\ holder = [s \in Servers |-> None]
  /\ waiting = {}
  /\ cache = [d \in Domains |-> None]
  /\ at = [q \in Queries |-> "lookup"]
  /\ domain \in [Queries -> Domains]
  /\ \E s \in TypeStrategies : types = [q \in Queries |-> TypesOf(s)]
  /\ slot = [q \in Queries |-> None]
  /\ conn = [q \in Queries |-> None]
  /\ depth = [q \in Queries |-> 0]
  /\ ip = [q \in Queries |-> None]

Goto(q, place) == at' = [at EXCEPT ![q] = place]

-----------------------------------------------------------------------------
(* dm.mutex *)
Readers == {q \in Queries : at[q] \in Reading}

RLock(q) ==
  /\ at[q] = "rlock"
  /\ waiting = {}
  /\ Goto(q, "choose")
  /\ UNCHANGED <<machine, locks, cache, asked, chosen, depth, ip>>

WaitToWrite(q) ==
  /\ at[q] \in Writing
  /\ q \notin waiting
  /\ waiting' = waiting \cup {q}
  /\ UNCHANGED <<machine, holder, cache, at, asked, chosen, depth, ip>>

(* The whole of a critical section that writes. *)
Writes(q) ==
  /\ q \in waiting
  /\ Readers = {}
  /\ waiting' = waiting \ {q}
  /\ UNCHANGED holder

-----------------------------------------------------------------------------
(* QueryType *)
Lookup(q) ==
  LET r == cache[domain[q]]
  IN /\ at[q] = "lookup"
     /\ \/ /\ r = None
           /\ Goto(q, "rlock")
           /\ UNCHANGED ip
        \/ /\ r # None
           /\ strategy = "timed" => r.fresh
           /\ ip' = [ip EXCEPT ![q] = r.type]
           /\ Goto(q, "return")
        \/ /\ r # None
           /\ strategy = "timed" /\ ~r.fresh
           /\ Goto(q, "evict")
           /\ UNCHANGED ip
     /\ UNCHANGED <<machine, locks, cache, asked, chosen, depth>>

Evict(q) ==
  /\ at[q] = "evict"
  /\ Writes(q)
  /\ cache' = [cache EXCEPT ![domain[q]] = None]
  /\ Goto(q, "rlock")
  /\ UNCHANGED <<machine, asked, chosen, depth, ip>>

(* An address of the configuration is not put into the cache. *)
FromHosts(q) ==
  /\ at[q] = "choose"
  /\ Head(types[q]) \in Hosts[domain[q]]
  /\ ip' = [ip EXCEPT ![q] = Head(types[q])]
  /\ Goto(q, "return")
  /\ UNCHANGED <<machine, locks, cache, asked, chosen, depth>>

ConnOf(s) == IF s = Default THEN defConn ELSE s

Choose(q) ==
  LET p == Policy[domain[q]]
      s == IF p \in conns THEN p ELSE Default
  IN /\ at[q] = "choose"
     /\ Head(types[q]) \notin Hosts[domain[q]]
     /\ slot' = [slot EXCEPT ![q] = s]
     /\ conn' = [conn EXCEPT ![q] = ConnOf(s)]
     /\ depth' = [depth EXCEPT ![q] = 0]
     /\ Goto(q, IF ConnOf(s) = None THEN "deferred" ELSE "lock")
     /\ UNCHANGED <<machine, locks, cache, asked, ip>>

(* Variant of DNSQuery without the mutex of the connection. *)
LockNone(q) ==
  /\ at[q] = "lock"
  /\ Goto(q, "exchange")
  /\ UNCHANGED <<machine, locks, cache, asked, chosen, depth, ip>>

Lock(q) ==
  /\ at[q] = "lock"
  /\ holder[slot[q]] = None
  /\ holder' = [holder EXCEPT ![slot[q]] = q]
  /\ Goto(q, "exchange")
  /\ UNCHANGED <<machine, waiting, cache, asked, chosen, depth, ip>>

Unlocked(s) == [holder EXCEPT ![s] = None]

(* An address of the type that was asked for. *)
Answered(q) ==
  /\ at[q] = "exchange"
  /\ holder' = Unlocked(slot[q])
  /\ ip' = [ip EXCEPT ![q] = Head(types[q])]
  /\ Goto(q, "deferred")
  /\ UNCHANGED <<machine, waiting, cache, asked, chosen, depth>>

(* Variant that asks for the other name before it gives the mutex back. *)
AliasedLocked(q) ==
  /\ at[q] = "exchange"
  /\ depth[q] <= MaxRecursion
  /\ depth' = [depth EXCEPT ![q] = @ + 1]
  /\ Goto(q, "lock")
  /\ UNCHANGED <<machine, locks, cache, asked, chosen, ip>>

(* Variant that follows every chain of names. *)
AliasedForever(q) ==
  /\ at[q] = "exchange"
  /\ holder' = Unlocked(slot[q])
  /\ depth' = [depth EXCEPT ![q] = @ + 1]
  /\ Goto(q, "lock")
  /\ UNCHANGED <<machine, waiting, cache, asked, chosen, ip>>

(* The answer is another name: asked for in turn, a few times. *)
Aliased(q) ==
  /\ at[q] = "exchange"
  /\ holder' = Unlocked(slot[q])
  /\ depth[q] <= MaxRecursion
  /\ depth' = [depth EXCEPT ![q] = @ + 1]
  /\ Goto(q, "lock")
  /\ UNCHANGED <<machine, waiting, cache, asked, chosen, ip>>

(* No such name, a chain of names that is too long, a timeout, and the end *)
(* of the stream, which is not a net.Error.                                *)
NotAnswered(q) ==
  /\ at[q] = "exchange"
  /\ holder' = Unlocked(slot[q])
  /\ Goto(q, "deferred")
  /\ UNCHANGED <<machine, waiting, cache, asked, chosen, depth, ip>>

(* A net.Error that is not a timeout.  Another query's Redial, which does  *)
(* not take the mutex of the connection, may be the reason.                *)
Fails(q) ==
  /\ at[q] = "exchange"
  /\ holder' = Unlocked(slot[q])
  /\ Goto(q, "redial")
  /\ UNCHANGED <<machine, waiting, cache, asked, chosen, depth, ip>>

(* Closes the connection and dials, which may fail. *)
Redial(q) ==
  /\ at[q] = "redial"
  /\ \/ UNCHANGED garbage
     \/ garbage' = [garbage EXCEPT ![slot[q]] = TRUE]
  /\ Goto(q, "deferred")
  /\ UNCHANGED <<strategy, defConn, conns, locks, cache, asked, chosen, depth, ip>>

-----------------------------------------------------------------------------
(* The deferred function of QueryType runs after the deferred RUnlock.     *)
(* garbageMark is read without a lock.                                     *)
Settled(q) == IF ip[q] = None THEN "return" ELSE "store"

Deferred(q) ==
  /\ at[q] = "deferred"
  /\ Goto(q, IF garbage[slot[q]] THEN "demote" ELSE Settled(q))
  /\ UNCHANGED <<machine, locks, cache, asked, chosen, depth, ip>>

(* Variant that takes the default server away when there is a special one. *)
DemoteOnly(q) ==
  /\ at[q] = "demote"
  /\ Writes(q)
  /\ conns' = conns \ {slot[q]}
  /\ defConn' = IF slot[q] = Default THEN None ELSE defConn
  /\ Goto(q, Settled(q))
  /\ UNCHANGED <<strategy, garbage, cache, asked, chosen, depth, ip>>

Demote(q) ==
  /\ at[q] = "demote"
  /\ Writes(q)
  /\ \/ /\ slot[q] # Default
        /\ conns' = conns \ {slot[q]}
        /\ UNCHANGED <<defConn, garbage>>
     \/ /\ slot[q] = Default
        /\ conns = {}
        /\ defConn' = None
        /\ UNCHANGED <<conns, garbage>>
     \/ /\ slot[q] = Default
        /\ \E s \in conns :
             /\ defConn' = s
             /\ conns' = conns \ {s}
        /\ garbage' = [garbage EXCEPT ![Default] = FALSE]
  /\ Goto(q, Settled(q))
  /\ UNCHANGED <<strategy, cache, asked, chosen, depth, ip>>

Store(q) ==
  /\ at[q] = "store"
  /\ Writes(q)
  /\ cache' = [cache EXCEPT ![domain[q]] = [type |-> ip[q], fresh |-> TRUE]]
  /\ Goto(q, "return")
  /\ UNCHANGED <<machine, asked, chosen, depth, ip>>

(* Query asks for the next type when it has no address. *)
Return(q) ==
  /\ at[q] = "return"
  /\ \/ /\ ip[q] = None /\ Len(types[q]) > 1
        /\ types' = [types EXCEPT ![q] = Tail(@)]
        /\ Goto(q, "lookup")
     \/ /\ ip[q] # None \/ Len(types[q]) = 1
        /\ Goto(q, "done")
        /\ UNCHANGED types
  /\ slot' = [slot EXCEPT ![q] = None]
  /\ conn' = [conn EXCEPT ![q] = None]
  /\ UNCHANGED <<machine, locks, cache, domain, depth, ip>>

(* The time of a record passes. *)
Expire(d) ==
  /\ strategy = "timed"
  /\ cache[d] # None /\ cache[d].fresh
  /\ cache' = [cache EXCEPT ![d].fresh = FALSE]
  /\ UNCHANGED <<machine, locks, at, asked, chosen, depth, ip>>

Step(q) ==
  \/ RLock(q) \/ WaitToWrite(q) \/ Lookup(q) \/ Evict(q) \/ FromHosts(q) \/ Choose(q)
  \/ Lock(q) \/ Answered(q) \/ Aliased(q) \/ NotAnswered(q) \/ Fails(q) \/ Redial(q)
  \/ Deferred(q) \/ Demote(q) \/ Store(q) \/ Return(q)

Next ==
  \/ \E q \in Queries : Step(q)
  \/ \E d \in Domains : Expire(d)

-----------------------------------------------------------------------------
(* One use of a dns.Conn at a time, although a dns.Conn may move from one  *)
(* DnsConn, and so from one mutex, to another.                             *)
OneUserPerConn ==
  \A q, r \in Queries :
    at[q] = "exchange" /\ at[r] = "exchange" /\ conn[q] = conn[r] => q = r

(* There is a default server as long as there is a backup.                 *)
BackupPromoted == defConn = None => conns = {}
===============================================================================
