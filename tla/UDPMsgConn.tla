------------------------------ MODULE UDPMsgConn ------------------------------
(***************************************************************************)
(* UDPMsgConn (netLayer/msgconn.go) as the direct client uses it without   *)
(* fullcone ("symmetric"): a socket of its own for every address it writes *)
(* to, each with a goroutine that reads it and passes the datagrams on     *)
(* through one channel.  One goroutine of a relay writes, another one      *)
(* reads, and the end of either closes.  The sockets are named after the   *)
(* write that made them, the first one is Base.                            *)
(*                                                                         *)
(* The critical sections on symmetricMap are steps; the test whether the   *)
(* map is empty is made without the mutex.  closed and the channel are     *)
(* used without a lock.                                                    *)
(***************************************************************************)
EXTENDS Naturals

CONSTANTS
  Addrs,    (* the remote addresses                                        *)
  Writes,   (* bound: 1..n, the calls of WriteMsg, one after the other     *)
  Base,     (* the socket NewUDPMsgConn listens on                         *)
  ChanCap,  (* the capacity of symmetricMsgReadChan, 50 in the code        *)
  None

Socks == Writes \cup {Base}

VARIABLES
  open,     (* the sockets that are open                                   *)
  symmetricMap,
  closed,
  closer,   (* where Close is                                              *)
  chan,     (* the number of datagrams in symmetricMsgReadChan             *)
  chanClosed,
  at,       (* where each WriteMsg is                                      *)
  raddr,    (* its address                                                 *)
  theConn,  (* its socket                                                  *)
  reader,   (* where the reader that each WriteMsg started is              *)
  crashed   (* a send on the closed channel                                *)

vars == <<open, symmetricMap, closed, closer, chan, chanClosed, at, raddr, theConn, reader, crashed>>
closing == <<closed, closer, chanClosed>>

TypeOK ==
  /\ open \subseteq Socks
  /\ symmetricMap \in [Addrs -> Socks \cup {None}]
  /\ closed \in BOOLEAN
  /\ closer \in {"open", "closeChan", "closeBase", "ended"}
  /\ chan \in 0..ChanCap
  /\ chanClosed \in BOOLEAN
  /\ at \in [Writes -> {"idle", "first", "store", "lookup", "listen", "map", "write", "done"}]
  /\ raddr \in [Writes -> Addrs \cup {None}]
  /\ theConn \in [Writes -> Socks \cup {None}]
  /\ reader \in [Writes -> {"none", "read", "check", "send", "delete", "close", "ended"}]
  /\ crashed \in BOOLEAN

Init ==
  /\ open = {Base}
  /\ symmetricMap = [a \in Addrs |-> None]
  /\ closed = FALSE
  /\ closer = "open"
  /\ chan = 0
  /\ chanClosed = FALSE
  /\ at = [w \in Writes |-> "idle"]
  /\ raddr = [w \in Writes |-> None]
  /\ theConn = [w \in Writes |-> None]
  /\ reader = [w \in Writes |-> "none"]
  /\ crashed = FALSE

Goto(w, place) == at' = [at EXCEPT ![w] = place]
Use(w, s) == theConn' = [theConn EXCEPT ![w] = s]
Reader(w, place) == reader' = [reader EXCEPT ![w] = place]

Mapped == {a \in Addrs : symmetricMap[a] # None}

-----------------------------------------------------------------------------
(* WriteMsg: the test, without the mutex, whether this is the first address. *)
Write(w) ==
  /\ at[w] = "idle"
  /\ \A v \in Writes : v < w => at[v] = "done"
  /\ \E a \in Addrs : raddr' = [raddr EXCEPT ![w] = a]
  /\ Goto(w, IF Mapped = {} THEN "first" ELSE "lookup")
  /\ UNCHANGED <<open, symmetricMap, closing, chan, theConn, reader, crashed>>

(* The write on Base; it fails when Base is closed.  A reader is started   *)
(* whether it fails or not.                                                *)
WriteFirst(w) ==
  /\ at[w] = "first"
  /\ Use(w, Base)
  /\ \/ Base \in open /\ Goto(w, "store") /\ UNCHANGED reader
     \/ Goto(w, "done") /\ Reader(w, "read")
  /\ UNCHANGED <<open, symmetricMap, closing, chan, raddr, crashed>>

StoreFirst(w) ==
  /\ at[w] = "store"
  /\ symmetricMap' = [symmetricMap EXCEPT ![raddr[w]] = Base]
  /\ Reader(w, "read")
  /\ Goto(w, "done")
  /\ UNCHANGED <<open, closing, chan, raddr, theConn, crashed>>

Lookup(w) ==
  /\ at[w] = "lookup"
  /\ Use(w, symmetricMap[raddr[w]])
  /\ Goto(w, IF symmetricMap[raddr[w]] = None THEN "listen" ELSE "write")
  /\ UNCHANGED <<open, symmetricMap, closing, chan, raddr, reader, crashed>>

(* Variant that takes Base for another address when nothing else uses it. *)
ListenReusing(w) ==
  /\ at[w] = "listen"
  /\ \/ /\ Base \in open
        /\ Use(w, Base)
        /\ Goto(w, "map")
        /\ UNCHANGED open
     \/ Goto(w, "done") /\ UNCHANGED <<open, theConn>>
  /\ UNCHANGED <<symmetricMap, closing, chan, raddr, reader, crashed>>

Listen(w) ==
  /\ at[w] = "listen"
  /\ \/ /\ open' = open \cup {w}
        /\ Use(w, w)
        /\ Goto(w, "map")
     \/ Goto(w, "done") /\ UNCHANGED <<open, theConn>>
  /\ UNCHANGED <<symmetricMap, closing, chan, raddr, reader, crashed>>

MapSocket(w) ==
  /\ at[w] = "map"
  /\ symmetricMap' = [symmetricMap EXCEPT ![raddr[w]] = theConn[w]]
  /\ Reader(w, "read")
  /\ Goto(w, "write")
  /\ UNCHANGED <<open, closing, chan, raddr, theConn, crashed>>

(* The error of the write is the caller's business. *)
WriteTo(w) ==
  /\ at[w] = "write"
  /\ Goto(w, "done")
  /\ UNCHANGED <<open, symmetricMap, closing, chan, raddr, theConn, reader, crashed>>

-----------------------------------------------------------------------------
(* readSymmetricMsgFromConn: a datagram, *)
ReadDatagram(w) ==
  /\ reader[w] = "read"
  /\ theConn[w] \in open
  /\ Reader(w, "check")
  /\ UNCHANGED <<open, symmetricMap, closing, chan, at, raddr, theConn, crashed>>

CheckClosed(w) ==
  /\ reader[w] = "check"
  /\ Reader(w, IF closed THEN "delete" ELSE "send")
  /\ UNCHANGED <<open, symmetricMap, closing, chan, at, raddr, theConn, crashed>>

(* Variant with a queue that never fills up. *)
SendUnbounded(w) ==
  /\ reader[w] = "send"
  /\ crashed' = chanClosed
  /\ chan' = chan + 1
  /\ Reader(w, "read")
  /\ UNCHANGED <<open, symmetricMap, closing, at, raddr, theConn>>

Send(w) ==
  /\ reader[w] = "send"
  /\ chanClosed \/ chan < ChanCap
  /\ crashed' = chanClosed
  /\ chan' = IF chanClosed THEN chan ELSE chan + 1
  /\ Reader(w, "read")
  /\ UNCHANGED <<open, symmetricMap, closing, at, raddr, theConn>>

(* or the error of a closed socket, or UDP_timeout without a datagram. *)
ReadFails(w) ==
  /\ reader[w] = "read"
  /\ Reader(w, "delete")
  /\ UNCHANGED <<open, symmetricMap, closing, chan, at, raddr, theConn, crashed>>

(* Whatever socket the address has by now is deleted. *)
Delete(w) ==
  /\ reader[w] = "delete"
  /\ symmetricMap' = [symmetricMap EXCEPT ![raddr[w]] = None]
  /\ Reader(w, "close")
  /\ UNCHANGED <<open, closing, chan, at, raddr, theConn, crashed>>

(* Variant that leaves the socket to the garbage collector. *)
CloseSocketNever(w) ==
  /\ reader[w] = "close"
  /\ Reader(w, "ended")
  /\ UNCHANGED <<open, symmetricMap, closing, chan, at, raddr, theConn, crashed>>

CloseSocket(w) ==
  /\ reader[w] = "close"
  /\ open' = open \ {theConn[w]}
  /\ Reader(w, "ended")
  /\ UNCHANGED <<symmetricMap, closing, chan, at, raddr, theConn, crashed>>

-----------------------------------------------------------------------------
ReadMsg ==
  /\ chan > 0
  /\ chan' = chan - 1
  /\ UNCHANGED <<open, symmetricMap, closing, at, raddr, theConn, reader, crashed>>

(* The hash of the address need not be the one WriteMsg used, which sets   *)
(* its Network; then nothing is found.                                     *)
CloseConnWithRaddr(a) ==
  /\ symmetricMap[a] # None
  /\ open' = open \ {symmetricMap[a]}
  /\ symmetricMap' = [symmetricMap EXCEPT ![a] = None]
  /\ UNCHANGED <<closing, chan, at, raddr, theConn, reader, crashed>>

Close ==
  /\ closer = "open"
  /\ closed' = TRUE
  /\ closer' = "closeChan"
  /\ UNCHANGED <<open, symmetricMap, chan, chanClosed, at, raddr, theConn, reader, crashed>>

CloseChan ==
  /\ closer = "closeChan"
  /\ chanClosed' = TRUE
  /\ closer' = "closeBase"
  /\ UNCHANGED <<open, symmetricMap, closed, chan, at, raddr, theConn, reader, crashed>>

CloseBase ==
  /\ closer = "closeBase"
  /\ open' = open \ {Base}
  /\ closer' = "ended"
  /\ UNCHANGED <<symmetricMap, closed, chan, chanClosed, at, raddr, theConn, reader, crashed>>

WriteStep(w) ==
  WriteFirst(w) \/ StoreFirst(w) \/ Lookup(w) \/ Listen(w) \/ MapSocket(w) \/ WriteTo(w)

(* What a reader does without a datagram. *)
ReaderStep(w) == CheckClosed(w) \/ ReadFails(w) \/ Delete(w) \/ CloseSocket(w)

CloseStep == CloseChan \/ CloseBase

Next ==
  /\ ~crashed
  /\ \/ \E w \in Writes :
          Write(w) \/ WriteStep(w) \/ ReadDatagram(w) \/ Send(w) \/ ReaderStep(w)
     \/ \E a \in Addrs : CloseConnWithRaddr(a)
     \/ ReadMsg \/ Close \/ CloseStep

Spec == Init /\ [][Next]_vars

-----------------------------------------------------------------------------
(* Two addresses that are in the map have different sockets, so that a     *)
(* remote cannot tell that another one is talked to: what symmetric means. *)
MapInjective ==
  \A a, b \in Mapped : a # b => symmetricMap[a] # symmetricMap[b]

(* The channel is closed while readers may be about to send on it: this    *)
(* goes wrong at most once Close was called.                               *)
CrashOnlyWhenClosed == crashed => closed
=============================================================================
