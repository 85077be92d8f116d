----------------------------- MODULE UDPSeparate -----------------------------
(***************************************************************************)
(* RelayUDP_separate (netLayer/relay_udp.go) with the dialfunc that main.go *)
(* gives it: the datagrams of one client, read from lc, go through one     *)
(* channel rc for every address they are for.  One goroutine, the loop,    *)
(* reads lc and finds or dials the channel; every channel dialled by the   *)
(* loop gets a reader of its own, and the handler reads the first channel. *)
(*                                                                         *)
(* The loop, its readers and the handler share one variable rc: it is a    *)
(* parameter of the function and is captured, so a reader starts with, and *)
(* closes at its end, whatever the loop has last assigned to it.  Reading  *)
(* rc is therefore a step of its own.  The map is only touched with the    *)
(* mutex held; each of those critical sections is one step.                *)
(***************************************************************************)
EXTENDS Naturals

CONSTANTS
  Addrs,    (* the addresses the client sends datagrams to              *)
  First,    (* the address of its first one, firstAddr and udpFirstTarget *)
  Rcs,      (* bound: the channels that can be dialled; a channel is never reused *)
  Rc0,      (* the channel the handler dialled for First                *)
  None      (* the nil interface                                        *)

ASSUME FirstAssumption == First \in Addrs
ASSUME RcsAssumption == Rc0 \in Rcs /\ None \notin Rcs /\ None \notin Addrs

VARIABLES
  payload,   (* iics.firstPayload is not empty                              *)
  rc,        (* the shared variable                                         *)
  rcMap,     (* rc_raddrMap: the channel of each address, or None           *)
  target,    (* the address each dialled channel was established for        *)
  open,      (* the channels this process has not closed                    *)
  lcOpen,    (* lc has not been closed                                      *)
  loop,      (* where the loop is                                           *)
  raddr,     (* the address of the datagram it is working on, if any        *)
  reader,    (* where the reader of each channel is; the handler's is Rc0's *)
  reads,     (* the channel each reader is reading                          *)
  hash,      (* the key each reader deletes: mainhash for the handler       *)
  astray,    (* history: a datagram was written to a channel that was not   *)
             (* established for its address                                 *)
  dialFailed,(* history: a dialing of the loop has failed                   *)
  trouble,   (* history: so has it, or the reading or writing of a channel  *)
  crashed    (* a method of a nil interface was called                      *)

vars == <<payload, rc, rcMap, target, open, lcOpen, loop, raddr, reader, reads,
          hash, astray, dialFailed, trouble, crashed>>

LoopPCs == {"read", "lookup", "dial", "store", "write", "ended"}

(* start: the goroutine exists and has not read rc yet. *)
ReaderPCs == {"none", "start", "reading", "delete", "close", "ended"}

(* While the loop works on a datagram it knows its address, *)
LoopHasAddr == loop \in {"lookup", "dial", "store", "write"} => raddr \in Addrs

(* and the channel it is about to write it to is not nil. *)
LoopHasRc == loop \in {"store", "write"} => rc \in Rcs

TypeOK ==
  /\ payload \in BOOLEAN
  /\ rc \in Rcs \cup {None}
  /\ rcMap \in [Addrs -> Rcs \cup {None}]
  /\ target \in [Rcs -> Addrs \cup {None}]
  /\ open \subseteq Rcs
  /\ lcOpen \in BOOLEAN
  /\ loop \in LoopPCs
  /\ raddr \in Addrs \cup {None}
  /\ reader \in [Rcs -> ReaderPCs]
  /\ reads \in [Rcs -> Rcs \cup {None}]
  /\ hash \in [Rcs -> Addrs]
  /\ astray \in BOOLEAN
  /\ dialFailed \in BOOLEAN
  /\ trouble \in BOOLEAN
  /\ crashed \in BOOLEAN
  /\ LoopHasAddr /\ LoopHasRc

(* The handler has dialled the first channel; both goroutines are to start. *)
Init ==
  /\ payload \in BOOLEAN
  /\ rc = Rc0
  /\ rcMap = [a \in Addrs |-> IF a = First THEN Rc0 ELSE None]
  /\ target = [c \in Rcs |-> IF c = Rc0 THEN First ELSE None]
  /\ open = {Rc0}
  /\ lcOpen = TRUE
  /\ loop = "read"
  /\ raddr = None
  /\ reader = [c \in Rcs |-> IF c = Rc0 THEN "start" ELSE "none"]
  /\ reads = [c \in Rcs |-> None]
  /\ hash = [c \in Rcs |-> First]
  /\ astray = FALSE
  /\ dialFailed = FALSE
  /\ trouble = FALSE
  /\ crashed = FALSE

-----------------------------------------------------------------------------
(* The loop. *)

LoopAt(l) == ~crashed /\ loop = l

(* Variant that returns without closing the channels. *)
LoopReadNoClose ==
  /\ LoopAt("read")
  /\ \/ /\ \E a \in Addrs : raddr' = a
        /\ loop' = "lookup"
        /\ UNCHANGED lcOpen
     \/ /\ loop' = "ended"
        /\ lcOpen' = FALSE
        /\ UNCHANGED raddr
  /\ UNCHANGED <<payload, rc, rcMap, target, open, reader, reads, hash, astray, dialFailed,
                 trouble, crashed>>

(* A datagram for a, or the error that ends the loop: every channel of the *)
(* map is closed, and lc.                                                  *)
LoopRead ==
  /\ LoopAt("read")
  /\ \/ /\ \E a \in Addrs : raddr' = a
        /\ loop' = "lookup"
        /\ UNCHANGED <<open, lcOpen>>
     \/ /\ loop' = "ended"
        /\ open' = open \ {rcMap[a] : a \in Addrs}
        /\ lcOpen' = FALSE
        /\ UNCHANGED raddr
  /\ UNCHANGED <<payload, rc, rcMap, target, reader, reads, hash, astray, dialFailed, trouble,
                 crashed>>

LoopLookup ==
  /\ LoopAt("lookup")
  /\ \/ /\ rcMap[raddr] # None
        /\ rc' = rcMap[raddr]
        /\ loop' = "write"
     \/ /\ rcMap[raddr] = None
        /\ loop' = "dial"
        /\ UNCHANGED rc
  /\ UNCHANGED <<payload, rcMap, target, open, lcOpen, raddr, reader, reads, hash, astray,
                 dialFailed, trouble, crashed>>

(* Variant that does not look whether the dialing has failed. *)
LoopDialUnchecked ==
  /\ LoopAt("dial")
  /\ loop' = "store"
  /\ \/ \E c \in Rcs :
          /\ target[c] = None
          /\ rc' = c
          /\ target' = [target EXCEPT ![c] = IF payload THEN First ELSE raddr]
          /\ open' = open \cup {c}
          /\ UNCHANGED <<raddr, dialFailed, trouble>>
     \/ /\ rc' = None
        /\ dialFailed' = TRUE
        /\ trouble' = TRUE
        /\ UNCHANGED <<raddr, target, open>>
  /\ UNCHANGED <<payload, rcMap, lcOpen, reader, reads, hash, astray, crashed>>

(* dialfunc is dialClient with the iics of the handler.  When that holds a *)
(* first payload EstablishUDPChannel is given the payload again and        *)
(* udpFirstTarget for the address; the vless client then sends everything  *)
(* written to the channel to that address.  A failed dialing leaves nil    *)
(* in rc and drops the datagram.                                           *)
LoopDial ==
  /\ LoopAt("dial")
  /\ \/ \E c \in Rcs :
          /\ target[c] = None
          /\ rc' = c
          /\ target' = [target EXCEPT ![c] = IF payload THEN First ELSE raddr]
          /\ open' = open \cup {c}
          /\ loop' = "store"
          /\ UNCHANGED <<raddr, dialFailed, trouble>>
     \/ /\ rc' = None
        /\ raddr' = None
        /\ loop' = "read"
        /\ dialFailed' = TRUE
        /\ trouble' = TRUE
        /\ UNCHANGED <<target, open>>
  /\ UNCHANGED <<payload, rcMap, lcOpen, reader, reads, hash, astray, crashed>>

(* Variant that stores the new channel under the first address. *)
LoopStoreFirst ==
  /\ LoopAt("store")
  /\ rcMap' = [rcMap EXCEPT ![First] = rc]
  /\ reader' = [reader EXCEPT ![rc] = "start"]
  /\ hash' = [hash EXCEPT ![rc] = First]
  /\ loop' = "write"
  /\ UNCHANGED <<payload, rc, target, open, lcOpen, raddr, reads, astray, dialFailed, trouble,
                 crashed>>

LoopStore ==
  /\ LoopAt("store")
  /\ rcMap' = [rcMap EXCEPT ![raddr] = rc]
  /\ reader' = [reader EXCEPT ![rc] = "start"]
  /\ hash' = [hash EXCEPT ![rc] = raddr]
  /\ loop' = "write"
  /\ UNCHANGED <<payload, rc, target, open, lcOpen, raddr, reads, astray, dialFailed, trouble,
                 crashed>>

(* Variant that also forgets the channel it has closed. *)
LoopWriteForgets ==
  /\ LoopAt("write")
  /\ loop' = "read"
  /\ raddr' = None
  /\ \/ /\ rc \in open
        /\ astray' = (astray \/ target[rc] # raddr)
        /\ UNCHANGED <<rc, rcMap, open, trouble>>
     \/ /\ rcMap' = [rcMap EXCEPT ![raddr] = None]
        /\ open' = open \ {rc}
        /\ rc' = None
        /\ trouble' = TRUE
        /\ UNCHANGED astray
  /\ UNCHANGED <<payload, target, lcOpen, reader, reads, hash, dialFailed, crashed>>

(* A write to a closed channel fails, one to an open channel may.  The     *)
(* failure takes the address out of the map and closes the channel.        *)
LoopWrite ==
  /\ LoopAt("write")
  /\ loop' = "read"
  /\ raddr' = None
  /\ \/ /\ rc \in open
        /\ astray' = (astray \/ target[rc] # raddr)
        /\ UNCHANGED <<rcMap, open, trouble>>
     \/ /\ rcMap' = [rcMap EXCEPT ![raddr] = None]
        /\ open' = open \ {rc}
        /\ trouble' = TRUE
        /\ UNCHANGED astray
  /\ UNCHANGED <<payload, rc, target, lcOpen, reader, reads, hash, dialFailed, crashed>>

-----------------------------------------------------------------------------
(* The readers. *)

ReaderAt(c, l) == ~crashed /\ reader[c] = l

ReaderStart(c) ==
  /\ ReaderAt(c, "start")
  /\ \/ /\ rc # None
        /\ reads' = [reads EXCEPT ![c] = rc]
        /\ reader' = [reader EXCEPT ![c] = "reading"]
        /\ UNCHANGED crashed
     \/ /\ rc = None
        /\ crashed' = TRUE
        /\ UNCHANGED <<reads, reader>>
  /\ UNCHANGED <<payload, rc, rcMap, target, open, lcOpen, loop, raddr, hash, astray,
                 dialFailed, trouble>>

(* Reading the channel fails when it is closed, and may fail before; or    *)
(* writing to lc fails, and then nothing is deleted or closed.             *)
ReaderError(c) ==
  /\ ReaderAt(c, "reading")
  /\ \/ /\ reader' = [reader EXCEPT ![c] = "delete"]
        /\ trouble' = TRUE
     \/ /\ reader' = [reader EXCEPT ![c] = "ended"]
        /\ UNCHANGED trouble
  /\ reads' = [reads EXCEPT ![c] = None]
  /\ UNCHANGED <<payload, rc, rcMap, target, open, lcOpen, loop, raddr, hash, astray,
                 dialFailed, crashed>>

ReaderDelete(c) ==
  /\ ReaderAt(c, "delete")
  /\ rcMap' = [rcMap EXCEPT ![hash[c]] = None]
  /\ reader' = [reader EXCEPT ![c] = "close"]
  /\ UNCHANGED <<payload, rc, target, open, lcOpen, loop, raddr, reads, hash, astray,
                 dialFailed, trouble, crashed>>

ReaderClose(c) ==
  /\ ReaderAt(c, "close")
  /\ \/ /\ rc # None
        /\ open' = open \ {rc}
        /\ reader' = [reader EXCEPT ![c] = "ended"]
        /\ UNCHANGED crashed
     \/ /\ rc = None
        /\ crashed' = TRUE
        /\ UNCHANGED <<open, reader>>
  /\ UNCHANGED <<payload, rc, rcMap, target, lcOpen, loop, raddr, reads, hash, astray,
                 dialFailed, trouble>>

-----------------------------------------------------------------------------
Terminated ==
  /\ \/ crashed
     \/ loop = "ended" /\ \A c \in Rcs : reader[c] \in {"none", "ended"}
  /\ UNCHANGED vars

LoopLocal == LoopLookup \/ LoopStore \/ LoopWrite

Next ==
  \/ LoopRead \/ LoopDial \/ LoopLocal
  \/ \E c \in Rcs : ReaderStart(c) \/ ReaderError(c) \/ ReaderDelete(c) \/ ReaderClose(c)
  \/ Terminated

Spec == Init /\ [][Next]_vars

(* The loop and the readers run unless they wait: the loop for a datagram  *)
(* or for a dialing, a reader for its channel as long as it is open.       *)
FairSpec ==
  /\ Spec
  /\ WF_vars(LoopLocal)
  /\ \A c \in Rcs :
       /\ WF_vars(ReaderStart(c))
       /\ WF_vars(reads[c] \notin open /\ ReaderError(c))
       /\ WF_vars(ReaderDelete(c))
       /\ WF_vars(ReaderClose(c))

-----------------------------------------------------------------------------
(* proxy/vless/udpConn.go:83: on the client's side raddr never differs     *)
(* from the address of the channel, as RelayUDP_separate has seen to it.   *)
OwnTarget == ~astray

(* And so it is when the handler had no first payload.                     *)
OwnTargetWithoutPayload == ~payload => OwnTarget

(* A nil channel is only met after a dialing of the loop has failed: a     *)
(* channel that is closed, by whatever goroutine, stays in rc.             *)
NilOnlyAfterFailedDial == crashed \/ rc = None => dialFailed

(* As long as nothing went wrong with a channel or a dialing, the end of   *)
(* lc closes every channel that was dialled.                               *)
NoneLeftUntilTrouble == loop = "ended" /\ ~trouble => open = {}

(* Then the readers and the handler's relay all come to their end as well. *)
RelayReturns ==
  (loop = "ended" /\ ~trouble) ~> (\A c \in Rcs : reader[c] \in {"none", "ended"})
=============================================================================
