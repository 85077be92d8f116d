----------------------------- MODULE UDPListener -----------------------------
(***************************************************************************)
(* UDPListener (netLayer/udplistener.go): makes connections out of the     *)
(* datagrams of one socket.  A loop reads the socket and starts a          *)
(* goroutine for every datagram; the goroutine looks the sender up in      *)
(* connMap, makes a UDPConn if there is none and offers it to Accept, and  *)
(* puts the datagram into the connection's channel.                        *)
(*                                                                         *)
(* A goroutine makes at most one connection, so both have the datagram's   *)
(* number.  The critical sections on connMap are steps.  A read that fails *)
(* starts a goroutine too, with a nil address, whose key is the zero one.  *)
(***************************************************************************)
EXTENDS Naturals, Sequences

CONSTANTS
  Peers,     (* the remote addresses                                       *)
  Datagrams, (* bound: 1..n, in the order the socket is read               *)
  Backlog,   (* the capacity of newConnChan, 100 in the code               *)
  InCap,     (* the capacity of an inMsgChan, 20 in the code               *)
  None

VARIABLES
  isclosed,   (* ul.isclosed; the socket is closed right after it is set    *)
  closer,     (* where Close is                                             *)
  connMap,    (* the connection of each key, or None                        *)
  newConns,   (* newConnChan                                                *)
  newClosed,  (* ... is closed                                              *)
  inMsgs,     (* inMsgChan of each connection                               *)
  inClosed,   (* the connections whose inMsgChan is closed                  *)
  from,       (* the sender of each datagram that was read; None: nil       *)
  at,         (* where the goroutine of each datagram is                    *)
  oldConn,    (* its variable                                               *)
  accepted,   (* the connections that Accept returned                       *)
  left,       (* those whose handler has ended                              *)
  crashed     (* a send on a closed channel, or nil dereferenced            *)

vars == <<isclosed, closer, connMap, newConns, newClosed, inMsgs, inClosed, from,
          at, oldConn, accepted, left, crashed>>

chans == <<newConns, newClosed, inMsgs, inClosed>>
closing == <<isclosed, closer>>

Places == {"unsent", "lookup", "create", "check", "offer", "deliver", "done", "dropped"}

Keys == Peers \cup {None}

TypeOK ==
  /\ isclosed \in BOOLEAN
  /\ closer \in {"open", "closeNew", "closeClients", "ended"}
  /\ connMap \in [Keys -> Datagrams \cup {None}]
  /\ newConns \in Seq(Datagrams) /\ Len(newConns) <= Backlog
  /\ newClosed \in BOOLEAN
  /\ inMsgs \in [Datagrams -> Seq(Datagrams)]
  /\ \A c \in Datagrams : Len(inMsgs[c]) <= InCap
  /\ inClosed \subseteq Datagrams
  /\ from \in [Datagrams -> Keys]
  /\ at \in [Datagrams -> Places]
  /\ oldConn \in [Datagrams -> Datagrams \cup {None}]
  /\ accepted \subseteq Datagrams
  /\ left \subseteq accepted
  /\ crashed \in BOOLEAN

Init ==
  /\ isclosed = FALSE
  /\ closer = "open"
  /\ connMap = [k \in Keys |-> None]
  /\ newConns = <<>>
  /\ newClosed = FALSE
  /\ inMsgs = [c \in Datagrams |-> <<>>]
  /\ inClosed = {}
  /\ from = [d \in Datagrams |-> None]
  /\ at = [d \in Datagrams |-> "unsent"]
  /\ oldConn = [d \in Datagrams |-> None]
  /\ accepted = {}
  /\ left = {}
  /\ crashed = FALSE

Goto(d, place) == at' = [at EXCEPT ![d] = place]

-----------------------------------------------------------------------------
(* run: the loop ends with the first read after isclosed was set, or with  *)
(* one that fails.                                                         *)
ReadFailed == \E d \in Datagrams : at[d] # "unsent" /\ from[d] = None

Receive(d) ==
  /\ ~isclosed /\ ~ReadFailed
  /\ at[d] = "unsent"
  /\ \A e \in Datagrams : e < d => at[e] # "unsent"
  /\ \E k \in Keys : from' = [from EXCEPT ![d] = k]
  /\ Goto(d, "lookup")
  /\ UNCHANGED <<closing, connMap, chans, oldConn, accepted, left, crashed>>

Lookup(d) ==
  /\ at[d] = "lookup"
  /\ oldConn' = [oldConn EXCEPT ![d] = connMap[from[d]]]
  /\ Goto(d, IF connMap[from[d]] = None THEN "create" ELSE "deliver")
  /\ UNCHANGED <<closing, connMap, chans, from, accepted, left, crashed>>

(* newConn does not look again whether there is one by now. *)
NewConn(d) ==
  /\ at[d] = "create"
  /\ connMap' = [connMap EXCEPT ![from[d]] = d]
  /\ oldConn' = [oldConn EXCEPT ![d] = d]
  /\ Goto(d, "check")
  /\ UNCHANGED <<closing, chans, from, accepted, left, crashed>>

CheckClosed(d) ==
  /\ at[d] = "check"
  /\ Goto(d, IF isclosed THEN "dropped" ELSE "offer")
  /\ UNCHANGED <<closing, connMap, chans, from, oldConn, accepted, left, crashed>>

(* Variant that does not wait for room in newConnChan. *)
OfferWithoutWaiting(d) ==
  /\ at[d] = "offer"
  /\ Goto(d, "deliver")
  /\ crashed' = newClosed
  /\ newConns' = IF Len(newConns) < Backlog THEN Append(newConns, oldConn[d]) ELSE newConns
  /\ UNCHANGED <<closing, connMap, newClosed, inMsgs, inClosed, from, oldConn, accepted, left>>

Offer(d) ==
  /\ at[d] = "offer"
  /\ newClosed \/ Len(newConns) < Backlog
  /\ crashed' = newClosed
  /\ newConns' = IF newClosed THEN newConns ELSE Append(newConns, oldConn[d])
  /\ Goto(d, "deliver")
  /\ UNCHANGED <<closing, connMap, newClosed, inMsgs, inClosed, from, oldConn, accepted, left>>

(* The address is dereferenced before the channel is waited for. *)
Deliver(d) ==
  LET c == oldConn[d]
      panics == from[d] = None \/ c \in inClosed
  IN /\ at[d] = "deliver"
     /\ panics \/ Len(inMsgs[c]) < InCap
     /\ crashed' = panics
     /\ inMsgs' = IF panics THEN inMsgs ELSE [inMsgs EXCEPT ![c] = Append(@, d)]
     /\ Goto(d, "done")
     /\ UNCHANGED <<closing, connMap, newConns, newClosed, inClosed, from, oldConn, accepted, left>>

-----------------------------------------------------------------------------
(* loopAccept starts a handler for every connection, until Accept fails. *)
Accept ==
  /\ newConns # <<>>
  /\ accepted' = accepted \cup {Head(newConns)}
  /\ newConns' = Tail(newConns)
  /\ UNCHANGED <<closing, connMap, newClosed, inMsgs, inClosed, from, at, oldConn, left, crashed>>

(* A handler reads its connection. *)
Read(c) ==
  /\ c \in accepted \ left
  /\ inMsgs[c] # <<>>
  /\ inMsgs' = [inMsgs EXCEPT ![c] = Tail(@)]
  /\ UNCHANGED <<closing, connMap, newConns, newClosed, inClosed, from, at, oldConn, accepted,
                 left, crashed>>

(* Variant: the Close of a server's UDPConn closes its channel. *)
LeaveClosing(c) ==
  /\ c \in accepted \ left
  /\ left' = left \cup {c}
  /\ inClosed' = inClosed \cup {c}
  /\ UNCHANGED <<closing, connMap, newConns, newClosed, inMsgs, from, at, oldConn, accepted, crashed>>

(* It ends; the Close of a server's UDPConn does nothing, and nobody calls *)
(* DeleteConn.                                                             *)
Leave(c) ==
  /\ c \in accepted \ left
  /\ left' = left \cup {c}
  /\ UNCHANGED <<closing, connMap, chans, from, at, oldConn, accepted, crashed>>

-----------------------------------------------------------------------------
Close ==
  /\ closer = "open"
  /\ isclosed' = TRUE
  /\ closer' = "closeNew"
  /\ UNCHANGED <<connMap, chans, from, at, oldConn, accepted, left, crashed>>

CloseNewConns ==
  /\ closer = "closeNew"
  /\ newClosed' = TRUE
  /\ closer' = "closeClients"
  /\ UNCHANGED <<isclosed, connMap, newConns, inMsgs, inClosed, from, at, oldConn, accepted,
                 left, crashed>>

CloseClients ==
  /\ closer = "closeClients"
  /\ inClosed' = inClosed \cup ({connMap[k] : k \in Keys} \ {None})
  /\ connMap' = [k \in Keys |-> None]
  /\ closer' = "ended"
  /\ UNCHANGED <<isclosed, newConns, newClosed, inMsgs, from, at, oldConn, accepted, left, crashed>>

Next ==
  /\ ~crashed
  /\ \/ \E d \in Datagrams :
          \/ Receive(d) \/ Lookup(d) \/ NewConn(d) \/ CheckClosed(d)
          \/ Offer(d) \/ Deliver(d) \/ Read(d) \/ Leave(d)
     \/ Accept \/ Close \/ CloseNewConns \/ CloseClients

Spec == Init /\ [][Next]_vars

-----------------------------------------------------------------------------
(* What was delivered can be read: as long as the listener is open, a      *)
(* connection that holds a datagram, or that the next datagram of a peer   *)
(* would go to, is one that Accept has returned or will return, although   *)
(* two goroutines may have made a connection for the same peer.            *)
Reachable(c) ==
  \/ c \in accepted
  \/ \E i \in 1..Len(newConns) : newConns[i] = c
  \/ at[c] \in {"check", "offer"}

NoOrphan ==
  ~isclosed =>
    /\ \A c \in Datagrams : inMsgs[c] # <<>> => Reachable(c)
    /\ \A k \in Keys : connMap[k] # None => Reachable(connMap[k])

(* Goroutines send on channels without knowing who closes them: this goes  *)
(* wrong at most once the listener is being closed.  What does without it  *)
(* is the goroutine of a read that failed, which has no address.           *)
NilSender == \E d \in Datagrams : at[d] = "done" /\ from[d] = None

CrashOnlyWhenClosed == crashed => isclosed \/ NilSender
=============================================================================
