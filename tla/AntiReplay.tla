------------------------------ MODULE AntiReplay ------------------------------
(***************************************************************************)
(* How a vmess server recognises a header that it has already taken        *)
(* (proxy/vmess: anti_replay.go, header.go, server.go).  A handshake looks *)
(* at the time in the header, then at the table of authids, then at the    *)
(* table of sessions; a table holds the time when an entry expires.  The   *)
(* table of authids is read and written in two critical sections, that of  *)
(* sessions in one.                                                        *)
(*                                                                         *)
(* The clock counts minutes and stands still during the checks of a        *)
(* handshake.                                                              *)
(***************************************************************************)
EXTENDS Naturals, FiniteSets

CONSTANTS
  Headers,        (* what clients send, bytes that are all alike if equal   *)
  Handshakes,     (* the connections it arrives on                          *)
  MaxTimeGap,     (* authID_timeMaxSecondGap                                *)
  AuthidDuration, (* authid_antiReplyDuration                               *)
  SessionDuration,(* sessionAntiReplayDuration                              *)
  MaxTime         (* bound on the clock                                     *)

VARIABLES
  now,
  born,           (* the time a client wrote into each header               *)
  authidMap,      (* expireTime of each header's authid, 0 if there is none *)
  sessionMap,     (* the same of its session                                *)
  check,          (* where each handshake is                                *)
  header,         (* what it has read                                       *)
  accepted        (* when its header was accepted, 0 if it was not          *)

vars == <<now, born, authidMap, sessionMap, check, header, accepted>>

TypeOK ==
  /\ now \in 1..MaxTime
  /\ born \in [Headers -> 1..MaxTime]
  /\ authidMap \in [Headers -> 0..MaxTime + AuthidDuration]
  /\ sessionMap \in [Headers -> 0..MaxTime + SessionDuration]
  /\ check \in [Handshakes -> {"idle", "authid", "record", "session", "done"}]
  /\ header \in [Handshakes -> Headers]
  /\ accepted \in [Handshakes -> 0..MaxTime]

Init ==
  /\ now = 1
  /\ born \in [Headers -> 1..MaxTime]
  /\ authidMap = [h \in Headers |-> 0]
  /\ sessionMap = [h \in Headers |-> 0]
  /\ check = [c \in Handshakes |-> "idle"]
  /\ header \in [Handshakes -> Headers]
  /\ accepted = [c \in Handshakes |-> 0]

Goto(c, place) == check' = [check EXCEPT ![c] = place]

-----------------------------------------------------------------------------
(* tryMatchAuthIDByBlock: the clocks of client and server may differ. *)
InTime(h) == born[h] - MaxTimeGap <= now /\ now <= born[h] + MaxTimeGap

Handshake(c) ==
  /\ check[c] = "idle"
  /\ Goto(c, IF InTime(header[c]) THEN "authid" ELSE "done")
  /\ UNCHANGED <<now, born, authidMap, sessionMap, header, accepted>>

(* authid_antiReplayMachine.check: the lookup under the read lock ... *)
LookupAuthid(c) ==
  LET expire == authidMap[header[c]]
  IN /\ check[c] = "authid"
     /\ Goto(c, IF expire = 0 \/ expire < now THEN "record" ELSE "done")
     /\ UNCHANGED <<now, born, authidMap, sessionMap, header, accepted>>

(* ... and the entry, under the lock. *)
RecordAuthid(c) ==
  /\ check[c] = "record"
  /\ authidMap' = [authidMap EXCEPT ![header[c]] = now + AuthidDuration]
  /\ Goto(c, "session")
  /\ UNCHANGED <<now, born, sessionMap, header, accepted>>

(* session_antiReplayMachine.check: one critical section. *)
CheckSession(c) ==
  LET known == sessionMap[header[c]] > now
  IN /\ check[c] = "session"
     /\ Goto(c, "done")
     /\ \/ known /\ UNCHANGED <<sessionMap, accepted>>
        \/ /\ ~known
           /\ sessionMap' = [sessionMap EXCEPT ![header[c]] = now + SessionDuration]
           /\ accepted' = [accepted EXCEPT ![c] = now]
     /\ UNCHANGED <<now, born, authidMap, header>>

(* What the tickers of the two tables do. *)
RemoveExpiredAuthids ==
  /\ authidMap' = [h \in Headers |-> IF authidMap[h] < now THEN 0 ELSE authidMap[h]]
  /\ UNCHANGED <<now, born, sessionMap, check, header, accepted>>

(* Variant that starts a new table instead. *)
ForgetSessions ==
  /\ sessionMap' = [h \in Headers |-> 0]
  /\ UNCHANGED <<now, born, authidMap, check, header, accepted>>

RemoveExpiredSessions ==
  /\ sessionMap' = [h \in Headers |-> IF sessionMap[h] < now THEN 0 ELSE sessionMap[h]]
  /\ UNCHANGED <<now, born, authidMap, check, header, accepted>>

Tick ==
  /\ now < MaxTime
  /\ \A c \in Handshakes : check[c] \in {"idle", "done"}
  /\ now' = now + 1
  /\ UNCHANGED <<born, authidMap, sessionMap, check, header, accepted>>

Next ==
  \/ \E c \in Handshakes :
       Handshake(c) \/ LookupAuthid(c) \/ RecordAuthid(c) \/ CheckSession(c)
  \/ RemoveExpiredAuthids \/ RemoveExpiredSessions \/ Tick

-----------------------------------------------------------------------------
(* A header is accepted once: two handshakes may both pass the table of    *)
(* authids, and the time in a header stays good for longer than a session  *)
(* is remembered, but only when the client's clock was ahead by the        *)
(* difference.                                                             *)
AcceptedOnce ==
  \A c, d \in Handshakes :
    /\ c # d /\ header[c] = header[d]
    /\ accepted[c] > 0 /\ accepted[d] > 0
    /\ accepted[c] <= accepted[d]
    => accepted[c] + SessionDuration <= born[header[c]] + MaxTimeGap
===============================================================================
