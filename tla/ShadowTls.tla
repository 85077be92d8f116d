------------------------------- MODULE ShadowTls -------------------------------
(* shadowTls (tlsLayer/shadow.go, io.go): the server copies the TLS        *)
(* handshake of its client to and from a real TLS server, the fake target, *)
(* and then takes the connection over.  Version 1 counts the records of a  *)
(* TLS 1.2 handshake in both directions.  Version 2 takes over when the    *)
(* client shows a checksum of everything the target has sent so far, and   *)
(* falls back to copying when it does not.                                 *)
(*                                                                         *)
(* A record is its type, what it is and, for the checksum, how many        *)
(* records of the target it covers: with the same password the checksums   *)
(* are equal when these are.                                               *)
EXTENDS Naturals, Sequences, FiniteSets

CONSTANTS
  MaxApps,    (* bound: records of data that a client sends                *)
  MaxTickets  (* bound: session tickets of the target, TLS 1.3             *)

VARIABLES
  mode,       (* version 1 or 2                                            *)
  tls,        (* "1.2" or "1.3", as the client and the target agree        *)
  who,        (* "ours", or "other": an ordinary TLS client                *)
  extra,      (* TLS 1.2: one record more: a ticket, or a certificate      *)
  flight,     (* how many records the first answer of the target has       *)
  client,     (* how far the client is                                     *)
  clientRead, (* the records it has read, all of them hashed by ours       *)
  clientSent, (* the records it has written                                *)
  data,       (* what ours read as data of the tunnel                      *)
  toServer,   (* the records between the client and the shadowTls server   *)
  copier,     (* how far the loops are that copy: up, and down (version 1) *)
  step,       (* their counters                                            *)
  apps,       (* applicationDataCount                                      *)
  forwarded,  (* what was copied to the target                             *)
  seen,       (* how much of it the target has handled                     *)
  targetSent, (* the records the target has written                        *)
  fakeConn,   (* those of them that were not read yet                      *)
  fakeOpen,   (* fakeConn was not closed                                   *)
  hashW,      (* the goroutine that copies down: phase and record          *)
  hashed,     (* how many records are in the checksum                      *)
  toClient,   (* the records between the server and the client             *)
  tunnel      (* what the shadowTls server hands to the layer above        *)

vars == <<mode, tls, who, extra, flight, client, clientRead, clientSent, data, toServer,
          copier, step, apps, forwarded, seen, targetSent, fakeConn, fakeOpen, hashW, hashed,
          toClient, tunnel>>

setting == <<mode, tls, who, extra, flight>>
ofClient == <<client, clientRead, clientSent, data>>
ofTarget == <<seen, targetSent>>
ofUp == <<copier, step, apps, forwarded, tunnel>>
ofDown == <<hashW, hashed>>

-----------------------------------------------------------------------------
Rec(type, what) == [type |-> type, what |-> what, covers |-> 0]

Hello == <<Rec(22, "hello")>>
AppData(what) == <<Rec(23, what)>>

(* The rest of the client's handshake: in TLS 1.3 it ends with a record    *)
(* that looks like data.                                                   *)
ClientFlight ==
  IF tls = "1.3" THEN <<Rec(20, "ccs"), Rec(23, "fin")>>
  ELSE (IF extra /\ who = "other" THEN <<Rec(22, "cert"), Rec(22, "verify")>> ELSE <<>>)
       \o <<Rec(22, "key"), Rec(20, "ccs"), Rec(22, "fin")>>

TargetFlight ==
  IF tls = "1.3" THEN <<Rec(22, "hello"), Rec(20, "ccs"), Rec(23, "end")>>
  ELSE [i \in 1 .. flight |-> Rec(22, IF i = flight THEN "end" ELSE "hs")]

TargetFinish ==
  IF tls = "1.3" THEN <<>>
  ELSE (IF extra THEN <<Rec(22, "newticket")>> ELSE <<>>) \o <<Rec(20, "ccs"), Rec(22, "fin")>>

Has(recs, what) == \E i \in 1 .. Len(recs) : recs[i].what = what
Count(recs, what) == Cardinality({i \in 1 .. Len(recs) : recs[i].what = what})

Init ==
  /\ mode \in {1, 2}
  /\ tls \in {"1.2", "1.3"}
  /\ who \in IF mode = 1 THEN {"ours"} ELSE {"ours", "other"}
  /\ extra \in IF tls = "1.2" THEN BOOLEAN ELSE {FALSE}
  /\ flight \in IF tls = "1.2" THEN {1, 5} ELSE {1}
  /\ client = "start"
  /\ clientRead = <<>>
  /\ clientSent = <<>>
  /\ data = <<>>
  /\ toServer = <<>>
  /\ copier = [up |-> "copy", down |-> IF mode = 1 THEN "copy" ELSE "none"]
  /\ step = [up |-> 0, down |-> 0]
  /\ apps = 0
  /\ forwarded = <<>>
  /\ seen = 0
  /\ targetSent = <<>>
  /\ fakeConn = <<>>
  /\ fakeOpen = TRUE
  /\ hashW = [phase |-> 1, rec |-> Rec(0, "")]
  /\ hashed = 0
  /\ toClient = <<>>
  /\ tunnel = <<>>

-----------------------------------------------------------------------------
(* The client, Handshake of tlsLayer.Client.                               *)
ClientWrites(recs) ==
  /\ clientSent' = clientSent \o recs
  /\ toServer' = toServer \o recs

ClientHello ==
  /\ client = "start"
  /\ client' = "wait"
  /\ ClientWrites(Hello)
  /\ UNCHANGED <<setting, clientRead, data, ofUp, ofTarget, fakeConn, fakeOpen, ofDown, toClient>>

(* A read of the TLS library takes what is there, also what lies behind    *)
(* the record it waits for.                                                *)
ClientReads(n) ==
  LET read == clientRead \o SubSeq(toClient, 1, n)
      awaited == IF client = "wait" THEN "end" ELSE "fin"
      done == Has(read, awaited)
  IN /\ client \in {"wait", "finish"}
     /\ n \in 1 .. Len(toClient)
     /\ clientRead' = read
     /\ toClient' = SubSeq(toClient, n + 1, Len(toClient))
     /\ client' = IF ~done THEN client
                  ELSE IF client = "wait" /\ tls = "1.2" THEN "finish" ELSE "ready"
     /\ IF done /\ client = "wait" THEN ClientWrites(ClientFlight)
        ELSE UNCHANGED <<clientSent, toServer>>
     /\ UNCHANGED <<setting, data, ofUp, ofTarget, fakeConn, fakeOpen, ofDown>>

(* shadowClientConn puts the checksum in front of its first data.          *)
ClientSum ==
  /\ client = "ready" /\ mode = 2 /\ who = "ours"
  /\ client' = "open"
  /\ ClientWrites(<<[type |-> 23, what |-> "sum", covers |-> Len(clientRead)]>>)
  /\ UNCHANGED <<setting, clientRead, data, ofUp, ofTarget, fakeConn, fakeOpen, ofDown, toClient>>

ClientData ==
  /\ client = IF mode = 1 \/ who = "other" THEN "ready" ELSE "open"
  /\ Count(clientSent, "app") < MaxApps
  /\ ClientWrites(AppData("app"))
  /\ UNCHANGED <<setting, client, clientRead, data, ofUp, ofTarget, fakeConn, fakeOpen, ofDown,
                 toClient>>

(* An ordinary client reads on; ours takes every record of type 23 for     *)
(* data of the tunnel.                                                     *)
ClientReadData ==
  /\ client \in {"ready", "open"}
  /\ toClient # <<>>
  /\ toClient' = Tail(toClient)
  /\ IF who = "ours" THEN data' = Append(data, Head(toClient)) /\ UNCHANGED clientRead
     ELSE clientRead' = Append(clientRead, Head(toClient)) /\ UNCHANGED data
  /\ UNCHANGED <<setting, client, clientSent, toServer, ofUp, ofTarget, fakeConn, fakeOpen, ofDown>>

-----------------------------------------------------------------------------
(* The target answers what it gets.                                        *)
TargetWrites(recs) ==
  /\ targetSent' = targetSent \o recs
  /\ fakeConn' = fakeConn \o recs

TargetAnswers ==
  /\ fakeOpen
  /\ seen < Len(forwarded)
  /\ seen' = seen + 1
  /\ LET what == forwarded[seen + 1].what
     IN TargetWrites(CASE what = "hello" -> TargetFlight
                       [] what = "fin" -> TargetFinish
                       [] what = "app" -> AppData("response")
                       [] OTHER -> <<>>)
  /\ UNCHANGED <<setting, ofClient, toServer, ofUp, fakeOpen, ofDown, toClient>>

TargetTicket ==
  /\ tls = "1.3" /\ fakeOpen
  /\ Has(targetSent, "end")
  /\ Count(targetSent, "ticket") < MaxTickets
  /\ TargetWrites(AppData("ticket"))
  /\ UNCHANGED <<setting, ofClient, toServer, ofUp, seen, fakeOpen, ofDown, toClient>>

-----------------------------------------------------------------------------
(* Version 2, down: io.Copy to a HashWriter, which hashes what it is about *)
(* to write.                                                               *)
WriteSwapped == <<"write", "hash">>

WriteOrder == <<"hash", "write">>

CopyDown ==
  /\ mode = 2
  /\ hashW.phase = 1
  /\ fakeOpen /\ fakeConn # <<>>
  /\ hashW' = [phase |-> 2, rec |-> Head(fakeConn)]
  /\ fakeConn' = Tail(fakeConn)
  /\ UNCHANGED <<setting, ofClient, toServer, ofUp, ofTarget, fakeOpen, hashed, toClient>>

HashWrite ==
  LET do == WriteOrder[hashW.phase - 1]
  IN /\ hashW.phase > 1
     /\ hashW' = [hashW EXCEPT !.phase = (@ % 3) + 1]
     /\ IF do = "hash"
        THEN /\ hashed' = IF copier.up = "fallback" THEN hashed ELSE hashed + 1
             /\ UNCHANGED toClient
        ELSE /\ toClient' = Append(toClient, hashW.rec)
             /\ UNCHANGED hashed
     /\ UNCHANGED <<setting, ofClient, toServer, ofUp, ofTarget, fakeConn, fakeOpen>>

(* Version 2, up: shadowCopyHandshakeClientToFake.  The data of the record *)
(* that holds the checksum is the beginning of the tunnel.                 *)
Recognised(r) == r.what = "sum" /\ hashed > 0 /\ r.covers = hashed

CopyUp ==
  LET r == Head(toServer)
      count == IF r.type = 23 THEN apps + 1 ELSE apps
  IN /\ mode = 2
     /\ copier.up = "copy"
     /\ toServer # <<>>
     /\ toServer' = Tail(toServer)
     /\ IF Recognised(r)
        THEN /\ copier' = [copier EXCEPT !.up = "taken"]
             /\ UNCHANGED <<step, apps, forwarded>>
        ELSE /\ forwarded' = Append(forwarded, r)
             /\ apps' = count
             /\ step' = [step EXCEPT !.up = @ + 1]
             /\ copier' = [copier EXCEPT !.up = IF count > 3 THEN "fallback"
                                                ELSE IF step.up + 1 > 8 THEN "failed" ELSE @]
     /\ UNCHANGED <<setting, ofClient, ofTarget, fakeConn, fakeOpen, ofDown, toClient, tunnel>>

(* shadowTls2: the target is no longer needed. *)
CloseFake ==
  /\ mode = 2
  /\ copier.up = "taken"
  /\ fakeOpen
  /\ fakeOpen' = FALSE
  /\ UNCHANGED <<setting, ofClient, toServer, ofUp, ofTarget, fakeConn, ofDown, toClient>>

(* ... or the rest is copied to it. *)
Fallback ==
  /\ copier.up = "fallback"
  /\ toServer # <<>>
  /\ forwarded' = forwarded \o toServer
  /\ toServer' = <<>>
  /\ UNCHANGED <<setting, ofClient, copier, step, apps, tunnel, ofTarget, fakeConn, fakeOpen,
                 ofDown, toClient>>

-----------------------------------------------------------------------------
(* Version 1: CopyTls12Handshake ends with the record behind the change of *)
(* ciphers; no other type may come.                                        *)
Counted(dir, r) ==
  LET n == step[dir] + 1
  IN /\ step' = [step EXCEPT ![dir] = n]
     /\ copier' = [copier EXCEPT ![dir] =
          IF r.type \notin {20, 22} THEN "failed"
          ELSE IF @ = "last" THEN "done"
          ELSE IF n > 6 THEN "failed"
          ELSE IF r.type = 20 THEN "last" ELSE @]

Passes(dir, r) == mode = 1 /\ copier[dir] \in {"copy", "last"} /\ Counted(dir, r)

HandshakeUp ==
  /\ toServer # <<>>
  /\ Passes("up", Head(toServer))
  /\ toServer' = Tail(toServer)
  /\ forwarded' = IF Head(toServer).type \in {20, 22} THEN Append(forwarded, Head(toServer)) ELSE forwarded
  /\ UNCHANGED <<setting, ofClient, apps, tunnel, ofTarget, fakeConn, fakeOpen, ofDown, toClient>>

HandshakeDown ==
  /\ fakeConn # <<>>
  /\ Passes("down", Head(fakeConn))
  /\ fakeConn' = Tail(fakeConn)
  /\ toClient' = IF Head(fakeConn).type \in {20, 22} THEN Append(toClient, Head(fakeConn)) ELSE toClient
  /\ UNCHANGED <<setting, ofClient, toServer, apps, forwarded, tunnel, ofTarget, fakeOpen, ofDown>>

-----------------------------------------------------------------------------
(* The connection is the layer's above.                                    *)
Taken ==
  IF mode = 1 THEN copier.up = "done" /\ copier.down = "done"
  ELSE copier.up = "taken" /\ ~fakeOpen

TunnelRead ==
  /\ Taken
  /\ toServer # <<>>
  /\ tunnel' = Append(tunnel, Head(toServer))
  /\ toServer' = Tail(toServer)
  /\ UNCHANGED <<setting, ofClient, copier, step, apps, forwarded, ofTarget, fakeConn, fakeOpen,
                 ofDown, toClient>>

TunnelWrite ==
  /\ Taken
  /\ Count(toClient \o data, "reply") = 0
  /\ toClient' = Append(toClient, Rec(23, "reply"))
  /\ UNCHANGED <<setting, ofClient, toServer, ofUp, ofTarget, fakeConn, fakeOpen, ofDown>>

Next ==
  \/ ClientHello \/ ClientSum \/ ClientData \/ ClientReadData
  \/ \E n \in 1 .. Len(toClient) : ClientReads(n)
  \/ TargetAnswers \/ TargetTicket
  \/ CopyDown \/ HashWrite \/ CopyUp \/ CloseFake \/ Fallback
  \/ HandshakeUp \/ HandshakeDown
  \/ TunnelRead \/ TunnelWrite

-----------------------------------------------------------------------------
(* What the tunnel gets is the client's data and nothing of its handshake, *)
(* and the client takes nothing of the target's for data of the tunnel.    *)
OnlyTunnel ==
  /\ \A i \in 1 .. Len(tunnel) : tunnel[i].what = "app"
  /\ \A i \in 1 .. Len(data) : data[i].what = "reply"

(* Every client of ours is taken over: the target never sees its data.     *)
Recognises == ~Has(forwarded, "sum") /\ ~Has(forwarded, "app")

(* An ordinary client talks to the target: all it writes is passed on in   *)
(* order, and so is what the target answers.                               *)
Passing ==
  LET passed == clientRead \o toClient
  IN /\ forwarded \o toServer = clientSent
     /\ tunnel = <<>>
     /\ Len(passed) <= Len(targetSent) /\ SubSeq(targetSent, 1, Len(passed)) = passed

(* What this does not say of: a target that sends a ticket of TLS 1.3,     *)
(* which may be in one checksum and not in the other and reaches the       *)
(* tunnel; ordinary clients that use more than eight records before the    *)
(* fourth of data; for version 1, TLS 1.3 and targets that use eight       *)
(* records.                                                                *)
StreamKept ==
  /\ who = "ours" /\ ~Has(targetSent, "ticket") =>
       /\ OnlyTunnel
       /\ mode = 2 => Recognises
       /\ mode = 1 /\ tls = "1.2" /\ ~(extra /\ flight = 5) => "failed" \notin {copier.up, copier.down}
  /\ who = "other" =>
       /\ Passing
       /\ ~extra => copier.up # "failed"
=============================================================================
