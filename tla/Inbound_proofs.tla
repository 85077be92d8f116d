---------------------------- MODULE Inbound_proofs ----------------------------
(***************************************************************************)
(* Proofs about Inbound for any set of handlers, any kinds of listener and *)
(* any number of chunks: what is written to the outbound connection is     *)
(* what the client sent, both connections of a handler are released, the   *)
(* end of a relay spares the carrier, the count of relays is right.        *)
(***************************************************************************)
EXTENDS Inbound, FiniteSetTheorems, SequenceTheorems, TLAPS

Types ==
  /\ carrier \in Carriers
  /\ stage \in {"setup", "serving", "over"}
  /\ captured \in Conns \cup {None}
  /\ h \in [Subs -> Handler]
  /\ open \subseteq Conns
  /\ read \in [Conns -> 0..(Chunks + 1)]

(* What a handler has at each place of the code: the connections it works  *)
(* on and where they can come from, its outbound connection and the two    *)
(* directions of its relay.                                                *)
Fits(s, r) ==
  /\ r.pc \in {"idle", "handoff"} => r.wrapped = None
  /\ r.pc \in {"handshake", "fallback", "h2", "assoc"} => r.wrapped # None
  /\ r.pc \in {"idle", "handoff", "handshake", "fallback", "h2"} => r.lc = None
  /\ r.pc \in {"assoc", "payload", "dial", "relay"} \/ r.upDir # "off" => r.lc # None
  /\ r.pc = "handoff" => carrier = "grpc"
  /\ r.pc = "assoc" => carrier = "plain" /\ r.kind = "assoc" /\ r.lc = s
  /\ r.pc \in {"idle", "handoff", "handshake", "assoc"} => ~r.fb /\ r.held = <<>>
  /\ r.pc = "fallback" => r.fb
  /\ carrier = "smux" /\ r.pc # "idle" => r.wrapped = Base
  /\ carrier = "smux" => r.lc \in {None, Base} \/ (r.lc = s /\ r.inner)
  /\ carrier = "plain" => r.wrapped \in {None, Base} /\ r.lc \in {None, Base, s}
  /\ r.pc \notin {"relay", "done"} =>
       r.out = "none" /\ r.upDir = "off" /\ r.downDir = "off"
  /\ r.upDir = "off" => r.up = <<>>
  /\ r.pc = "relay" => r.upDir # "off"
  /\ r.upDir = "off" <=> r.downDir = "off"
  /\ r.downDir = "on" => r.pc = "relay"
  /\ r.downDir = "ended" \/ r.upDir = "ended" => r.out = "closed"
  /\ r.pc = "done" /\ r.out = "open" => r.failed

IControl ==
  /\ Types
  /\ \A s \in Subs : Fits(s, h[s])
  /\ stage = "setup" => /\ \A s \in Subs : At(s, "idle")
                        /\ \A c \in Conns : read[c] = 0
  /\ \A s \in Subs : At(s, "handoff") => captured # None

(* Only a handler that has not begun makes a connection of its name, but   *)
(* for the socket of an association.                                       *)
Named ==
  \A c \in Subs :
    At(c, "idle") =>
      /\ captured # c
      /\ \A s \in Subs : h[s].wrapped # c /\ h[s].lc # c

(* Alive, for a set op of open connections.                                *)
Up(c, op) == c \in op /\ (Shared => Base \in op)

(* A direction of a relay closes the inbound connection when it ends.      *)
Ended(r, op) ==
  r.upDir = "ended" \/ r.downDir = "ended" => r.cone \/ ~Up(r.lc, op)

(* A handler that ends without a relay has closed it, with the exceptions  *)
(* of InboundReleased.                                                     *)
Dropped(r, op) ==
  r.pc = "done" /\ r.upDir = "off" =>
    \/ r.lc = None /\ ~Up(r.wrapped, op)
    \/ r.lc # None /\ ~Up(r.lc, op)
    \/ r.failed /\ (r.mux \/ r.kind # "tcp")
    \/ r.kind = "assoc" /\ r.out = "none"

IClosed == Named /\ \A s \in Subs : Ended(h[s], open) /\ Dropped(h[s], open)

(* The connections a handler has to do with, and the one that it reads.    *)
Uses(s, r) ==
  {r.wrapped, r.lc} \cup (IF carrier = "smux" /\ r.pc # "idle" THEN {s} ELSE {})

Reads(s, r) ==
  IF r.lc # None THEN r.lc
  ELSE IF carrier = "smux" /\ r.pc # "idle" THEN s ELSE r.wrapped

Alone(s, c) == \A t \in Subs \ {s} : c \notin Uses(t, h[t])

(* Nobody has read a connection that no handler has to do with.            *)
Unread == \A c \in Conns : (\A t \in Subs : c \notin Uses(t, h[t])) => read[c] = 0

First(r) == IF r.fb \/ r.kind = "assoc" THEN 0 ELSE 1

Faithful(r) == \A i \in 1..Len(r.up) : r.up[i] = <<r.lc, First(r) + i - 1>>

(* The chunks that a handler holds, those it has passed on and the q that  *)
(* have been read of its connection are the same ones.                     *)
Holds(r, q) ==
  /\ r.pc \in {"handshake", "assoc"} => q = 0
  /\ r.pc = "fallback" => r.held = <<<<r.wrapped, 0>>>> /\ q = 1
  /\ r.pc = "payload" =>
       /\ r.held = IF First(r) = 0 THEN <<<<r.lc, 0>>>> ELSE <<>>
       /\ q = 1
  /\ r.pc = "dial" =>
       \/ r.held = <<>> /\ q = First(r)
       \/ r.held = <<<<r.lc, First(r)>>>> /\ q = First(r) + 1
  /\ Faithful(r)
  /\ r.upDir = "on" => q = First(r) + Len(r.up)

Have(s) ==
  Alone(s, Reads(s, h[s])) /\ ~(carrier = "smux" /\ h[s].fb) =>
    Holds(h[s], read[Reads(s, h[s])])

IHave == Unread /\ \A s \in Subs : Have(s)

-----------------------------------------------------------------------------
(* What a step of handler s, from record r to record n, does to each of    *)
(* the relations above.                                                    *)
Moves(s, r, n) ==
  /\ n.pc # "idle"
  /\ n.pc = "handoff" => captured' = s
  /\ r.fb => n.fb
  /\ n.wrapped \in {r.wrapped, Base, s, captured}
  /\ n.lc \in {r.lc, r.wrapped, s}
  /\ r.upDir # "off" => n.lc = r.lc /\ n.cone = r.cone
  /\ Uses(s, r) \subseteq Uses(s, n) \cup {None}
  /\ \/ Reads(s, n) \notin Uses(s, r) \ {Reads(s, r)}
     \/ carrier = "smux" /\ n.fb

Closes(s, r, n) ==
  /\ \/ open' \subseteq open
     \/ /\ open' = open \cup {s}
        /\ r.pc = "idle" \/ (r.pc = "handshake" /\ carrier = "plain")
  /\ Ended(r, open) => Ended(n, open')
  /\ Ended(r, open) => Dropped(n, open')

Takes(s, n) == read' = read \/ \E c \in Uses(s, n) \cap Conns : Take(c)

Counts(r, n) ==
  \/ active' = active /\ (n.pc = "relay" <=> r.pc = "relay")
  \/ active' = active + 1 /\ n.pc = "relay" /\ r.pc # "relay"
  \/ active' = active - 1 /\ n.pc # "relay" /\ r.pc = "relay"

Keeps(s, r, n) ==
  /\ ~(carrier = "smux" /\ n.fb)
  /\ Reads(s, n) # Reads(s, r) => read[Reads(s, n)] = 0
  /\ Reads(s, n) = Reads(s, r) => Holds(r, read[Reads(s, r)])
  => Holds(n, read'[Reads(s, n)])

Advance(s, r, n) ==
  /\ n \in Handler /\ Fits(s, n)
  /\ Moves(s, r, n)
  /\ Closes(s, r, n)
  /\ Takes(s, n)
  /\ Counts(r, n)
  /\ Keeps(s, r, n)

(* A step of one handler. *)
HandlerStep(s) ==
  Accept(s) \/ Prompt(s) \/ FallbackH2(s) \/ Dial(s)
    \/ RelayUp(s) \/ RelayUpEnd(s) \/ RelayDownEnd(s)

(* Every step of a handler advances it so.                                 *)
LEMMA HandlerSteps ==
  ASSUME IControl, NEW s \in Subs, HandlerStep(s)
  PROVE  \E n : Becomes(s, n) /\ Advance(s, h[s], n)
<1> USE ConnsAssumption
<1>1. /\ h[s] \in Handler /\ Fits(s, h[s])
      /\ s \in Conns /\ Base \in Conns /\ s # None /\ Base # None
  BY DEF IControl, Types, Conns
<1>2. /\ At(s, "handoff") => captured \in Conns /\ carrier = "grpc"
      /\ stage = "setup" =>
           At(s, "idle") /\ read[Base] = 0 /\ read[s] = 0 /\ read[Base] <= Chunks
  BY <1>1, ChunksAssumption DEF IControl, Types, Fits, At
<1>3. \A c \in Conns : read[c] <= Chunks => NextOf(c) \in Seq(Chunk)
  <2>1. \A c \in Conns : read[c] <= Chunks => <<c, read[c]>> \in Chunk
    BY ChunksAssumption DEF Chunk, IControl, Types
  <2> QED
    BY <2>1 DEF NextOf
<1>4. At(s, "handshake") => Source(s) \in Conns /\ Source(s) # None
  BY <1>1 DEF Fits, At, Source, Handler
<1>5. read \in [Conns -> Nat]
  BY ChunksAssumption DEF IControl, Types
<1>6. ASSUME NEW r \in Handler, NEW n, Fits(s, r),
             r.pc \in {"handshake", "fallback", "h2", "assoc", "payload"},
             n = [r EXCEPT !.pc = "done"],
             open' = open \ {IF r.pc = "payload" THEN r.lc ELSE r.wrapped},
             \/ read' = read
             \/ r.pc = "handshake" /\ Take(IF carrier = "smux" THEN s ELSE r.wrapped),
             active' = active
      PROVE  Advance(s, r, n)
  <2>1. n \in Handler
    BY <1>6, <1>1 DEF Handler, PCs
  <2>2. Fits(s, n)
    BY <1>6, <1>1 DEF Fits, Handler
  <2>3. Moves(s, r, n) /\ Counts(r, n)
    BY <1>6, <1>1 DEF Moves, Counts, Uses, Reads, Fits, Handler
  <2>4. Closes(s, r, n)
    BY <1>6, <1>1 DEF Closes, Ended, Dropped, Up, Fits, Handler
  <2>5. Takes(s, n)
    BY <1>6, <1>1 DEF Takes, Uses, Fits, Handler
  <2>6. Keeps(s, r, n)
    BY <1>6, <1>1, <1>5
       DEF Keeps, Holds, Reads, Faithful, First, Fits, Handler, Take
  <2> QED
    BY <2>1, <2>2, <2>3, <2>4, <2>5, <2>6 DEF Advance
<1>7. CASE AcceptPlain(s)
  <2>1. ASSUME NEW r \in Handler, NEW n, Fits(s, r), r.pc = "idle",
               carrier = "plain",
               n = [r EXCEPT !.pc = "handshake", !.wrapped = Base],
               open' = open, read' = read, active' = active
        PROVE  Advance(s, r, n)
    <3>1. n \in Handler
      BY <2>1, <1>1 DEF Handler, PCs
    <3>2. Fits(s, n)
      BY <2>1, <1>1 DEF Fits, Handler
    <3>3. Moves(s, r, n) /\ Counts(r, n)
      BY <2>1, <1>1 DEF Moves, Counts, Uses, Reads, Fits, Handler
    <3>4. Closes(s, r, n)
      BY <2>1, <1>1 DEF Closes, Ended, Dropped, Up, Fits, Handler
    <3>5. Takes(s, n)
      BY <2>1, <1>1 DEF Takes, Uses, Fits, Handler
    <3>6. Keeps(s, r, n)
      BY <2>1, <1>1, <1>5
         DEF Keeps, Holds, Reads, Faithful, First, Fits, Handler
    <3> QED
      BY <3>1, <3>2, <3>3, <3>4, <3>5, <3>6 DEF Advance
  <2>2. ASSUME NEW r \in Handler, NEW n, Fits(s, r), r.pc = "idle",
               carrier = "plain", read[Base] <= Chunks,
               n = [r EXCEPT !.pc = "fallback", !.wrapped = Base, !.fb = TRUE,
                             !.held = NextOf(Base)],
               open' = open, Take(Base), active' = active
        PROVE  Advance(s, r, n)
    <3>1. n \in Handler
      BY <2>2, <1>1, <1>3 DEF Handler, PCs
    <3>2. Fits(s, n)
      BY <2>2, <1>1 DEF Fits, Handler
    <3>3. Moves(s, r, n) /\ Counts(r, n)
      BY <2>2, <1>1 DEF Moves, Counts, Uses, Reads, Fits, Handler
    <3>4. Closes(s, r, n)
      BY <2>2, <1>1 DEF Closes, Ended, Dropped, Up, Fits, Handler
    <3>5. Takes(s, n)
      BY <2>2, <1>1 DEF Takes, Uses, Fits, Handler
    <3>6. Keeps(s, r, n)
      BY <2>2, <1>1, <1>5
         DEF Keeps, Holds, Reads, Faithful, First, Fits, Handler, Take, NextOf
    <3> QED
      BY <3>1, <3>2, <3>3, <3>4, <3>5, <3>6 DEF Advance
  <2> QED
    BY <1>7, <1>1, <2>1, <2>2, <1>2 DEF AcceptPlain, At
<1>8. CASE GrpcNotH2(s)
  <2>1. ASSUME NEW r \in Handler, NEW n, Fits(s, r), r.pc = "idle",
               carrier = "grpc", read[Base] <= Chunks,
               n = [r EXCEPT !.pc = "fallback", !.wrapped = Base, !.fb = TRUE,
                             !.held = NextOf(Base)],
               open' = open, Take(Base), active' = active
        PROVE  Advance(s, r, n)
    <3>1. n \in Handler
      BY <2>1, <1>1, <1>3 DEF Handler, PCs
    <3>2. Fits(s, n)
      BY <2>1, <1>1 DEF Fits, Handler
    <3>3. Moves(s, r, n) /\ Counts(r, n)
      BY <2>1, <1>1 DEF Moves, Counts, Uses, Reads, Fits, Handler
    <3>4. Closes(s, r, n)
      BY <2>1, <1>1 DEF Closes, Ended, Dropped, Up, Fits, Handler
    <3>5. Takes(s, n)
      BY <2>1, <1>1 DEF Takes, Uses, Fits, Handler
    <3>6. Keeps(s, r, n)
      BY <2>1, <1>1, <1>5
         DEF Keeps, Holds, Reads, Faithful, First, Fits, Handler, Take, NextOf
    <3> QED
      BY <3>1, <3>2, <3>3, <3>4, <3>5, <3>6 DEF Advance
  <2> QED
    BY <1>8, <1>1, <2>1, <1>2 DEF GrpcNotH2, At
<1>9. CASE GrpcStream(s)
  <2>1. ASSUME NEW r \in Handler, NEW n, Fits(s, r), r.pc = "idle",
               carrier = "grpc", captured' = s,
               n = [r EXCEPT !.pc = "handoff"],
               open' = open \cup {s}, read' = read, active' = active
        PROVE  Advance(s, r, n)
    <3>1. n \in Handler
      BY <2>1, <1>1 DEF Handler, PCs
    <3>2. Fits(s, n)
      BY <2>1, <1>1 DEF Fits, Handler
    <3>3. Moves(s, r, n) /\ Counts(r, n)
      BY <2>1, <1>1 DEF Moves, Counts, Uses, Reads, Fits, Handler
    <3>4. Closes(s, r, n)
      BY <2>1, <1>1 DEF Closes, Ended, Dropped, Up, Fits, Handler
    <3>5. Takes(s, n)
      BY <2>1, <1>1 DEF Takes, Uses, Fits, Handler
    <3>6. Keeps(s, r, n)
      BY <2>1, <1>1, <1>5
         DEF Keeps, Holds, Reads, Faithful, First, Fits, Handler
    <3> QED
      BY <3>1, <3>2, <3>3, <3>4, <3>5, <3>6 DEF Advance
  <2> QED
    BY <1>9, <1>1, <2>1 DEF GrpcStream, At
<1>10. CASE GrpcWrongPath(s)
  <2>1. ASSUME NEW r \in Handler, NEW n, Fits(s, r), r.pc = "idle",
               carrier = "grpc",
               n = [r EXCEPT !.pc = "h2", !.wrapped = s, !.fb = TRUE],
               open' = open \cup {s}, read' = read, active' = active
        PROVE  Advance(s, r, n)
    <3>1. n \in Handler
      BY <2>1, <1>1 DEF Handler, PCs
    <3>2. Fits(s, n)
      BY <2>1, <1>1 DEF Fits, Handler
    <3>3. Moves(s, r, n) /\ Counts(r, n)
      BY <2>1, <1>1 DEF Moves, Counts, Uses, Reads, Fits, Handler
    <3>4. Closes(s, r, n)
      BY <2>1, <1>1 DEF Closes, Ended, Dropped, Up, Fits, Handler
    <3>5. Takes(s, n)
      BY <2>1, <1>1 DEF Takes, Uses, Fits, Handler
    <3>6. Keeps(s, r, n)
      BY <2>1, <1>1, <1>5
         DEF Keeps, Holds, Reads, Faithful, First, Fits, Handler
    <3> QED
      BY <3>1, <3>2, <3>3, <3>4, <3>5, <3>6 DEF Advance
  <2> QED
    BY <1>10, <1>1, <2>1 DEF GrpcWrongPath, At
<1>11. CASE QuicStream(s)
  <2>1. ASSUME NEW r \in Handler, NEW n, Fits(s, r), r.pc = "idle",
               carrier = "quic",
               n = [r EXCEPT !.pc = "handshake", !.wrapped = s],
               open' = open \cup {s}, read' = read, active' = active
        PROVE  Advance(s, r, n)
    <3>1. n \in Handler
      BY <2>1, <1>1 DEF Handler, PCs
    <3>2. Fits(s, n)
      BY <2>1, <1>1 DEF Fits, Handler
    <3>3. Moves(s, r, n) /\ Counts(r, n)
      BY <2>1, <1>1 DEF Moves, Counts, Uses, Reads, Fits, Handler
    <3>4. Closes(s, r, n)
      BY <2>1, <1>1 DEF Closes, Ended, Dropped, Up, Fits, Handler
    <3>5. Takes(s, n)
      BY <2>1, <1>1 DEF Takes, Uses, Fits, Handler
    <3>6. Keeps(s, r, n)
      BY <2>1, <1>1, <1>5
         DEF Keeps, Holds, Reads, Faithful, First, Fits, Handler
    <3> QED
      BY <3>1, <3>2, <3>3, <3>4, <3>5, <3>6 DEF Advance
  <2> QED
    BY <1>11, <1>1, <2>1, <1>2 DEF QuicStream, At
<1>12. CASE SmuxStream(s)
  <2>1. ASSUME NEW r \in Handler, NEW n, Fits(s, r), r.pc = "idle",
               carrier = "smux",
               n = [r EXCEPT !.pc = "handshake", !.wrapped = Base],
               open' = open \cup {s}, read' = read, active' = active
        PROVE  Advance(s, r, n)
    <3>1. n \in Handler
      BY <2>1, <1>1 DEF Handler, PCs
    <3>2. Fits(s, n)
      BY <2>1, <1>1 DEF Fits, Handler
    <3>3. Moves(s, r, n) /\ Counts(r, n)
      BY <2>1, <1>1 DEF Moves, Counts, Uses, Reads, Fits, Handler
    <3>4. Closes(s, r, n)
      BY <2>1, <1>1 DEF Closes, Ended, Dropped, Up, Fits, Handler
    <3>5. Takes(s, n)
      BY <2>1, <1>1 DEF Takes, Uses, Fits, Handler
    <3>6. Keeps(s, r, n)
      BY <2>1, <1>1, <1>5
         DEF Keeps, Holds, Reads, Faithful, First, Fits, Handler
    <3> QED
      BY <3>1, <3>2, <3>3, <3>4, <3>5, <3>6 DEF Advance
  <2> QED
    BY <1>12, <1>1, <2>1 DEF SmuxStream, At
<1>13. CASE SelfRequest(s)
  <2>1. ASSUME NEW r \in Handler, NEW n, Fits(s, r), r.pc = "idle",
               carrier = "self",
               n = [r EXCEPT !.pc = "payload", !.wrapped = s, !.lc = s,
                             !.kind = "tcp"],
               open' = open \cup {s}, Take(s), active' = active
        PROVE  Advance(s, r, n)
    <3>1. n \in Handler
      BY <2>1, <1>1 DEF Handler, PCs, Kinds
    <3>2. Fits(s, n)
      BY <2>1, <1>1 DEF Fits, Handler
    <3>3. Moves(s, r, n) /\ Counts(r, n)
      BY <2>1, <1>1 DEF Moves, Counts, Uses, Reads, Fits, Handler
    <3>4. Closes(s, r, n)
      BY <2>1, <1>1 DEF Closes, Ended, Dropped, Up, Fits, Handler
    <3>5. Takes(s, n)
      BY <2>1, <1>1 DEF Takes, Uses, Fits, Handler
    <3>6. Keeps(s, r, n)
      BY <2>1, <1>1, <1>5
         DEF Keeps, Holds, Reads, Faithful, First, Fits, Handler, Take
    <3> QED
      BY <3>1, <3>2, <3>3, <3>4, <3>5, <3>6 DEF Advance
  <2>2. ASSUME NEW r \in Handler, NEW n, Fits(s, r), r.pc = "idle",
               carrier = "self",
               n = [r EXCEPT !.pc = "payload", !.lc = s, !.kind = "udp"],
               open' = open \cup {s}, Take(s), active' = active
        PROVE  Advance(s, r, n)
    <3>1. n \in Handler
      BY <2>2, <1>1 DEF Handler, PCs, Kinds
    <3>2. Fits(s, n)
      BY <2>2, <1>1 DEF Fits, Handler
    <3>3. Moves(s, r, n) /\ Counts(r, n)
      BY <2>2, <1>1 DEF Moves, Counts, Uses, Reads, Fits, Handler
    <3>4. Closes(s, r, n)
      BY <2>2, <1>1 DEF Closes, Ended, Dropped, Up, Fits, Handler
    <3>5. Takes(s, n)
      BY <2>2, <1>1 DEF Takes, Uses, Fits, Handler
    <3>6. Keeps(s, r, n)
      BY <2>2, <1>1, <1>5
         DEF Keeps, Holds, Reads, Faithful, First, Fits, Handler, Take
    <3> QED
      BY <3>1, <3>2, <3>3, <3>4, <3>5, <3>6 DEF Advance
  <2> QED
    BY <1>13, <1>1, <2>1, <2>2, <1>2 DEF SelfRequest, At
<1>14. CASE GrpcHandoff(s)
  <2>1. ASSUME NEW r \in Handler, NEW n, Fits(s, r), r.pc = "handoff",
               captured \in Conns, carrier = "grpc",
               n = [r EXCEPT !.pc = "handshake", !.wrapped = captured],
               open' = open, read' = read, active' = active
        PROVE  Advance(s, r, n)
    <3>1. n \in Handler
      BY <2>1, <1>1, <1>2 DEF Handler, PCs
    <3>2. Fits(s, n)
      BY <2>1, <1>1, <1>2 DEF Fits, Handler
    <3>3. Moves(s, r, n) /\ Counts(r, n)
      BY <2>1, <1>1, <1>2 DEF Moves, Counts, Uses, Reads, Fits, Handler
    <3>4. Closes(s, r, n)
      BY <2>1, <1>1, <1>2 DEF Closes, Ended, Dropped, Up, Fits, Handler
    <3>5. Takes(s, n)
      BY <2>1, <1>1, <1>2 DEF Takes, Uses, Fits, Handler
    <3>6. Keeps(s, r, n)
      BY <2>1, <1>1, <1>2, <1>5
         DEF Keeps, Holds, Reads, Faithful, First, Fits, Handler
    <3> QED
      BY <3>1, <3>2, <3>3, <3>4, <3>5, <3>6 DEF Advance
  <2> QED
    BY <1>14, <1>1, <2>1, <1>2 DEF GrpcHandoff, At
<1>15. CASE HandshakeOk(s)
  <2>1. ASSUME NEW r \in Handler, NEW n, Fits(s, r), NEW k \in {"tcp", "udp"},
               r.pc = "handshake", carrier = "smux",
               n = [r EXCEPT !.pc = "payload", !.lc = s, !.kind = k,
                             !.inner = TRUE],
               open' = open, Take(s), active' = active
        PROVE  Advance(s, r, n)
    <3>1. n \in Handler
      BY <2>1, <1>1 DEF Handler, PCs, Kinds
    <3>2. Fits(s, n)
      BY <2>1, <1>1 DEF Fits, Handler
    <3>3. Moves(s, r, n) /\ Counts(r, n)
      BY <2>1, <1>1 DEF Moves, Counts, Uses, Reads, Fits, Handler
    <3>4. Closes(s, r, n)
      BY <2>1, <1>1 DEF Closes, Ended, Dropped, Up, Fits, Handler
    <3>5. Takes(s, n)
      BY <2>1, <1>1 DEF Takes, Uses, Fits, Handler
    <3>6. Keeps(s, r, n)
      BY <2>1, <1>1, <1>5
         DEF Keeps, Holds, Reads, Faithful, First, Fits, Handler, Take
    <3> QED
      BY <3>1, <3>2, <3>3, <3>4, <3>5, <3>6 DEF Advance
  <2>2. ASSUME NEW r \in Handler, NEW n, Fits(s, r), NEW k \in {"tcp", "udp"},
               r.pc = "handshake", carrier # "smux",
               n = [r EXCEPT !.pc = "payload", !.lc = r.wrapped, !.kind = k,
                             !.inner = FALSE],
               open' = open, Take(r.wrapped), active' = active
        PROVE  Advance(s, r, n)
    <3>1. n \in Handler
      BY <2>2, <1>1 DEF Fits, Handler, PCs, Kinds
    <3>2. Fits(s, n)
      BY <2>2, <1>1 DEF Fits, Handler
    <3>3. Moves(s, r, n) /\ Counts(r, n)
      BY <2>2, <1>1 DEF Moves, Counts, Uses, Reads, Fits, Handler
    <3>4. Closes(s, r, n)
      BY <2>2, <1>1 DEF Closes, Ended, Dropped, Up, Fits, Handler
    <3>5. Takes(s, n)
      BY <2>2, <1>1 DEF Takes, Uses, Fits, Handler
    <3>6. Keeps(s, r, n)
      BY <2>2, <1>1, <1>5
         DEF Keeps, Holds, Reads, Faithful, First, Fits, Handler, Take
    <3> QED
      BY <3>1, <3>2, <3>3, <3>4, <3>5, <3>6 DEF Advance
  <2>3. ASSUME NEW r \in Handler, NEW n, Fits(s, r), r.pc = "handshake",
               carrier = "plain",
               n = [r EXCEPT !.pc = "assoc", !.lc = s, !.kind = "assoc"],
               open' = open \cup {s}, Take(r.wrapped), active' = active
        PROVE  Advance(s, r, n)
    <3>1. n \in Handler
      BY <2>3, <1>1 DEF Handler, PCs, Kinds
    <3>2. Fits(s, n)
      BY <2>3, <1>1 DEF Fits, Handler
    <3>3. Moves(s, r, n) /\ Counts(r, n)
      BY <2>3, <1>1 DEF Moves, Counts, Uses, Reads, Fits, Handler
    <3>4. Closes(s, r, n)
      BY <2>3, <1>1 DEF Closes, Ended, Dropped, Up, Fits, Handler
    <3>5. Takes(s, n)
      BY <2>3, <1>1 DEF Takes, Uses, Fits, Handler
    <3>6. Keeps(s, r, n)
      BY <2>3, <1>1, <1>5
         DEF Keeps, Holds, Reads, Faithful, First, Fits, Handler, Take
    <3> QED
      BY <3>1, <3>2, <3>3, <3>4, <3>5, <3>6 DEF Advance
  <2>4. CASE \E k \in {"tcp", "udp"} :
               Becomes(s, [h[s] EXCEPT !.pc = "payload", !.lc = Source(s),
                                       !.kind = k, !.inner = (carrier = "smux")])
             /\ UNCHANGED open
    <3>1. PICK k \in {"tcp", "udp"} :
            Becomes(s, [h[s] EXCEPT !.pc = "payload", !.lc = Source(s),
                                    !.kind = k, !.inner = (carrier = "smux")])
      BY <2>4
    <3>2. h[s].pc = "handshake" /\ Take(Source(s)) /\ open' = open /\ active' = active
      BY <1>15, <2>4 DEF HandshakeOk, At
    <3>3. CASE carrier = "smux"
      <4>1. Becomes(s, [h[s] EXCEPT !.pc = "payload", !.lc = s, !.kind = k,
                                    !.inner = TRUE])
        BY <3>1, <3>3 DEF Source
      <4>2. Take(s)
        BY <3>2, <3>3 DEF Source
      <4> QED
        BY <1>1, <2>1, <3>2, <3>3, <4>1, <4>2
    <3>4. CASE carrier # "smux"
      <4>1. Becomes(s, [h[s] EXCEPT !.pc = "payload", !.lc = h[s].wrapped,
                                    !.kind = k, !.inner = FALSE])
        BY <3>1, <3>4 DEF Source
      <4>2. Take(h[s].wrapped)
        BY <3>2, <3>4 DEF Source
      <4> QED
        BY <1>1, <2>2, <3>2, <3>4, <4>1, <4>2
    <3> QED
      BY <3>3, <3>4
  <2>5. CASE /\ carrier = "plain"
             /\ Becomes(s, [h[s] EXCEPT !.pc = "assoc", !.lc = s, !.kind = "assoc"])
             /\ open' = open \cup {s}
    <3>1. h[s].pc = "handshake" /\ Take(h[s].wrapped) /\ active' = active
      BY <1>15, <2>5 DEF HandshakeOk, At, Source
    <3> QED
      BY <1>1, <2>3, <2>5, <3>1
  <2> QED
    BY <1>15, <2>4, <2>5 DEF HandshakeOk
<1>16. CASE HandshakeInvalid(s)
  <2>1. ASSUME NEW r \in Handler, NEW n, Fits(s, r), NEW c \in Conns,
               read[c] <= Chunks,
               c = IF carrier = "smux" THEN s ELSE r.wrapped,
               r.pc = "handshake",
               n = [r EXCEPT !.pc = "fallback", !.fb = TRUE,
                             !.held = NextOf(c)],
               open' = open, Take(c), active' = active
        PROVE  Advance(s, r, n)
    <3>1. n \in Handler
      BY <2>1, <1>1, <1>3 DEF Handler, PCs
    <3>2. Fits(s, n)
      BY <2>1, <1>1 DEF Fits, Handler
    <3>3. Moves(s, r, n) /\ Counts(r, n)
      BY <2>1, <1>1 DEF Moves, Counts, Uses, Reads, Fits, Handler
    <3>4. Closes(s, r, n)
      BY <2>1, <1>1 DEF Closes, Ended, Dropped, Up, Fits, Handler
    <3>5. Takes(s, n)
      BY <2>1, <1>1 DEF Takes, Uses, Fits, Handler
    <3>6. Keeps(s, r, n)
      BY <2>1, <1>1, <1>5
         DEF Keeps, Holds, Reads, Faithful, First, Fits, Handler, Take, NextOf
    <3> QED
      BY <3>1, <3>2, <3>3, <3>4, <3>5, <3>6 DEF Advance
  <2> QED
    BY <1>16, <1>1, <2>1, <1>4 DEF HandshakeInvalid, At, Source, CanRead
<1>17. CASE HandshakeFailed(s)
  BY <1>17, <1>1, <1>4, <1>6 DEF HandshakeFailed, At, HangUp, Source, CanRead
<1>18. CASE AssocFirst(s)
  <2>1. ASSUME NEW r \in Handler, NEW n, Fits(s, r), r.pc = "assoc",
               read[s] <= Chunks,
               n = [r EXCEPT !.pc = "payload", !.held = NextOf(s)],
               open' = open, Take(s), active' = active
        PROVE  Advance(s, r, n)
    <3>1. n \in Handler
      BY <2>1, <1>1, <1>3 DEF Handler, PCs
    <3>2. Fits(s, n)
      BY <2>1, <1>1 DEF Fits, Handler
    <3>3. Moves(s, r, n) /\ Counts(r, n)
      BY <2>1, <1>1 DEF Moves, Counts, Uses, Reads, Fits, Handler
    <3>4. Closes(s, r, n)
      BY <2>1, <1>1 DEF Closes, Ended, Dropped, Up, Fits, Handler
    <3>5. Takes(s, n)
      BY <2>1, <1>1 DEF Takes, Uses, Fits, Handler
    <3>6. Keeps(s, r, n)
      BY <2>1, <1>1, <1>5
         DEF Keeps, Holds, Reads, Faithful, First, Fits, Handler, Take, NextOf
    <3> QED
      BY <3>1, <3>2, <3>3, <3>4, <3>5, <3>6 DEF Advance
  <2> QED
    BY <1>18, <1>1, <2>1, <1>6 DEF AssocFirst, At, HangUp, CanRead
<1>19. CASE Fallback(s)
  <2>1. ASSUME NEW r \in Handler, NEW n, Fits(s, r), r.pc = "fallback",
               n = [r EXCEPT !.pc = "payload", !.lc = r.wrapped,
                             !.kind = "tcp"],
               open' = open, read' = read, active' = active
        PROVE  Advance(s, r, n)
    <3>1. n \in Handler
      BY <2>1, <1>1 DEF Fits, Handler, PCs, Kinds
    <3>2. Fits(s, n)
      BY <2>1, <1>1 DEF Fits, Handler
    <3>3. Moves(s, r, n) /\ Counts(r, n)
      BY <2>1, <1>1 DEF Moves, Counts, Uses, Reads, Fits, Handler
    <3>4. Closes(s, r, n)
      BY <2>1, <1>1 DEF Closes, Ended, Dropped, Up, Fits, Handler
    <3>5. Takes(s, n)
      BY <2>1, <1>1 DEF Takes, Uses, Fits, Handler
    <3>6. Keeps(s, r, n)
      <4>1. /\ n.pc = "payload" /\ n.lc = r.wrapped /\ n.lc # None /\ n.held = r.held
            /\ n.fb /\ r.fb /\ n.wrapped = r.wrapped /\ n.up = <<>> /\ n.upDir = "off"
            /\ r.lc = None /\ r.pc = "fallback"
        BY <2>1 DEF Fits, Handler
      <4>2. Faithful(n) /\ First(n) = 0
        BY <4>1 DEF Faithful, First
      <4>3. carrier # "smux" => Reads(s, n) = r.wrapped /\ Reads(s, r) = r.wrapped
        BY <4>1 DEF Reads
      <4> QED
        BY <2>1, <4>1, <4>2, <4>3 DEF Keeps, Holds
    <3> QED
      BY <3>1, <3>2, <3>3, <3>4, <3>5, <3>6 DEF Advance
  <2> QED
    BY <1>19, <1>1, <2>1, <1>6 DEF Fallback, At, HangUp
<1>20. CASE FirstPayload(s)
  <2>1. ASSUME NEW r \in Handler, NEW n, Fits(s, r), r.pc = "payload",
               n = [r EXCEPT !.pc = "dial"],
               open' = open, read' = read, active' = active
        PROVE  Advance(s, r, n)
    <3>1. n \in Handler
      BY <2>1, <1>1 DEF Handler, PCs
    <3>2. Fits(s, n)
      BY <2>1, <1>1 DEF Fits, Handler
    <3>3. Moves(s, r, n) /\ Counts(r, n)
      BY <2>1, <1>1 DEF Moves, Counts, Uses, Reads, Fits, Handler
    <3>4. Closes(s, r, n)
      BY <2>1, <1>1 DEF Closes, Ended, Dropped, Up, Fits, Handler
    <3>5. Takes(s, n)
      BY <2>1, <1>1 DEF Takes, Uses, Fits, Handler
    <3>6. Keeps(s, r, n)
      BY <2>1, <1>1, <1>5
         DEF Keeps, Holds, Reads, Faithful, First, Fits, Handler
    <3> QED
      BY <3>1, <3>2, <3>3, <3>4, <3>5, <3>6 DEF Advance
  <2>2. ASSUME NEW r \in Handler, NEW n, Fits(s, r), r.pc = "payload",
               r.held = <<>>, read[r.lc] <= Chunks,
               n = [r EXCEPT !.pc = "dial", !.held = NextOf(r.lc)],
               open' = open, Take(r.lc), active' = active
        PROVE  Advance(s, r, n)
    <3>1. n \in Handler
      BY <2>2, <1>1, <1>3 DEF Fits, Handler, PCs
    <3>2. Fits(s, n)
      BY <2>2, <1>1 DEF Fits, Handler
    <3>3. Moves(s, r, n) /\ Counts(r, n)
      BY <2>2, <1>1 DEF Moves, Counts, Uses, Reads, Fits, Handler
    <3>4. Closes(s, r, n)
      BY <2>2, <1>1 DEF Closes, Ended, Dropped, Up, Fits, Handler
    <3>5. Takes(s, n)
      BY <2>2, <1>1 DEF Takes, Uses, Fits, Handler
    <3>6. Keeps(s, r, n)
      BY <2>2, <1>1, <1>5
         DEF Keeps, Holds, Reads, Faithful, First, Fits, Handler, Take, NextOf
    <3> QED
      BY <3>1, <3>2, <3>3, <3>4, <3>5, <3>6 DEF Advance
  <2> QED
    BY <1>20, <1>1, <2>1, <2>2, <1>6 DEF FirstPayload, At, HangUp, CanRead
<1>21. CASE Return(s)
  <2>1. ASSUME NEW r \in Handler, NEW n, Fits(s, r), r.pc = "relay",
               r.downDir = "ended",
               n = [r EXCEPT !.pc = "done"],
               open' \subseteq open, read' = read, active' = active - 1
        PROVE  Advance(s, r, n)
    <3>1. n \in Handler
      BY <2>1, <1>1 DEF Handler, PCs
    <3>2. Fits(s, n)
      BY <2>1, <1>1 DEF Fits, Handler
    <3>3. Moves(s, r, n) /\ Counts(r, n)
      BY <2>1, <1>1 DEF Moves, Counts, Uses, Reads, Fits, Handler
    <3>4. Closes(s, r, n)
      BY <2>1, <1>1 DEF Closes, Ended, Dropped, Up, Fits, Handler
    <3>5. Takes(s, n)
      BY <2>1, <1>1 DEF Takes, Uses, Fits, Handler
    <3>6. Keeps(s, r, n)
      BY <2>1, <1>1, <1>5
         DEF Keeps, Holds, Reads, Faithful, First, Fits, Handler
    <3> QED
      BY <3>1, <3>2, <3>3, <3>4, <3>5, <3>6 DEF Advance
  <2>2. open' \subseteq open
    BY <1>21 DEF Return
  <2> QED
    BY <1>21, <1>1, <2>1, <2>2 DEF Return, At
<1>22. CASE FallbackH2(s)
  BY <1>22, <1>1, <1>4, <1>6 DEF FallbackH2, At, HangUp
<1>23. CASE Reject(s)
  <2>1. ASSUME NEW r \in Handler, NEW n, Fits(s, r), r.pc = "dial",
               n = [r EXCEPT !.pc = "done", !.failed = TRUE],
               open' \subseteq open \ {r.lc}, read' = read, active' = active
        PROVE  Advance(s, r, n)
    <3>1. n \in Handler
      BY <2>1, <1>1 DEF Handler, PCs
    <3>2. Fits(s, n)
      BY <2>1, <1>1 DEF Fits, Handler
    <3>3. Moves(s, r, n) /\ Counts(r, n)
      BY <2>1, <1>1 DEF Moves, Counts, Uses, Reads, Fits, Handler
    <3>4. Closes(s, r, n)
      BY <2>1, <1>1 DEF Closes, Ended, Dropped, Up, Fits, Handler
    <3>5. Takes(s, n)
      BY <2>1, <1>1 DEF Takes, Uses, Fits, Handler
    <3>6. Keeps(s, r, n)
      BY <2>1, <1>1, <1>5
         DEF Keeps, Holds, Reads, Faithful, First, Fits, Handler
    <3> QED
      BY <3>1, <3>2, <3>3, <3>4, <3>5, <3>6 DEF Advance
  <2>2. open' \subseteq open \ {h[s].lc}
    BY <1>23 DEF Reject
  <2> QED
    BY <1>23, <1>1, <2>1, <2>2 DEF Reject, At
<1>24. CASE DialFailed(s)
  <2>1. ASSUME NEW r \in Handler, NEW n, Fits(s, r), NEW mux \in BOOLEAN,
               NEW o \in {"none", "open"}, r.pc = "dial",
               mux \/ r.kind # "tcp" \/ r.lc \notin open',
               n = [r EXCEPT !.pc = "done", !.failed = TRUE, !.mux = mux,
                             !.out = o],
               open' \subseteq open, read' = read, active' = active
        PROVE  Advance(s, r, n)
    <3>1. n \in Handler
      BY <2>1, <1>1 DEF Handler, PCs
    <3>2. Fits(s, n)
      BY <2>1, <1>1 DEF Fits, Handler
    <3>3. Moves(s, r, n) /\ Counts(r, n)
      BY <2>1, <1>1 DEF Moves, Counts, Uses, Reads, Fits, Handler
    <3>4. Closes(s, r, n)
      BY <2>1, <1>1 DEF Closes, Ended, Dropped, Up, Fits, Handler
    <3>5. Takes(s, n)
      BY <2>1, <1>1 DEF Takes, Uses, Fits, Handler
    <3>6. Keeps(s, r, n)
      BY <2>1, <1>1, <1>5
         DEF Keeps, Holds, Reads, Faithful, First, Fits, Handler
    <3> QED
      BY <3>1, <3>2, <3>3, <3>4, <3>5, <3>6 DEF Advance
  <2>2. ASSUME NEW mux \in BOOLEAN,
               \/ open' = open \ Deferred(s, mux)
               \/ open' = open \ (Deferred(s, mux) \cup {Base})
        PROVE  /\ open' \subseteq open
               /\ mux \/ h[s].kind # "tcp" \/ h[s].lc \notin open'
    BY <2>2, <1>1 DEF Deferred, Conns, IControl, Types
  <2> QED
    BY <1>24, <1>1, <2>1, <2>2 DEF DialFailed, At
<1>25. CASE DialOk(s)
  <2>1. ASSUME NEW r \in Handler, NEW n, Fits(s, r), NEW b \in BOOLEAN,
               r.pc = "dial",
               n = [r EXCEPT !.pc = "relay", !.cone = b, !.out = "open",
                             !.up = r.held, !.held = <<>>, !.upDir = "on",
                             !.downDir = "on"],
               open' = open, read' = read, active' = active + 1
        PROVE  Advance(s, r, n)
    <3>1. n \in Handler
      BY <2>1, <1>1, EmptySeq DEF Handler, PCs, Ends
    <3>2. Fits(s, n)
      BY <2>1, <1>1 DEF Fits, Handler
    <3>3. Moves(s, r, n) /\ Counts(r, n)
      BY <2>1, <1>1 DEF Moves, Counts, Uses, Reads, Fits, Handler
    <3>4. Closes(s, r, n)
      BY <2>1, <1>1 DEF Closes, Ended, Dropped, Up, Fits, Handler
    <3>5. Takes(s, n)
      BY <2>1, <1>1 DEF Takes, Uses, Fits, Handler
    <3>6. Keeps(s, r, n)
      <4>1. /\ n.pc = "relay" /\ r.pc = "dial" /\ n.lc = r.lc /\ n.lc # None
            /\ n.fb = r.fb /\ n.kind = r.kind /\ n.up = r.held
        BY <2>1 DEF Fits, Handler
      <4>2. First(n) = First(r) /\ First(n) \in Nat
            /\ Reads(s, n) = r.lc /\ Reads(s, r) = r.lc
        BY <4>1 DEF First, Reads
      <4>3. ASSUME r.held = <<>> PROVE Faithful(n) /\ Len(n.up) = 0
        BY <4>1, <4>3 DEF Faithful
      <4>4. ASSUME r.held = <<<<r.lc, First(r)>>>> PROVE Faithful(n) /\ Len(n.up) = 1
        <5>1. Len(n.up) = 1 /\ n.up[1] = <<n.lc, First(n)>>
          BY <4>1, <4>2, <4>4
        <5> QED
          BY <4>2, <5>1 DEF Faithful
      <4>5. ASSUME Holds(r, read[r.lc]) PROVE Holds(n, read[r.lc])
        <5>1. \/ r.held = <<>> /\ read[r.lc] = First(r)
              \/ r.held = <<<<r.lc, First(r)>>>> /\ read[r.lc] = First(r) + 1
          BY <4>1, <4>5 DEF Holds
        <5>2. Faithful(n) /\ read[r.lc] = First(n) + Len(n.up)
          <6>1. CASE r.held = <<>> /\ read[r.lc] = First(r)
            <7>1. Faithful(n) /\ Len(n.up) = 0
              BY <4>3, <6>1
            <7> QED
              BY <4>2, <6>1, <7>1
          <6>2. CASE r.held = <<<<r.lc, First(r)>>>> /\ read[r.lc] = First(r) + 1
            <7>1. Faithful(n) /\ Len(n.up) = 1
              BY <4>4, <6>2
            <7> QED
              BY <4>2, <6>2, <7>1
          <6> QED
            BY <5>1, <6>1, <6>2
        <5> QED
          BY <4>1, <5>2 DEF Holds
      <4> QED
        BY <2>1, <4>2, <4>5 DEF Keeps
    <3> QED
      BY <3>1, <3>2, <3>3, <3>4, <3>5, <3>6 DEF Advance
  <2> QED
    BY <1>25, <1>1, <2>1 DEF DialOk, At
<1>26. CASE RelayUp(s)
  <2>1. ASSUME NEW r \in Handler, NEW n, Fits(s, r), r.upDir = "on",
               read[r.lc] <= Chunks,
               n = [r EXCEPT !.up = r.up \o NextOf(r.lc)],
               open' = open, Take(r.lc), active' = active
        PROVE  Advance(s, r, n)
    <3>1. n \in Handler
      BY <2>1, <1>1, <1>3, ConcatProperties DEF Fits, Handler
    <3>2. Fits(s, n)
      BY <2>1, <1>1 DEF Fits, Handler
    <3>3. Moves(s, r, n) /\ Counts(r, n)
      BY <2>1, <1>1 DEF Moves, Counts, Uses, Reads, Fits, Handler
    <3>4. Closes(s, r, n)
      BY <2>1, <1>1 DEF Closes, Ended, Dropped, Up, Fits, Handler
    <3>5. Takes(s, n)
      BY <2>1, <1>1 DEF Takes, Uses, Fits, Handler
    <3>6. Keeps(s, r, n)
      <4>1. /\ n.pc = r.pc /\ r.pc \in {"relay", "done"} /\ n.lc = r.lc
            /\ n.lc # None /\ n.lc \in Conns /\ n.fb = r.fb /\ n.kind = r.kind
            /\ n.up = r.up \o NextOf(r.lc) /\ n.upDir = "on" /\ r.up \in Seq(Chunk)
        BY <2>1 DEF Fits, Handler
      <4>2. First(n) = First(r) /\ First(n) \in Nat
            /\ Reads(s, n) = r.lc /\ Reads(s, r) = r.lc
        BY <4>1 DEF First, Reads
      <4>3. /\ Len(n.up) = Len(r.up) + 1 /\ Len(r.up) \in Nat
            /\ \A i \in 1..Len(r.up) : n.up[i] = r.up[i]
            /\ n.up[Len(r.up) + 1] = <<r.lc, read[r.lc]>>
        BY <1>3, <2>1, <4>1, ConcatProperties, LenProperties DEF NextOf
      <4>4. ASSUME Holds(r, read[r.lc]) PROVE Holds(n, read[r.lc] + 1)
        <5>1. read[r.lc] = First(r) + Len(r.up) /\ Faithful(r)
          BY <2>1, <4>4 DEF Holds
        <5>2. \A i \in 1..Len(n.up) : n.up[i] = <<n.lc, First(n) + i - 1>>
          <6>1. ASSUME NEW i \in 1..Len(r.up)
                PROVE  n.up[i] = <<n.lc, First(n) + i - 1>>
            BY <4>1, <4>2, <4>3, <5>1 DEF Faithful
          <6>2. n.up[Len(r.up) + 1] = <<n.lc, First(n) + (Len(r.up) + 1) - 1>>
            BY <4>1, <4>2, <4>3, <5>1
          <6>3. \A i \in 1..Len(n.up) : i \in 1..Len(r.up) \/ i = Len(r.up) + 1
            BY <4>3
          <6> QED
            BY <6>1, <6>2, <6>3
        <5>3. read[r.lc] + 1 = First(n) + Len(n.up)
          BY <4>2, <4>3, <5>1
        <5> QED
          BY <4>1, <5>2, <5>3 DEF Holds, Faithful
      <4>5. read'[r.lc] = read[r.lc] + 1
        BY <2>1, <1>5, <4>1 DEF Take
      <4> QED
        BY <4>2, <4>4, <4>5 DEF Keeps
    <3> QED
      BY <3>1, <3>2, <3>3, <3>4, <3>5, <3>6 DEF Advance
  <2> QED
    BY <1>26, <1>1, <2>1 DEF RelayUp, At, CanRead
<1>27. CASE RelayUpEnd(s)
  <2>1. ASSUME NEW r \in Handler, NEW n, Fits(s, r), r.upDir = "on",
               r.cone \/ r.lc \notin open',
               n = [r EXCEPT !.upDir = "ended", !.out = "closed"],
               open' \subseteq open, read' = read \/ Take(r.lc),
               active' = active
        PROVE  Advance(s, r, n)
    <3>1. n \in Handler
      BY <2>1, <1>1 DEF Handler, Ends
    <3>2. Fits(s, n)
      BY <2>1, <1>1 DEF Fits, Handler
    <3>3. Moves(s, r, n) /\ Counts(r, n)
      BY <2>1, <1>1 DEF Moves, Counts, Uses, Reads, Fits, Handler
    <3>4. Closes(s, r, n)
      BY <2>1, <1>1 DEF Closes, Ended, Dropped, Up, Fits, Handler
    <3>5. Takes(s, n)
      BY <2>1, <1>1 DEF Takes, Uses, Fits, Handler
    <3>6. Keeps(s, r, n)
      BY <2>1, <1>1, <1>5
         DEF Keeps, Holds, Reads, Faithful, First, Fits, Handler, Take
    <3> QED
      BY <3>1, <3>2, <3>3, <3>4, <3>5, <3>6 DEF Advance
  <2> QED
    BY <1>27, <1>1, <2>1 DEF RelayUpEnd, At, CanRead, CloseLc
<1>28. CASE RelayDownEnd(s)
  <2>1. ASSUME NEW r \in Handler, NEW n, Fits(s, r), r.downDir = "on",
               r.cone \/ r.lc \notin open',
               n = [r EXCEPT !.downDir = "ended", !.out = "closed"],
               open' \subseteq open, read' = read, active' = active
        PROVE  Advance(s, r, n)
    <3>1. n \in Handler
      BY <2>1, <1>1 DEF Handler, Ends
    <3>2. Fits(s, n)
      BY <2>1, <1>1 DEF Fits, Handler
    <3>3. Moves(s, r, n) /\ Counts(r, n)
      BY <2>1, <1>1 DEF Moves, Counts, Uses, Reads, Fits, Handler
    <3>4. Closes(s, r, n)
      BY <2>1, <1>1 DEF Closes, Ended, Dropped, Up, Fits, Handler
    <3>5. Takes(s, n)
      BY <2>1, <1>1 DEF Takes, Uses, Fits, Handler
    <3>6. Keeps(s, r, n)
      BY <2>1, <1>1, <1>5
         DEF Keeps, Holds, Reads, Faithful, First, Fits, Handler
    <3> QED
      BY <3>1, <3>2, <3>3, <3>4, <3>5, <3>6 DEF Advance
  <2> QED
    BY <1>28, <1>1, <2>1 DEF RelayDownEnd, At, CloseLc
<1> QED
  BY <1>7, <1>8, <1>9, <1>10, <1>11, <1>12, <1>13, <1>14, <1>15, <1>16,
     <1>17, <1>18, <1>19, <1>20, <1>21, <1>22, <1>23, <1>24, <1>25, <1>26,
     <1>27, <1>28
     DEF HandlerStep, Accept, Prompt, Dial

(* What such a step does to the other variables. *)
LEMMA HandlerFrame ==
  ASSUME IControl, NEW s \in Subs, HandlerStep(s)
  PROVE  /\ carrier' = carrier /\ stage' \in {"serving", "over"}
         /\ captured' \in {captured, s}
         /\ read' \in [Conns -> 0..(Chunks + 1)]
<1>1. /\ stage \in {"setup", "serving", "over"} /\ open \subseteq Conns
      /\ read \in [Conns -> 0..(Chunks + 1)] /\ s \in Conns /\ Base \in Conns
      /\ stage = "setup" => h[s].pc = "idle" /\ h[s].upDir = "off" /\ h[s].downDir = "off"
      /\ stage = "setup" => \A c \in Conns : read[c] = 0
      /\ Chunks \in Nat
  BY ChunksAssumption DEF IControl, Types, Conns, Fits, At
<1>2. ASSUME NEW c, Take(c), c \in Conns => read[c] <= Chunks
      PROVE  read' \in [Conns -> 0..(Chunks + 1)]
  <2>1. read' = [read EXCEPT ![c] = read[c] + 1]
    BY <1>2 DEF Take
  <2>2. c \in Conns => read[c] + 1 \in 0..(Chunks + 1)
    BY <1>1, <1>2
  <2> QED
    BY <1>1, <2>1, <2>2
<1>3. CASE AcceptPlain(s)
  BY <1>3, <1>1, <1>2 DEF AcceptPlain, At
<1>4. CASE GrpcNotH2(s)
  BY <1>4, <1>1, <1>2 DEF GrpcNotH2, At
<1>5. CASE GrpcStream(s)
  BY <1>5, <1>1, <1>2 DEF GrpcStream, At
<1>6. CASE GrpcWrongPath(s)
  BY <1>6, <1>1, <1>2 DEF GrpcWrongPath, At
<1>7. CASE QuicStream(s)
  BY <1>7, <1>1, <1>2 DEF QuicStream, At
<1>8. CASE SmuxStream(s)
  BY <1>8, <1>1, <1>2 DEF SmuxStream, At
<1>9. CASE SelfRequest(s)
  BY <1>9, <1>1, <1>2 DEF SelfRequest, At
<1>10. CASE GrpcHandoff(s)
  BY <1>10, <1>1, <1>2 DEF GrpcHandoff, At
<1>11. CASE HandshakeOk(s)
  BY <1>11, <1>1, <1>2 DEF HandshakeOk, At, CanRead
<1>12. CASE HandshakeInvalid(s)
  BY <1>12, <1>1, <1>2 DEF HandshakeInvalid, At, CanRead
<1>13. CASE HandshakeFailed(s)
  BY <1>13, <1>1, <1>2 DEF HandshakeFailed, At, CanRead, HangUp
<1>14. CASE AssocFirst(s)
  BY <1>14, <1>1, <1>2 DEF AssocFirst, At, CanRead, HangUp
<1>15. CASE Fallback(s)
  BY <1>15, <1>1, <1>2 DEF Fallback, At, HangUp
<1>16. CASE FirstPayload(s)
  BY <1>16, <1>1, <1>2 DEF FirstPayload, At, CanRead, HangUp
<1>17. CASE Return(s)
  BY <1>17, <1>1, <1>2 DEF Return, At
<1>18. CASE FallbackH2(s)
  BY <1>18, <1>1, <1>2 DEF FallbackH2, At, HangUp
<1>19. CASE Reject(s)
  BY <1>19, <1>1, <1>2 DEF Reject, At
<1>20. CASE DialFailed(s)
  BY <1>20, <1>1, <1>2 DEF DialFailed, At
<1>21. CASE DialOk(s)
  BY <1>21, <1>1, <1>2 DEF DialOk, At
<1>22. CASE RelayUp(s)
  BY <1>22, <1>1, <1>2 DEF RelayUp, At, CanRead
<1>23. CASE RelayUpEnd(s)
  BY <1>23, <1>1, <1>2 DEF RelayUpEnd, At, CanRead, CloseLc
<1>24. CASE RelayDownEnd(s)
  BY <1>24, <1>1, <1>2 DEF RelayDownEnd, At, CloseLc
<1> QED
  BY <1>3, <1>4, <1>5, <1>6, <1>7, <1>8, <1>9, <1>10, <1>11, <1>12, <1>13,
     <1>14, <1>15, <1>16, <1>17, <1>18, <1>19, <1>20, <1>21, <1>22, <1>23,
     <1>24
     DEF HandlerStep, Accept, Prompt, Dial

(* A step of one handler is an advance of its record and of no other.      *)
LEMMA HandlerAdvances ==
  ASSUME IControl, NEW s \in Subs, HandlerStep(s)
  PROVE  /\ h' \in [Subs -> Handler]
         /\ \A t \in Subs \ {s} : h'[t] = h[t]
         /\ Advance(s, h[s], h'[s])
<1>1. PICK n : Becomes(s, n) /\ Advance(s, h[s], n)
  BY HandlerSteps
<1>2. n \in Handler /\ h \in [Subs -> Handler]
  BY <1>1 DEF Advance, IControl, Types
<1>3. h'[s] = n /\ h' \in [Subs -> Handler] /\ \A t \in Subs \ {s} : h'[t] = h[t]
  BY <1>1, <1>2 DEF Becomes
<1> QED
  BY <1>1, <1>3

(* The steps that are not of a handler.                                    *)
LEMMA OtherSteps ==
  ASSUME IControl, RefusePlain \/ GrpcPreface \/ SmuxServe \/ ServeEnds \/ UNCHANGED vars
  PROVE  /\ UNCHANGED <<carrier, captured, h, read, active>>
         /\ open' \subseteq open
         /\ stage' \in {"serving", "over"} \/ UNCHANGED stage
BY DEF RefusePlain, GrpcPreface, SmuxServe, ServeEnds, vars

LEMMA NextSteps ==
  ASSUME [Next]_vars
  PROVE  \/ \E s \in Subs : HandlerStep(s)
         \/ RefusePlain \/ GrpcPreface \/ SmuxServe \/ ServeEnds \/ UNCHANGED vars
BY DEF Next, HandlerStep, Terminated

-----------------------------------------------------------------------------
LEMMA ControlInvariance == Spec => []IControl
<1> USE ConnsAssumption, ChunksAssumption
<1>1. Init => IControl
  <2> SUFFICES ASSUME Init PROVE IControl
    OBVIOUS
  <2>1. Idle \in Handler /\ \A s \in Subs : Fits(s, Idle)
    BY EmptySeq DEF Idle, Handler, Fits, PCs, Kinds, Ends
  <2>2. \A s \in Subs : ~At(s, "handoff")
    BY DEF Init, Idle, At
  <2>3. 0 \in 0..(Chunks + 1)
    OBVIOUS
  <2>4. Types
    BY <2>1, <2>3 DEF Init, Types, Conns
  <2> QED
    BY <2>1, <2>2, <2>4 DEF Init, IControl, Idle, At
<1>2. IControl /\ [Next]_vars => IControl'
  <2> SUFFICES ASSUME IControl, [Next]_vars
               PROVE  IControl'
    OBVIOUS
  <2>1. ASSUME NEW s \in Subs, HandlerStep(s) PROVE IControl'
    <3>1. /\ h' \in [Subs -> Handler] /\ \A t \in Subs \ {s} : h'[t] = h[t]
          /\ Fits(s, h'[s]) /\ Moves(s, h[s], h'[s]) /\ Closes(s, h[s], h'[s])
      BY <2>1, HandlerAdvances DEF Advance
    <3>2. carrier' = carrier /\ stage' \in {"serving", "over"} /\ captured' \in {captured, s}
          /\ read' \in [Conns -> 0..(Chunks + 1)]
      BY <2>1, HandlerFrame
    <3>3. open' \subseteq Conns
      BY <3>1 DEF Closes, IControl, Types, Conns
    <3>4. ASSUME NEW t \in Subs PROVE Fits(t, h[t])'
      <4>1. Fits(t, h'[t])
        BY <3>1 DEF IControl
      <4> QED
        BY <3>2, <4>1 DEF Fits
    <3>5. captured' \in Conns \cup {None} /\ (captured # None => captured' # None)
      BY <3>2 DEF IControl, Types, Conns
    <3>6. ASSUME NEW t \in Subs, At(t, "handoff")' PROVE captured' # None
      BY <3>1, <3>5, <3>6 DEF IControl, Moves, At, Conns
    <3>7. Types'
      BY <3>1, <3>2, <3>3, <3>5 DEF IControl, Types
    <3> QED
      BY <3>2, <3>4, <3>6, <3>7 DEF IControl
  <2>2. CASE RefusePlain \/ GrpcPreface \/ SmuxServe \/ ServeEnds \/ UNCHANGED vars
    <3>1. /\ UNCHANGED <<carrier, captured, h, read>> /\ open' \subseteq open
          /\ stage' \in {"serving", "over"} \/ UNCHANGED stage
      BY <2>2, OtherSteps
    <3>2. Types'
      BY <3>1 DEF IControl, Types
    <3>3. ASSUME NEW t \in Subs PROVE Fits(t, h[t])'
      BY <3>1 DEF IControl, Fits
    <3> QED
      BY <3>1, <3>2, <3>3 DEF IControl, At
  <2> QED
    BY <2>1, <2>2, NextSteps
<1> QED
  BY <1>1, <1>2, PTL DEF Spec

(* An outbound connection outlives its handler only when the dialing       *)
(* failed after making it (dialClient_andRelay and the relay of tcp, udp). *)
THEOREM OutboundIsReleased == Spec => []OutboundReleased
<1>1. IControl => OutboundReleased
  BY DEF IControl, OutboundReleased, Fits, At
<1> QED
  BY <1>1, ControlInvariance, PTL

(* The end of a relay of tcp over a multiplexing listener does not close   *)
(* the connection that carries it and the streams of the others.           *)
THEOREM RelaySparesCarrier == Spec => RelayEndSparesCarrier
<1> DEFINE Spares(s) ==
      (/\ Shared /\ At(s, "relay") /\ h[s].kind = "tcp" /\ h[s].lc # Base
       /\ h[s] # h'[s] /\ Base \in open)
      => Base \in open'
<1>1. ASSUME IControl, [Next]_vars, NEW s \in Subs PROVE Spares(s)
  <2> SUFFICES ASSUME Shared, At(s, "relay"), h[s].kind = "tcp", h[s].lc # Base,
                      h[s] # h'[s], Base \in open
               PROVE  Base \in open'
    OBVIOUS
  <2>1. PICK t \in Subs : HandlerStep(t)
    BY <1>1, NextSteps, OtherSteps
  <2>2. t = s
    BY <1>1, <2>1, HandlerAdvances
  <2>3. RelayUp(s) \/ RelayUpEnd(s) \/ RelayDownEnd(s) \/ Return(s)
    <3>1. h[s].pc = "relay" /\ stage # "setup"
      BY <1>1 DEF At, IControl
    <3>2. ~Accept(s)
      BY <3>1 DEF At, Accept, AcceptPlain, GrpcNotH2, GrpcStream, GrpcWrongPath,
                  QuicStream, SmuxStream, SelfRequest
    <3>3. Prompt(s) => Return(s)
      BY <3>1 DEF At, Prompt, GrpcHandoff, HandshakeOk, HandshakeInvalid,
                  HandshakeFailed, AssocFirst, Fallback, FirstPayload
    <3>4. ~FallbackH2(s) /\ ~Dial(s)
      BY <3>1 DEF At, FallbackH2, Dial, Reject, DialFailed, DialOk
    <3> QED
      BY <2>1, <2>2, <3>2, <3>3, <3>4 DEF HandlerStep
  <2>4. CASE RelayUp(s)
    BY <2>4 DEF RelayUp
  <2>5. CASE RelayUpEnd(s)
    BY <2>5 DEF RelayUpEnd, CloseLc
  <2>6. CASE RelayDownEnd(s)
    BY <2>6 DEF RelayDownEnd, CloseLc
  <2>7. CASE Return(s)
    <3>1. carrier = "smux" => h[s].inner
      BY <1>1 DEF IControl, Fits, At
    <3>2. ~ClosesBase(s)
      BY <3>1 DEF Shared, ClosesBase
    <3> QED
      BY <2>7, <3>2 DEF Return, Deferred
  <2> QED
    BY <2>3, <2>4, <2>5, <2>6, <2>7
<1>2. IControl /\ [Next]_vars =>
        [\A s \in Subs :
           /\ Shared
           /\ At(s, "relay")
           /\ h[s].kind = "tcp"
           /\ h[s].lc # Base
           /\ h[s] # h'[s]
           /\ Base \in open
           => Base \in open']_vars
  BY <1>1
<1> QED
  BY <1>2, ControlInvariance, PTL DEF Spec, RelayEndSparesCarrier

-----------------------------------------------------------------------------
Relaying == {s \in Subs : At(s, "relay")}

(* The count that the program shows and hot loading reads goes up and down *)
(* with the relays.                                                        *)
THEOREM ActiveIsCounted == Spec => []ActiveCounted
<1>1. Init => ActiveCounted
  <2> SUFFICES ASSUME Init PROVE ActiveCounted
    OBVIOUS
  <2>1. Relaying = {}
    BY DEF Init, Idle, Relaying, At
  <2> QED
    BY <2>1, FS_EmptySet DEF Init, ActiveCounted, Relaying
<1>2. IControl /\ ActiveCounted /\ [Next]_vars => ActiveCounted'
  <2> SUFFICES ASSUME IControl, ActiveCounted, [Next]_vars
               PROVE  ActiveCounted'
    OBVIOUS
  <2>1. IsFiniteSet(Relaying) /\ active = Cardinality(Relaying)
    BY SubsAssumption, FS_Subset DEF ActiveCounted, Relaying
  <2>2. ASSUME NEW s \in Subs, HandlerStep(s)
        PROVE  active' = Cardinality(Relaying')
    <3>1. /\ \A t \in Subs \ {s} : At(t, "relay")' <=> At(t, "relay")
          /\ Counts(h[s], h'[s])
      BY <2>2, HandlerAdvances DEF Advance, At
    <3>2. CASE active' = active /\ (h'[s].pc = "relay" <=> h[s].pc = "relay")
      <4>1. Relaying' = Relaying
        BY <3>1, <3>2 DEF Relaying, At
      <4> QED
        BY <2>1, <3>2, <4>1
    <3>3. CASE active' = active + 1 /\ h'[s].pc = "relay" /\ h[s].pc # "relay"
      <4>1. Relaying' = Relaying \cup {s} /\ s \notin Relaying
        BY <3>1, <3>3 DEF Relaying, At
      <4> QED
        BY <2>1, <3>3, <4>1, FS_AddElement
    <3>4. CASE active' = active - 1 /\ h'[s].pc # "relay" /\ h[s].pc = "relay"
      <4>1. Relaying' = Relaying \ {s} /\ s \in Relaying
        BY <3>1, <3>4 DEF Relaying, At
      <4> QED
        BY <2>1, <3>4, <4>1, FS_RemoveElement
    <3> QED
      BY <3>1, <3>2, <3>3, <3>4 DEF Counts
  <2>3. CASE UNCHANGED <<h, active>>
    BY <2>1, <2>3 DEF Relaying, ActiveCounted, At
  <2> QED
    BY <2>2, <2>3, NextSteps, OtherSteps DEF Relaying, ActiveCounted
<1> QED
  BY <1>1, <1>2, ControlInvariance, PTL DEF Spec

(* Every variable has its type; what is read of a connection and the count *)
(* of relays stay in their bounds.                                         *)
THEOREM TypeCorrect == Spec => []TypeOK
<1>1. IControl /\ ActiveCounted => TypeOK
  <2> SUFFICES ASSUME IControl, ActiveCounted PROVE TypeOK
    OBVIOUS
  <2>1. active \in 0..Cardinality(Subs)
    <3>1. Relaying \subseteq Subs /\ active = Cardinality(Relaying)
      BY DEF Relaying, ActiveCounted
    <3> QED
      BY <3>1, SubsAssumption, FS_Subset, FS_CardinalityType
  <2> QED
    BY <2>1 DEF IControl, Types, TypeOK
<1> QED
  BY <1>1, ControlInvariance, ActiveIsCounted, PTL

-----------------------------------------------------------------------------
LEMMA ClosedInvariance == Spec => []IClosed
<1>1. Init => IClosed
  BY ConnsAssumption DEF Init, Idle, IClosed, Named, Ended, Dropped, Conns, At
<1>2. IControl /\ IClosed /\ [Next]_vars => IClosed'
  <2> SUFFICES ASSUME IControl, IClosed, [Next]_vars
               PROVE  IClosed'
    OBVIOUS
  <2>1. ASSUME NEW op, op \subseteq open, NEW r, Ended(r, open) /\ Dropped(r, open)
        PROVE  Ended(r, op) /\ Dropped(r, op)
    BY <2>1 DEF Ended, Dropped, Up
  <2>2. ASSUME NEW s \in Subs, HandlerStep(s) PROVE IClosed'
    <3>1. /\ \A t \in Subs \ {s} : h'[t] = h[t]
          /\ Moves(s, h[s], h'[s]) /\ Closes(s, h[s], h'[s])
          /\ carrier' = carrier /\ captured' \in {captured, s}
      BY <2>2, HandlerAdvances, HandlerFrame DEF Advance
    <3>2. Named'
      <4> SUFFICES ASSUME NEW c \in Subs, At(c, "idle")'
                   PROVE  captured' # c /\ \A t \in Subs : h'[t].wrapped # c /\ h'[t].lc # c
        BY DEF Named
      <4>1. c # s /\ At(c, "idle")
        BY <3>1 DEF Moves, At
      <4>2. captured # c /\ c # Base /\ \A t \in Subs : h[t].wrapped # c /\ h[t].lc # c
        BY <4>1, ConnsAssumption DEF IClosed, Named
      <4> QED
        BY <3>1, <4>1, <4>2 DEF Moves
    <3>3. Ended(h'[s], open') /\ Dropped(h'[s], open')
      BY <3>1 DEF IClosed, Closes
    <3>4. ASSUME NEW t \in Subs \ {s}
          PROVE  Ended(h[t], open') /\ Dropped(h[t], open')
      <4>1. CASE open' \subseteq open
        BY <2>1, <4>1 DEF IClosed
      <4>2. CASE /\ open' = open \cup {s}
                 /\ h[s].pc = "idle" \/ (h[s].pc = "handshake" /\ carrier = "plain")
        <5>1. h[t].wrapped # s /\ h[t].lc # s
          BY <4>2, ConnsAssumption DEF IClosed, Named, IControl, Fits, At, Conns
        <5>2. s # Base
          BY ConnsAssumption
        <5>3. /\ Up(h[t].lc, open') => Up(h[t].lc, open)
              /\ Up(h[t].wrapped, open') => Up(h[t].wrapped, open)
          BY <4>2, <5>1, <5>2 DEF Up
        <5> QED
          BY <5>3 DEF IClosed, Ended, Dropped
      <4> QED
        BY <3>1, <4>1, <4>2 DEF Closes
    <3>5. ASSUME NEW t \in Subs PROVE (Ended(h[t], open) /\ Dropped(h[t], open))'
      <4>1. Ended(h'[t], open') /\ Dropped(h'[t], open')
        BY <3>1, <3>3, <3>4
      <4> QED
        BY <3>1, <4>1 DEF Ended, Dropped, Up, Shared
    <3> QED
      BY <3>2, <3>5 DEF IClosed
  <2>3. CASE RefusePlain \/ GrpcPreface \/ SmuxServe \/ ServeEnds \/ UNCHANGED vars
    <3>1. UNCHANGED <<carrier, captured, h>> /\ open' \subseteq open
      BY <2>3, OtherSteps
    <3>2. Named'
      BY <3>1 DEF IClosed, Named, At
    <3>3. ASSUME NEW t \in Subs PROVE (Ended(h[t], open) /\ Dropped(h[t], open))'
      <4>1. Ended(h[t], open') /\ Dropped(h[t], open')
        BY <2>1, <3>1 DEF IClosed
      <4> QED
        BY <3>1, <4>1 DEF Ended, Dropped, Up, Shared
    <3> QED
      BY <3>2, <3>3 DEF IClosed
  <2> QED
    BY <2>2, <2>3, NextSteps
<1> QED
  BY <1>1, <1>2, ControlInvariance, PTL DEF Spec

(* A handler that has come to its end has closed the connection it worked  *)
(* on, with the exceptions the code has.                                   *)
THEOREM InboundIsReleased == Spec => []InboundReleased
<1>1. IControl /\ IClosed => InboundReleased
  <2> SUFFICES ASSUME IControl, IClosed,
                      NEW s \in Subs, At(s, "done"), h[s].upDir # "on"
               PROVE  LET c == IF h[s].lc = None THEN h[s].wrapped ELSE h[s].lc
                      IN  \/ ~Alive(c)
                          \/ h[s].failed /\ (h[s].mux \/ h[s].kind # "tcp")
                          \/ h[s].cone
                          \/ h[s].kind = "assoc" /\ h[s].out = "none"
    BY DEF InboundReleased
  <2>1. \A c : Alive(c) <=> Up(c, open)
    BY DEF Alive, Up
  <2>2. Ended(h[s], open) /\ Dropped(h[s], open) /\ h[s].pc = "done"
    BY DEF IClosed, At
  <2>3. CASE h[s].upDir = "off"
    BY <2>1, <2>2, <2>3 DEF Dropped
  <2>4. CASE h[s].upDir = "ended"
    <3>1. h[s].lc # None
      BY <2>4 DEF IControl, Fits
    <3> QED
      BY <2>1, <2>2, <2>4, <3>1 DEF Ended
  <2>5. h[s].upDir \in {"off", "on", "ended"}
    BY DEF IControl, Types, Handler, Ends
  <2> QED
    BY <2>3, <2>4, <2>5
<1> QED
  BY <1>1, ControlInvariance, ClosedInvariance, PTL

-----------------------------------------------------------------------------
LEMMA HaveInvariance == Spec => []IHave
<1> USE ConnsAssumption, ChunksAssumption
<1>1. Init => IHave
  <2> SUFFICES ASSUME Init PROVE IHave
    OBVIOUS
  <2>1. Unread
    BY DEF Init, Unread
  <2>2. Holds(Idle, 0) /\ \A q : Holds(Idle, q)
    BY DEF Idle, Holds, Faithful, First
  <2> QED
    BY <2>1, <2>2 DEF Init, IHave, Have
<1>2. IControl /\ IHave /\ [Next]_vars => IHave'
  <2> SUFFICES ASSUME IControl, IHave, [Next]_vars
               PROVE  IHave'
    OBVIOUS
  <2>1. ASSUME NEW s \in Subs, HandlerStep(s) PROVE IHave'
    <3> DEFINE r == h[s]
               n == h'[s]
    <3>1. /\ \A t \in Subs \ {s} : h'[t] = h[t]
          /\ Fits(s, n) /\ Moves(s, r, n) /\ Takes(s, n) /\ Keeps(s, r, n)
          /\ n \in Handler /\ carrier' = carrier
      BY <2>1, HandlerAdvances, HandlerFrame DEF Advance
    <3>2. /\ \A t \in Subs : (Uses(t, h[t]))' = Uses(t, h'[t])
          /\ \A t \in Subs : (Reads(t, h[t]))' = Reads(t, h'[t])
          /\ \A t \in Subs \ {s} : Uses(t, h'[t]) = Uses(t, h[t])
      BY <3>1 DEF Uses, Reads
    <3>3. read \in [Conns -> Nat]
      BY DEF IControl, Types
    <3>4. \A c \in Conns : c \notin Uses(s, n) => c \notin Uses(s, r) /\ read'[c] = read[c]
      BY <3>1, <3>3 DEF Moves, Takes, Take, Conns
    <3>5. Unread'
      <4> SUFFICES ASSUME NEW c \in Conns, \A t \in Subs : c \notin Uses(t, h'[t])
                   PROVE  read'[c] = 0
        BY <3>2 DEF Unread
      <4>1. \A t \in Subs : c \notin Uses(t, h[t])
        BY <3>1, <3>4
      <4> QED
        BY <3>4, <4>1 DEF IHave, Unread
    <3>6. ASSUME NEW t \in Subs \ {s} PROVE Have(t)'
      <4> DEFINE c == Reads(t, h[t])
      <4> SUFFICES ASSUME \A u \in Subs \ {t} : c \notin Uses(u, h'[u]),
                          ~(carrier = "smux" /\ h[t].fb)
                   PROVE  Holds(h[t], read'[c])
        BY <3>1, <3>2 DEF Have, Alone
      <4>1. h[t] \in Handler /\ Fits(t, h[t])
        BY DEF IControl, Types
      <4>2. c \in Conns \/ c = None
        BY <4>1 DEF Reads, Handler, Conns
      <4>3. CASE c \in Conns
        <5>1. c \notin Uses(s, n)
          OBVIOUS
        <5>2. Alone(t, c) /\ read'[c] = read[c]
          BY <3>2, <3>4, <4>3, <5>1 DEF Alone
        <5> QED
          BY <5>2 DEF IHave, Have
      <4>4. CASE c = None
        <5>1. h[t].lc = None /\ (carrier = "smux" /\ h[t].pc # "idle" => FALSE)
              /\ (carrier # "smux" \/ h[t].pc = "idle" => h[t].wrapped = None)
          BY <4>4 DEF Reads, Conns
        <5>2. h[t].pc \in {"idle", "handoff", "done"} /\ h[t].upDir = "off" /\ h[t].up = <<>>
          BY <4>1, <5>1 DEF Fits, Handler, PCs, Ends
        <5> QED
          BY <5>2 DEF Holds, Faithful
      <4> QED
        BY <4>2, <4>3, <4>4
    <3>7. Have(s)'
      <4> DEFINE c == Reads(s, n)
      <4> SUFFICES ASSUME \A u \in Subs \ {s} : c \notin Uses(u, h[u]),
                          ~(carrier = "smux" /\ n.fb)
                   PROVE  Holds(n, read'[c])
        BY <3>1, <3>2 DEF Have, Alone
      <4>1. ~(carrier = "smux" /\ r.fb)
        BY <3>1 DEF Moves
      <4>2. c = Reads(s, r) => Holds(r, read[Reads(s, r)])
        BY <4>1 DEF IHave, Have, Alone
      <4>3. CASE c \in Conns
        <5>1. c # Reads(s, r) => read[c] = 0
          <6>1. c # Reads(s, r) => c \notin Uses(s, r)
            BY <3>1 DEF Moves
          <6> QED
            BY <4>3, <6>1 DEF IHave, Unread
        <5> QED
          BY <3>1, <4>2, <5>1 DEF Keeps
      <4>4. CASE c \notin Conns
        <5>1. n.lc = None /\ (carrier = "smux" /\ n.pc # "idle" => FALSE)
              /\ (carrier # "smux" \/ n.pc = "idle" => n.wrapped = None)
          BY <3>1, <4>4 DEF Reads, Handler, Conns
        <5>2. n.pc \in {"idle", "handoff", "done"} /\ n.upDir = "off" /\ n.up = <<>>
          BY <3>1, <5>1 DEF Fits, Handler, PCs, Ends
        <5> QED
          BY <5>2 DEF Holds, Faithful
      <4> QED
        BY <4>3, <4>4
    <3> QED
      BY <3>5, <3>6, <3>7 DEF IHave
  <2>2. CASE RefusePlain \/ GrpcPreface \/ SmuxServe \/ ServeEnds \/ UNCHANGED vars
    <3>1. UNCHANGED <<carrier, h, read>>
      BY <2>2, OtherSteps
    <3> QED
      BY <3>1 DEF IHave, Unread, Have, Alone, Uses, Reads
  <2> QED
    BY <2>1, <2>2, NextSteps
<1> QED
  BY <1>1, <1>2, ControlInvariance, PTL DEF Spec

(* What is written to the outbound connection is what the client sent, in  *)
(* order, with no gap and nothing twice, whatever was read ahead on the    *)
(* way: by the proxy server, for a fallback, or as the first payload.      *)
THEOREM PayloadIsFaithful == Spec => []PayloadFaithful
<1>1. IControl /\ IHave => PayloadFaithful
  <2> SUFFICES ASSUME IControl, IHave, NEW s \in Subs,
                      ~SharesItsConn(s), ~(carrier = "smux" /\ h[s].fb),
                      NEW i \in DOMAIN h[s].up
               PROVE  h[s].up[i] = <<h[s].lc, FirstChunk(s) + i - 1>>
    BY DEF PayloadFaithful
  <2>1. h[s] \in Handler /\ Fits(s, h[s]) /\ h[s].up \in Seq(Chunk)
    BY DEF IControl, Types, Handler
  <2>2. i \in 1..Len(h[s].up)
    BY <2>1
  <2>3. h[s].lc # None
    <3>1. h[s].up # <<>>
      BY <2>2
    <3> QED
      BY <2>1, <3>1 DEF Fits, Handler, Ends
  <2>4. Reads(s, h[s]) = h[s].lc
    BY <2>3 DEF Reads
  <2>5. Alone(s, h[s].lc)
    <3> SUFFICES ASSUME NEW t \in Subs \ {s}, h[s].lc \in Uses(t, h[t])
                 PROVE  FALSE
      BY DEF Alone
    <3>1. h[s].lc = t /\ carrier = "smux"
      BY DEF SharesItsConn, Uses
    <3> QED
      BY <2>1, <2>3, <3>1, ConnsAssumption DEF Fits
  <2>6. Faithful(h[s])
    BY <2>4, <2>5 DEF IHave, Have, Holds
  <2> QED
    BY <2>2, <2>6 DEF Faithful, First, FirstChunk
<1> QED
  BY <1>1, ControlInvariance, HaveInvariance, PTL
===============================================================================
