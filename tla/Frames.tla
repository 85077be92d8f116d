-------------------------------- MODULE Frames --------------------------------
(* The transports that cut a stream into frames: websocket (ws), grpc, the *)
(* chunks and the sealed records of vmess, and the faked application data  *)
(* of shadowTls.  A writer makes frames of what it is given; the network   *)
(* delivers them in pieces; a reader is called with buffers of any size    *)
(* and has to remember what is left of a frame.                            *)
EXTENDS Naturals, Sequences

CONSTANTS
  Framings,    (* the transports to look at                                *)
  MaxTokens,   (* how many tokens are written                              *)
  MaxFrame,    (* tokens that fit into one frame of a chunking writer      *)
  MaxBuffer,   (* tokens that the buffer of a reader holds                 *)
  Counters,    (* values of the counter of a nonce: 2^16 in the code       *)
  PrefixRoom   (* tokens that fit behind the checksum of shadowTls: 16     *)

VARIABLES
  framing,     (* which transport this is                                  *)
  wrote,       (* how many tokens were given to Write                      *)
  firstDue,    (* what has to go out with the first write                  *)
  toCut,       (* how many of them the loop of a chunking writer still has *)
  inFlight,    (* what is written and not delivered                        *)
  delivered,   (* what is delivered and not read                           *)
  remain,      (* what the reader knows to be left of a frame              *)
  leftover,    (* what it has opened and not handed out                    *)
  sealCount,   (* nonces the writer has used                               *)
  openCount,   (* nonces the reader has used                               *)
  handedOut,   (* what the reader has returned                             *)
  merged       (* whether the first write of shadowTls was put together    *)

vars ==
  <<framing, wrote, firstDue, toCut, inFlight, delivered, remain, leftover, sealCount,
    openCount, handedOut, merged>>

-----------------------------------------------------------------------------
(* What is on the wire: the head of a frame, a token of data, a ping of    *)
(* websocket, a sealed record, and what is in front of everything.         *)
HeadOf(n) == [kind |-> "head", length |-> n]

Token(t) == [kind |-> "token", value |-> t]

Ping == [kind |-> "ping"]

Opening == [kind |-> "opening"]

(* The n tokens from t on, and the record or the frame of them.            *)
TokensFrom(t, n) == [i \in 1 .. n |-> t + i - 1]

Sealed(t, n) == [kind |-> "sealed", nonce |-> sealCount, value |-> TokensFrom(t, n)]

Frame(p) == <<HeadOf(Len(p))>> \o [i \in 1 .. Len(p) |-> Token(p[i])]

Noise == MaxTokens + 1

Sealing == {"aead"}

(* The chunking writers cut what is longer than a frame.                   *)
Chunking == {"chunked", "fake", "shadow"}

(* vmess keeps its header, or its reply, for the first write; the first    *)
(* write of the client of shadowTls begins with a checksum.                *)
Opened == {"chunked", "aead", "shadow"}

Init ==
  /\ framing \in Framings
  /\ wrote = 0
  /\ firstDue = (framing \in Opened)
  /\ toCut = 0
  /\ inFlight = <<>>
  /\ delivered = <<>>
  /\ remain = 0
  /\ leftover = <<>>
  /\ sealCount = 0
  /\ openCount = 0
  /\ handedOut = <<>>
  /\ merged = FALSE

-----------------------------------------------------------------------------
Least(a, b) == IF a <= b THEN a ELSE b

Loops(n) == framing = "chunked" \/ (framing \in Chunking /\ n > MaxFrame)

(* The n tokens from t on, behind the opening if there is one.             *)
WriteFrames(opening, t, n) ==
  IF framing \in Sealing
  THEN /\ inFlight' = (inFlight \o opening) \o (IF n = 0 THEN <<>> ELSE <<Sealed(t, n)>>)
       /\ sealCount' = IF n = 0 THEN sealCount ELSE (sealCount + 1) % Counters
       /\ UNCHANGED toCut
  ELSE /\ inFlight' = (inFlight \o opening) \o (IF Loops(n) THEN <<>> ELSE Frame(TokensFrom(t, n)))
       /\ toCut' = IF Loops(n) THEN n ELSE 0
       /\ UNCHANGED sealCount

(* The checksum of shadowTls is the beginning of the data of its frame,    *)
(* and counts as one token.                                                *)
Summed(n) == WriteFrames(<<>>, 0, n + 1)

(* The bound on frames without data, which a test or a ping makes: one of  *)
(* them is under way at most.                                              *)
Quiet == inFlight = <<>> /\ delivered = <<>>

Write(n) ==
  /\ toCut = 0
  /\ n = 0 => Quiet
  /\ IF ~firstDue THEN WriteFrames(<<>>, wrote + 1, n)
     ELSE IF framing = "shadow" THEN Summed(n)
     ELSE WriteFrames(<<Opening>>, wrote + 1, n)
  /\ wrote' = wrote + n
  /\ firstDue' = FALSE
  /\ UNCHANGED <<framing, delivered, remain, leftover, openCount, handedOut, merged>>

(* One round of the loop.                                                  *)
WriteChunk ==
  /\ toCut > 0
  /\ inFlight' = inFlight \o Frame(TokensFrom(wrote + 1 - toCut, Least(MaxFrame, toCut)))
  /\ toCut' = toCut - Least(MaxFrame, toCut)
  /\ UNCHANGED <<framing, wrote, firstDue, delivered, remain, leftover, sealCount, openCount,
                 handedOut, merged>>

(* Several buffers at once.  MergeBuffersWithPrefix, when all of them fit  *)
(* into the room behind the checksum, leaves there what was there.         *)
WriteBuffers(n) ==
  /\ framing \in {"ws", "fake", "shadow"}
  /\ n > 0
  /\ toCut = 0
  /\ IF firstDue /\ n <= PrefixRoom
     THEN /\ inFlight' = inFlight \o Frame(<<0>> \o [i \in 1 .. n |-> Noise])
          /\ merged' = TRUE
          /\ UNCHANGED <<toCut, sealCount>>
     ELSE /\ IF firstDue THEN Summed(n)
             ELSE /\ inFlight' = inFlight \o Frame(TokensFrom(wrote + 1, n))
                  /\ UNCHANGED <<toCut, sealCount>>
          /\ UNCHANGED merged
  /\ wrote' = wrote + n
  /\ firstDue' = FALSE
  /\ UNCHANGED <<framing, delivered, remain, leftover, openCount, handedOut>>

(* The other program may send pings between its frames.                    *)
SendPing ==
  /\ framing = "ws"
  /\ Quiet
  /\ inFlight' = <<Ping>>
  /\ UNCHANGED <<framing, wrote, firstDue, toCut, delivered, remain, leftover, sealCount,
                 openCount, handedOut, merged>>

(* The network delivers a piece.                                           *)
Deliver ==
  /\ \E n \in 1 .. Len(inFlight) :
       /\ delivered' = delivered \o SubSeq(inFlight, 1, n)
       /\ inFlight' = SubSeq(inFlight, n + 1, Len(inFlight))
  /\ UNCHANGED <<framing, wrote, firstDue, toCut, remain, leftover, sealCount, openCount,
                 handedOut, merged>>

-----------------------------------------------------------------------------
(* The head of a frame is read whole.  What is handed out of a frame is    *)
(* what the buffer holds, and no more than has come; grpc waits for all.   *)
Values(items) == [i \in 1 .. Len(items) |-> IF items[i].kind = "token" THEN items[i].value ELSE Noise]

Amounts(room, have) ==
  IF framing = "grpc" THEN {room} \cap (0 .. have)
  ELSE IF room = 0 THEN {0}
  ELSE 1 .. Least(room, have)

(* The checksum does not reach the layer above.                            *)
Unsummed(p) == IF p # <<>> /\ p[1] = 0 THEN Tail(p) ELSE p

HandOut(p) == handedOut' = handedOut \o Unsummed(p)

ReadRest(m) ==
  /\ remain > 0
  /\ \E n \in Amounts(Least(m, remain), Len(delivered)) :
       /\ HandOut(Values(SubSeq(delivered, 1, n)))
       /\ delivered' = SubSeq(delivered, n + 1, Len(delivered))
       /\ remain' = remain - n
  /\ UNCHANGED <<leftover, openCount>>

(* Variant that takes the rest of a frame for read.                        *)
RestIgnored(length, n) == 0

Rest(length, n) == length - n

ReadFrame(m) ==
  /\ remain = 0
  /\ framing \notin Sealing
  /\ delivered # <<>>
  /\ delivered[1].kind \notin {"ping", "opening"}
  /\ LET length == IF delivered[1].kind = "head" THEN delivered[1].length ELSE Noise
     IN \E n \in Amounts(Least(m, length), Len(delivered) - 1) :
          /\ HandOut(Values(SubSeq(delivered, 2, n + 1)))
          /\ delivered' = SubSeq(delivered, n + 2, Len(delivered))
          /\ remain' = Rest(length, n)
  /\ UNCHANGED <<leftover, openCount>>

Skip(kind) ==
  /\ remain = 0
  /\ delivered # <<>>
  /\ delivered[1].kind = kind
  /\ delivered' = Tail(delivered)
  /\ UNCHANGED <<remain, leftover, openCount, handedOut>>

(* A websocket reads on behind a control frame.                            *)
SkipPing == Skip("ping")

(* vmess decodes the header, or the reply, before any data.                *)
ReadOpening == Skip("opening")

(* A sealed record is opened whole; what the buffer does not hold is kept. *)
Opens(record) == IF record.nonce = openCount THEN record.value ELSE <<Noise>>

HandOutOf(m, p) ==
  /\ HandOut(SubSeq(p, 1, Least(m, Len(p))))
  /\ leftover' = SubSeq(p, Least(m, Len(p)) + 1, Len(p))

ReadRecord(m) ==
  /\ framing \in Sealing
  /\ leftover = <<>>
  /\ delivered # <<>>
  /\ delivered[1].kind # "opening"
  /\ HandOutOf(m, Opens(delivered[1]))
  /\ openCount' = (openCount + 1) % Counters
  /\ delivered' = Tail(delivered)
  /\ UNCHANGED remain

ReadLeftover(m) ==
  /\ leftover # <<>>
  /\ HandOutOf(m, leftover)
  /\ UNCHANGED <<delivered, remain, openCount>>

Read ==
  /\ \/ SkipPing \/ ReadOpening
     \/ \E m \in 1 .. MaxBuffer : ReadRest(m) \/ ReadFrame(m) \/ ReadRecord(m) \/ ReadLeftover(m)
  /\ UNCHANGED <<framing, wrote, firstDue, toCut, inFlight, sealCount, merged>>

Next ==
  \/ \E n \in 0 .. MaxTokens - wrote : Write(n) \/ WriteBuffers(n)
  \/ WriteChunk \/ SendPing \/ Deliver \/ Read

Spec == Init /\ [][Next]_vars

-----------------------------------------------------------------------------
(* Whatever the sizes of writes, pieces and buffers, the reader returns    *)
(* the data that was written, once and in order (Read and Write of         *)
(* ws.Conn, commonPart, aeadReader, chunkedReader and FakeAppDataConn).    *)
(* This leaves out a first write of the client of shadowTls that was put   *)
(* together from buffers that fit behind the checksum.                     *)
StreamKept == merged \/ handedOut = [i \in 1 .. Len(handedOut) |-> i]
===============================================================================
