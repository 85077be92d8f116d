--------------------------------- MODULE Copy ---------------------------------
(* One direction of a relay, TryCopy of netLayer/relay.go: which of the    *)
(* ways to copy is taken, and when.  Both ends may have to do something    *)
(* before they are the bare connections below them: a header to be read or *)
(* written once, a first buffer left over by the handshake, a websocket    *)
(* frame.  Bytes that are copied below these layers too early or too late  *)
(* come out wrong at the far end.                                          *)
EXTENDS Naturals, Sequences

CONSTANTS
  Total,       (* how many tokens of data there are                        *)
  CopyRoom,    (* tokens of data in a buffer of io.Copy: 32 KiB            *)
  BufLen,      (* tokens in one buffer of readv: 4096 bytes in the code    *)
  BufCount     (* buffers of one readv: 8 in the code                      *)

VARIABLES
  reader,      (* what is read from                                        *)
  writer,      (* what is written to                                       *)
  useReadv,    (* the switch of the program                                *)
  arrived,     (* how many tokens have arrived at the reader               *)
  pos,         (* how many of them are taken from its bare connection      *)
  left,        (* how many of these are in its first buffer                *)
  headDue,     (* whether the reply of vless 0 is still to be read         *)
  lost,        (* whether the read of it had no room for what came with it *)
  replyDue,    (* whether it is still to be written                        *)
  big,         (* bigHeaderEverUsed of ws                                  *)
  method,      (* how it copies now                                        *)
  output,      (* what the far end has made of what was written            *)
  inside       (* websocket: how much of a frame is still to come to it    *)

vars ==
  <<reader, writer, useReadv, arrived, pos, left, headDue, lost, replyDue, big, method, output,
    inside>>

-----------------------------------------------------------------------------
(* A reader is bare; or a client of vless 0; or a server of vless, or of   *)
(* trojan or simplesocks, that may hold a first buffer.  "tls" stands for  *)
(* whatever is no tcp connection.                                          *)
Readers ==
  [layer : {"none", "vless0_client", "vless_server", "trojan_server"}, bare : {"tcp", "tls"}]

(* A writer is bare, or a proxy connection that adds nothing ("plain"), or *)
(* a server of vless 0; each over a websocket or not.                      *)
Writers ==
  [layer : {"none", "plain", "vless0_server"}, ws : {"none", "server", "client"},
   bare : {"tcp", "tls"}]

ReplyByte == 0

Noise == Total + 1

HeadLen == IF reader.layer = "vless0_client" THEN 2 ELSE 0

Data(n) == [i \in 1 .. n |-> i]

Stream == [i \in 1 .. HeadLen |-> ReplyByte] \o Data(Total)

-----------------------------------------------------------------------------
(* The far end.  Of a websocket it gets what is inside of frames.  The     *)
(* head of a frame that starts inside another one is noise there, and so   *)
(* is data outside of frames.                                              *)
Unframed(p) == [i \in 1 .. Len(p) |-> IF i <= inside THEN p[i] ELSE Noise]

WriteBare(p) ==
  IF writer.ws = "none"
  THEN output' = output \o p /\ UNCHANGED inside
  ELSE /\ output' = output \o Unframed(p)
       /\ inside' = IF Len(p) < inside THEN inside - Len(p) ELSE 0

(* A frame that says it is n long, and what of it follows at once.         *)
WriteFrame(n, p) ==
  IF inside = 0
  THEN output' = output \o p /\ inside' = n - Len(p)
  ELSE WriteBare(<<Noise>> \o p)

Endless == 10 * Total

-----------------------------------------------------------------------------
Init ==
  /\ reader \in Readers
  /\ writer \in Writers
  /\ useReadv \in BOOLEAN
  /\ left \in IF reader.layer \in {"vless_server", "trojan_server"} THEN 0 .. 1 ELSE {0}
  /\ arrived = left
  /\ pos = left
  /\ headDue = (reader.layer = "vless0_client")
  /\ lost = FALSE
  /\ replyDue = (writer.layer = "vless0_server")
  /\ big = FALSE
  /\ method = "start"
  /\ output = <<>>
  /\ inside = 0

Arrive ==
  /\ arrived' \in (arrived + 1) .. Len(Stream)
  /\ UNCHANGED <<reader, writer, useReadv, pos, left, headDue, lost, replyDue, big, method,
                 output, inside>>

-----------------------------------------------------------------------------
(* What the two ends are capable of.                                       *)

CanRSplice == reader.layer = "none" /\ reader.bare = "tcp"

EverPossibleToSpliceRead == reader.layer # "none" /\ reader.bare = "tcp"

(* Only vless tells that its bare connection is good for readv.            *)
WillReadBuffersBenifit ==
  reader.layer \in {"vless0_client", "vless_server"} /\ reader.bare = "tcp"

noHandshakeShit == left = 0 /\ ~headDue

CanWSplice == writer.ws = "none" /\ writer.bare = "tcp"

CanSpliceEventually == writer.ws = "server" /\ writer.bare = "tcp"

CanWEverSplice == CanWSplice \/ CanSpliceEventually

IsBasicWriter == writer.layer = "none" /\ writer.ws = "none" /\ writer.bare = "tcp"

IsMultiWriter == writer.layer # "none" \/ writer.ws # "none"

-----------------------------------------------------------------------------
(* A read below the layer of the reader.                                   *)
ReadBare(n) ==
  /\ pos + n <= arrived
  /\ pos' = pos + n
  /\ UNCHANGED <<left, headDue, lost>>

BarePiece(n) == SubSeq(Stream, pos + 1, pos + n)

(* A read through it into a buffer with so much room: the first buffer,    *)
(* then the connection.  The reply header is read with what comes at once  *)
(* and cut off; what the buffer has no room for then is gone.              *)
Read(n, room) ==
  IF left > 0
  THEN n = left /\ left' = 0 /\ UNCHANGED <<pos, headDue, lost>>
  ELSE /\ pos + n <= arrived
       /\ IF headDue THEN n >= HeadLen ELSE n <= room
       /\ pos' = pos + n
       /\ headDue' = FALSE
       /\ lost' = (lost \/ (headDue /\ n - HeadLen > room))
       /\ UNCHANGED left

Piece(n, room) ==
  IF left > 0
  THEN SubSeq(Stream, 1, left)
  ELSE IF ~headDue
  THEN BarePiece(n)
  ELSE SubSeq(Stream, HeadLen + 1, IF n - HeadLen > room THEN HeadLen + room ELSE n)

(* GetPacket has room for whatever one read brings.                        *)
PacketRoom == Len(Stream)

(* ReadFrom of a layer copies with such a buffer, io.Copy with its own.    *)
ClassicRoom ==
  IF writer.layer = "none" /\ writer.ws = "none" THEN CopyRoom ELSE PacketRoom

(* readv fills its buffers one after the other, and ShrinkBuffers cuts     *)
(* them: so much is in the first.                                          *)
ShrinkBuffers(p) == IF Len(p) < BufLen THEN Len(p) ELSE BufLen

(* MergeBuffers, when what several buffers hold fits into the room of the  *)
(* first, copies nothing there.                                            *)
MergeBuffers(p) ==
  [i \in 1 .. Len(p) |->
     IF Len(p) <= BufLen /\ i > ShrinkBuffers(p) THEN Noise ELSE p[i]]

-----------------------------------------------------------------------------
(* Writing through the layers, in one write below.                         *)
Below(p) == IF writer.ws = "none" THEN WriteBare(p) ELSE WriteFrame(Len(p), p)

Write(p) ==
  /\ Below((IF replyDue THEN <<ReplyByte, ReplyByte>> ELSE <<>>) \o p)
  /\ replyDue' = FALSE

(* Many buffers: a server of vless that owes its reply merges them, and so *)
(* does everything that is not basic below.                                *)
WriteBuffers(p) ==
  IF replyDue \/ writer.bare = "tls" \/ writer.ws = "client"
  THEN Write(MergeBuffers(p))
  ELSE Below(p) /\ UNCHANGED replyDue

(* One round of a loop that reads and writes through the layers.  The last *)
(* loops of TryCopy write an empty piece, those of ReadFrom do not.        *)
Round(n, room, writesEmpty) ==
  /\ Read(n, room)
  /\ IF Piece(n, room) = <<>> /\ ~writesEmpty
     THEN UNCHANGED <<output, inside, replyDue>>
     ELSE Write(Piece(n, room))

(* Below all layers.                                                       *)
SpliceRound(n) ==
  /\ ReadBare(n)
  /\ WriteBare(BarePiece(n))
  /\ UNCHANGED replyDue

-----------------------------------------------------------------------------
(* TryCopy chooses.                                                        *)
Choose ==
  /\ method = "start"
  /\ method' =
       IF CanWEverSplice /\ CanRSplice THEN "copy"
       ELSE IF CanWEverSplice /\ EverPossibleToSpliceRead THEN "wait_splice"
       ELSE IF useReadv /\ CanRSplice THEN "readv"
       ELSE IF useReadv /\ WillReadBuffersBenifit /\ (IsBasicWriter \/ IsMultiWriter)
       THEN "wait_readv"
       ELSE "copy"
  /\ UNCHANGED <<reader, writer, useReadv, arrived, pos, left, headDue, lost, replyDue, big,
                 output, inside>>

(* Reading and writing until the reader can be left for what is below it.  *)
Leave ==
  /\ method \in {"wait_splice", "wait_readv"}
  /\ noHandshakeShit
  /\ method' = IF method = "wait_splice" THEN "copy_bare" ELSE "readv"
  /\ UNCHANGED <<reader, writer, useReadv, arrived, pos, left, headDue, lost, replyDue, big,
                 output, inside>>

Wait ==
  /\ method \in {"wait_splice", "wait_readv"}
  /\ ~noHandshakeShit
  /\ \E n \in 1 .. Len(Stream) : Round(n, PacketRoom, TRUE)
  /\ UNCHANGED <<reader, writer, useReadv, arrived, big, method>>

(* A reply header of which only half has come ends the copying.            *)
HeadTooShort ==
  /\ method \in {"wait_splice", "wait_readv", "classic", "bare_writer"}
  /\ headDue
  /\ arrived > 0
  /\ method' = "failed"
  /\ UNCHANGED <<reader, writer, useReadv, arrived, pos, left, headDue, lost, replyDue, big,
                 output, inside>>

Readv ==
  /\ method = "readv"
  /\ \E n \in 1 .. BufLen * BufCount :
       /\ ReadBare(n)
       /\ IF IsMultiWriter
          THEN WriteBuffers(BarePiece(n))
          ELSE WriteBare(BarePiece(n)) /\ UNCHANGED replyDue
  /\ UNCHANGED <<reader, writer, useReadv, arrived, big, method>>

-----------------------------------------------------------------------------
(* io.Copy, which leaves it to ReadFrom of the writer, if that has one.    *)
IsBareNow == method = "copy_bare" \/ CanRSplice

(* Variant that takes the underlay for good without looking at the layer.  *)
ReadFromUnasked ==
  IF IsBareNow /\ CanWSplice THEN "splice"
  ELSE IF IsBareNow /\ CanSpliceEventually THEN "eventually"
  ELSE "classic"

(* TryReadFrom_withSplice: at once, after one round, after as many rounds  *)
(* as the underlay takes, or never.                                        *)
TryReadFrom_withSplice ==
  IF IsBareNow /\ CanWSplice /\ ~replyDue THEN "splice"
  ELSE IF IsBareNow /\ CanWSplice THEN "directly"
  ELSE IF IsBareNow /\ CanSpliceEventually THEN "eventually"
  ELSE "classic"

(* A websocket server starts with a frame that never ends.                 *)
tryWriteBigHeader ==
  /\ big' = TRUE
  /\ IF big THEN UNCHANGED <<output, inside>> ELSE WriteFrame(Endless, <<>>)

Copy ==
  /\ method \in {"copy", "copy_bare"}
  /\ IF writer.layer # "none"
     THEN method' = TryReadFrom_withSplice /\ UNCHANGED <<big, output, inside>>
     ELSE IF writer.ws = "server"
     THEN /\ tryWriteBigHeader
          /\ method' = IF writer.bare = "tcp" THEN "bare_writer" ELSE "classic"
     ELSE method' = "classic" /\ UNCHANGED <<big, output, inside>>
  /\ UNCHANGED <<reader, writer, useReadv, arrived, pos, left, headDue, lost, replyDue>>

ClassicCopy ==
  /\ method = "classic"
  /\ \E n \in 1 .. Len(Stream) : Round(n, ClassicRoom, FALSE)
  /\ UNCHANGED <<reader, writer, useReadv, arrived, big, method>>

(* From the reader with its layers to the connection below the writer.     *)
CopyToBare ==
  /\ method = "bare_writer"
  /\ \E n \in 1 .. Len(Stream) :
       /\ Read(n, CopyRoom)
       /\ WriteBare(Piece(n, CopyRoom))
  /\ UNCHANGED <<reader, writer, useReadv, arrived, replyDue, big, method>>

OneRound ==
  /\ method \in {"directly", "eventually"}
  /\ \E n \in 1 .. Len(Stream) : Round(n, PacketRoom, FALSE)
  /\ method' = IF method = "directly" THEN "splice" ELSE "can_splice_write"
  /\ UNCHANGED <<reader, writer, useReadv, arrived, big>>

CanSpliceWrite ==
  /\ method = "can_splice_write"
  /\ tryWriteBigHeader
  /\ method' = "splice"
  /\ UNCHANGED <<reader, writer, useReadv, arrived, pos, left, headDue, lost, replyDue>>

Splice ==
  /\ method = "splice"
  /\ \E n \in 1 .. Len(Stream) : SpliceRound(n)
  /\ UNCHANGED <<reader, writer, useReadv, arrived, big, method>>

Next ==
  \/ Arrive \/ Choose \/ Leave \/ Wait \/ HeadTooShort \/ Readv
  \/ Copy \/ ClassicCopy \/ CopyToBare \/ OneRound \/ CanSpliceWrite \/ Splice

Spec == Init /\ [][Next]_vars

-----------------------------------------------------------------------------
(* The data that went through the copier.                                  *)
Consumed == pos - left - (IF headDue THEN 0 ELSE HeadLen)

(* Whichever way is taken, and whenever it changes, the far end receives   *)
(* what was read, once and in order, behind the reply header where one is  *)
(* due (TryCopy, TryReadFrom_withSplice, ReadFrom and WriteBuffers of the  *)
(* connections).  This leaves out a bare websocket server over tls that is *)
(* copied to with its ReadFrom: the frames come after the endless one; and *)
(* what follows a first read of vless 0 that had too little room, which    *)
(* happens to nobody but io.Copy.                                          *)
StreamKept ==
  /\ lost => method \in {"classic", "bare_writer"} /\ writer.layer = "none"
  /\ \/ big /\ writer.bare = "tls"
     \/ lost
     \/ output =
          IF replyDue /\ Consumed = 0 THEN <<>>
          ELSE (IF writer.layer = "vless0_server" THEN <<ReplyByte, ReplyByte>> ELSE <<>>)
                 \o Data(Consumed)
===============================================================================
