-------------------------------- MODULE TlsLazy --------------------------------
(* One direction of a connection between a client and a server of this     *)
(* program that carries TLS inside TLS.  Both ends sniff what passes; when *)
(* the sender sees application data of the inner TLS, it sends a special   *)
(* command through the outer TLS and everything after that as it is.  The  *)
(* receiver finds the bytes behind the command in the last read of the     *)
(* raw connection, which a Recorder has kept (tls_lazy.go, tlsLayer).      *)
(*                                                                         *)
(* Upwards the sender is the DetectReader of the client; downwards it is   *)
(* the DetectLazyWriter of the server, which knows the command only once   *)
(* its DetectReader has met it.  Packets are read in pieces cut anywhere,  *)
(* and the outer TLS writes each as one record or as several: the receiver *)
(* sniffs records where the sender sniffs packets.                         *)
EXTENDS Naturals, Sequences

CONSTANTS
  MaxPackets,  (* packets before a sniffer gives up: 8 in the code         *)
  MaxRecords   (* reads that the Recorder keeps: 50 in the code            *)

VARIABLES
  dir,         (* "up" or "down"                                           *)
  known,       (* whether the sender knows the command                     *)
  taken,       (* how many tokens of the stream the sender has read        *)
  writing,     (* what the outer TLS has not written yet of its packet     *)
  cut,         (* whether a packet was written as several records          *)
  announced,   (* whether it has sent the command                          *)
  sender,      (* "sniffing", "raw" or "plain"                             *)
  sentCount,   (* how many packets the sender has sniffed                  *)
  net,         (* the tokens between the two                               *)
  rawInput,    (* what the TLS of the receiver has read and not used       *)
  last,        (* what the Recorder has as its last buffer                 *)
  writeCount,  (* how many reads it has kept                               *)
  receiver,    (* "sniffing", "raw", "plain" or "closed"                   *)
  gotCount,    (* how many packets the receiver has sniffed                *)
  found,       (* what made the receiver switch: "first", the command at   *)
               (* the start of last, or something "elsewhere"; "missed"    *)
               (* when it took the command for data                        *)
  forwarded    (* what went on to the other side                           *)

vars ==
  <<dir, known, taken, writing, cut, announced, sender, sentCount, net, rawInput, last, writeCount,
    receiver, gotCount, found, forwarded>>

-----------------------------------------------------------------------------
(* The inner TLS: each record is its head and the rest of it.  Upwards the *)
(* ClientHello has passed before.                                          *)
Stream ==
  IF dir = "up"
  THEN <<"handshake", "rest", "data", "rest", "data", "rest">>
  ELSE <<"hello", "rest", "handshake", "rest", "data", "rest">>

Command == 0

(* What travels: a record of the outer TLS in two parts, or a bare token.  *)
Record(p) == <<[part |-> "head", carries |-> p], [part |-> "tail", carries |-> p]>>

Bare(p) == [i \in 1 .. Len(p) |-> [part |-> "bare", carries |-> <<p[i]>>]]

(* What the other side sees of a token sent on as it is.                   *)
Seen(tokens) ==
  [i \in 1 .. Len(tokens) |->
     IF tokens[i].part = "bare" THEN tokens[i].carries[1] ELSE Command]

-----------------------------------------------------------------------------
(* What a sniffer makes of its next packet.  The hello has to be whole.    *)
(* Only a receiver looks for the command, both look for data.              *)
FirstKind(p) == IF p[1] = Command THEN "command" ELSE Stream[p[1]]

CommonDetect(p, count, receives) ==
  CASE count > MaxPackets -> "plain"
    [] count = 0 /\ count <= MaxPackets ->
         IF FirstKind(p) = "hello" /\ Len(p) > 1 THEN "sniffing" ELSE "plain"
    [] count \in 1 .. MaxPackets ->
         IF FirstKind(p) = "data" \/ (receives /\ FirstKind(p) = "command")
         THEN "raw"
         ELSE "sniffing"

Init ==
  /\ dir \in {"up", "down"}
  /\ known = (dir = "up")
  /\ taken = 0
  /\ writing = <<>>
  /\ cut = FALSE
  /\ announced = FALSE
  /\ sender = "sniffing"
  /\ sentCount = IF dir = "up" THEN 1 ELSE 0
  /\ net = <<>>
  /\ rawInput = <<>>
  /\ last = <<>>
  /\ writeCount = 0
  /\ receiver = "sniffing"
  /\ gotCount = IF dir = "up" THEN 1 ELSE 0
  /\ found = "none"
  /\ forwarded = <<>>

(* The other direction of the server meets the command.                    *)
LearnCommand ==
  /\ ~known
  /\ known' = TRUE
  /\ UNCHANGED <<dir, taken, writing, cut, announced, sender, sentCount, net, rawInput, last, writeCount,
                 receiver, gotCount, found, forwarded>>

-----------------------------------------------------------------------------
(* The sender.  A command it does not know is empty, and no record is      *)
(* written for it; one that it knows is short enough for one record.       *)
Packets == {[i \in 1 .. n |-> taken + i] : n \in 1 .. (Len(Stream) - taken)}

Announce(p) ==
  /\ announced' = known
  /\ net' = net \o (IF known THEN Record(<<Command>>) ELSE <<>>) \o Bare(p)

Send ==
  /\ writing = <<>>
  /\ \E p \in Packets :
       /\ taken' = taken + Len(p)
       /\ CASE sender = "sniffing" ->
                 /\ sender' = CommonDetect(p, sentCount, FALSE)
                 /\ sentCount' = IF sentCount > MaxPackets THEN sentCount ELSE sentCount + 1
                 /\ IF sender' = "raw"
                    THEN Announce(p) /\ UNCHANGED writing
                    ELSE writing' = p /\ UNCHANGED <<net, announced>>
            [] sender = "plain" ->
                 writing' = p /\ UNCHANGED <<net, sender, sentCount, announced>>
            [] sender = "raw" ->
                 net' = net \o Bare(p) /\ UNCHANGED <<writing, sender, sentCount, announced>>
  /\ UNCHANGED <<dir, known, cut, rawInput, last, writeCount, receiver, gotCount, found, forwarded>>

(* tls.Conn.Write goes on record by record; a hello is shorter than any    *)
(* record but the last of a packet.                                        *)
WriteRecord ==
  /\ \E n \in 1 .. Len(writing) :
       /\ n < Len(writing) => Stream[writing[n]] # "hello"
       /\ net' = net \o Record(SubSeq(writing, 1, n))
       /\ writing' = SubSeq(writing, n + 1, Len(writing))
       /\ cut' = (cut \/ n < Len(writing))
  /\ UNCHANGED <<dir, known, taken, announced, sender, sentCount, rawInput, last, writeCount,
                 receiver, gotCount, found, forwarded>>

-----------------------------------------------------------------------------
(* The receiver.  Its TLS reads the raw connection only when it has no     *)
(* whole record left; the Recorder sees every one of these reads.          *)
WholeRecord == Len(rawInput) > 1 /\ rawInput[1].part = "head"

RawRead ==
  /\ receiver \in {"sniffing", "plain"}
  /\ ~WholeRecord
  /\ \E n \in 1 .. Len(net) :
       /\ rawInput' = rawInput \o SubSeq(net, 1, n)
       /\ net' = SubSeq(net, n + 1, Len(net))
       /\ IF writeCount < MaxRecords
          THEN last' = SubSeq(net, 1, n) /\ writeCount' = writeCount + 1
          ELSE UNCHANGED <<last, writeCount>>
  /\ UNCHANGED <<dir, known, taken, writing, cut, announced, sender, sentCount, receiver,
                 gotCount, found, forwarded>>

(* What is no record ends the connection.                                  *)
RawReadFails ==
  /\ receiver \in {"sniffing", "plain"}
  /\ rawInput # <<>>
  /\ rawInput[1].part = "bare"
  /\ receiver' = "closed"
  /\ UNCHANGED <<dir, known, taken, writing, cut, announced, sender, sentCount, net, rawInput,
                 last, writeCount, gotCount, found, forwarded>>

(* GetTlsRecordNextIndex: behind the first record of the buffer, if it     *)
(* begins with one; otherwise anywhere.  An index behind the end, or one   *)
(* of a buffer too short for it, is treated differently by the two ends.   *)
NextIndexes == IF last # <<>> /\ last[1].part = "head" THEN {2} ELSE 0 .. Len(last) + 1

(* Variant that leaves out what the Recorder has.                          *)
FreeDataNone(i) == <<>>

FreeData(i) == Seen(SubSeq(last, i + 1, Len(last)))

Switch ==
  \E i \in NextIndexes :
    /\ found' = IF Len(last) > 1 /\ last[1] = Record(<<Command>>)[1]
                THEN "first" ELSE "elsewhere"
    /\ CASE i <= Len(last) ->
              forwarded' = forwarded \o FreeData(i) /\ receiver' = "raw"
         [] i > Len(last) /\ dir = "up" ->
              forwarded' = forwarded \o Seen(last) /\ receiver' = "raw"
         [] i > Len(last) /\ dir = "down" ->
              receiver' = "closed" /\ UNCHANGED forwarded

Receive ==
  /\ receiver \in {"sniffing", "plain"}
  /\ WholeRecord
  /\ rawInput' = SubSeq(rawInput, 3, Len(rawInput))
  /\ LET p == rawInput[2].carries
         verdict == IF receiver = "plain" THEN "plain" ELSE CommonDetect(p, gotCount, TRUE)
     IN /\ gotCount' = IF receiver = "plain" \/ gotCount > MaxPackets THEN gotCount ELSE gotCount + 1
        /\ IF verdict = "raw"
           THEN Switch
           ELSE /\ forwarded' = forwarded \o p
                /\ receiver' = verdict
                /\ found' = IF p[1] = Command THEN "missed" ELSE found
  /\ UNCHANGED <<dir, known, taken, writing, cut, announced, sender, sentCount, net, last,
                 writeCount>>

(* ReadFrom copies the raw connections from now on.                        *)
Splice ==
  /\ receiver = "raw"
  /\ net # <<>>
  /\ forwarded' = forwarded \o Seen(<<net[1]>>)
  /\ net' = Tail(net)
  /\ UNCHANGED <<dir, known, taken, writing, cut, announced, sender, sentCount, rawInput, last,
                 writeCount, receiver, gotCount, found>>

Next == LearnCommand \/ Send \/ WriteRecord \/ RawRead \/ RawReadFails \/ Receive \/ Splice

Spec == Init /\ [][Next]_vars

-----------------------------------------------------------------------------
(* The two ends switch at the same byte: what comes out is what went in,   *)
(* in both directions, and a receiver gives up only when the sender had no *)
(* command to send.  It never takes the command for data when every packet *)
(* was one record.  This leaves out the switches of a receiver whose last  *)
(* buffer does not begin with the record of the command, and what comes    *)
(* out after a command that was missed: the receiver counts records, and   *)
(* when packets were cut it gives up before the sender.                    *)
SwitchedAtOnce ==
  /\ found = "missed" => cut
  /\ found \in {"none", "first"} =>
       /\ \A k \in 1 .. Len(forwarded) : forwarded[k] = k
       /\ receiver = "closed" => ~announced
       /\ receiver = "raw" => announced
=============================================================================
